---------------------------- MODULE UringContext ----------------------------
(***************************************************************************)
(* forge::io::io_uring_context                                             *)
(* (include/forge/io/detail/linux_io_uring_context.hpp).                   *)
(*                                                                         *)
(* A coroutine frame holds the operation it awaits; its address is the     *)
(* user_data of the request and of the request that cancels it, and is     *)
(* used again for the next operation of the frame.  Threads queue          *)
(* operations and publish cancellations under the mutex; the poller alone  *)
(* enters the kernel, drains completions and resumes frames.  A step is a  *)
(* critical section, a completion, a resumption, or a step of the kernel.  *)
(* Errors of a transfer other than ECANCELED pass like values and are not  *)
(* told apart from them.                                                   *)
(***************************************************************************)
EXTENDS Naturals, Sequences, SequencesExt, FiniteSets

CONSTANTS Frames,     \* coroutine frames (addresses)
          Stoppable,  \* those whose stop token can be stopped
          Programs,   \* how many operations each frame goes through
          Entries,    \* size of the submission queue
          MaxFaults,  \* submissions that io_uring_enter refuses
          HardFails   \* may waiting for completions fail for good?

VARIABLES ring,    \* the submission queue, the kernel's requests, the completion queue
          state,   \* context_state, the eventfd, and the faults still to come
          frame,   \* each frame: position, io_operation, stop token and callback
          poller   \* the poller: position, completions and ready frames of its batch

vars == <<ring, state, frame, poller>>

Nobody == "nobody"
Fresh(gen, left, by) ==
  [pc |-> "start", by |-> by, gen |-> gen, left |-> left, token |-> FALSE, cb |-> "none", result |-> "none",
   pending |-> 1, cancel |-> FALSE, parked |-> FALSE, queued |-> TRUE, moved |-> FALSE]
Idle(gen, left) == [Fresh(gen, left, "user") EXCEPT !.pc = "idle"]
Again(f, by) == Fresh(f.gen + 1, f.left - 1, by)

Init ==
  /\ ring = [sq |-> <<>>, kernel |-> {}, cq |-> <<>>]
  /\ state = [closed |-> FALSE, stopped |-> FALSE, wakeup |-> "none", done |-> FALSE,
              error |-> FALSE, ops |-> <<>>, submissions |-> <<>>, ready |-> <<>>,
              parked |-> 0, wake |-> FALSE, faults |-> MaxFaults]
  /\ \E p \in Programs : frame = [o \in Frames |-> Idle(0, p[o])]
  /\ poller = [pc |-> "none", left |-> 0, batch |-> <<>>]

-----------------------------------------------------------------------------
(* Critical sections are operators on m, the three parts they change, and  *)
(* those that enter the kernel give the set of their outcomes.             *)
m0 == [ring |-> ring, state |-> state, frame |-> frame]
Becomes(m) == ring' = m.ring /\ state' = m.state /\ frame' = m.frame

Request(m, what, o) == [what |-> what, o |-> o, gen |-> m.frame[o].gen, dying |-> FALSE]
Nop == [what |-> "nop", o |-> Nobody, gen |-> 0, dying |-> FALSE]

(* try_publish: refused when the queue is full. *)
HasRoom(m) == Len(m.ring.sq) < Entries
publish(m, sqe) == [m EXCEPT !.ring.sq = Append(@, sqe)]
retract_last(m) == [m EXCEPT !.ring.sq = Front(@)]

(* record_flush_locked: the wakeup is in flight when nothing is unflushed. *)
record_flush(m, error) ==
  IF error = "none" /\ m.state.wakeup = "published" THEN [m EXCEPT !.state.wakeup = "in_flight"] ELSE m

(* The kernel takes a request from the queue.  It finds the target of a    *)
(* cancel request by its address; one that is being executed is only asked *)
(* to give up (EALREADY).                                                  *)
Cqe(r, res) == [what |-> r.what, o |-> r.o, gen |-> r.gen, res |-> res]
Posted(m, rs, cqes) == [m EXCEPT !.ring.kernel = @ \ rs, !.ring.cq = @ \o cqes]

Takes(m, r) ==
  LET targets == {x \in m.ring.kernel : x.o = r.o} IN
  CASE r.what = "rw" -> {[m EXCEPT !.ring.kernel = @ \cup {r}]}
    [] r.what = "nop" -> {Posted(m, {}, <<Cqe(r, "value")>>)}
    [] r.what = "cancel" /\ targets = {} -> {Posted(m, {}, <<Cqe(r, "not_found")>>)}
    [] OTHER -> UNION {
         {Posted(m, {x}, <<Cqe(x, "canceled"), Cqe(r, "value")>>),
          Posted(m, {x}, <<Cqe(r, "value"), Cqe(x, "canceled")>>),
          [Posted(m, {x}, <<Cqe(r, "already")>>) EXCEPT !.ring.kernel = @ \cup {[x EXCEPT !.dying = TRUE]}]} :
           x \in targets}

(* flush_published: the kernel takes some of the queue, in order; it is an *)
(* error unless it takes all, EBUSY only while completions pile up.        *)
Consumed(m, k) ==
  FoldLeft(LAMBDA S, r : UNION {Takes([x EXCEPT !.ring.sq = Tail(@)], r) : x \in S},
           {m}, SubSeq(m.ring.sq, 1, k))

flush(m) ==
  LET n == Len(m.ring.sq) IN
  {[m |-> record_flush(x, "none"), error |-> "none"] : x \in Consumed(m, n)}
  \cup {[m |-> x, error |-> "busy"] :
          x \in UNION {Consumed(m, k) : k \in IF m.ring.cq # <<>> THEN 0..n-1 ELSE {}}}
  \cup {[m |-> [x EXCEPT !.state.faults = @ - 1], error |-> "hard"] :
          x \in UNION {Consumed(m, k) : k \in IF m.state.faults > 0 THEN 0..n-1 ELSE {}}}

(* retire_if_drained_locked: the frame is ready when every completion that *)
(* names it has been drained.                                              *)
RetiresAtOnce(m, o) ==
  [m EXCEPT !.frame[o].pending = 0, !.frame[o].parked = FALSE,
            !.state.parked = IF m.frame[o].parked THEN @ - 1 ELSE @,
            !.state.ops = SelectSeq(@, LAMBDA x : x # o),
            !.state.ready = IF Contains(@, o) THEN @ ELSE Append(@, o)]
retire_if_drained(m, o) ==
  IF m.frame[o].pending # 1 THEN [m EXCEPT !.frame[o].pending = @ - 1]
  ELSE [m EXCEPT !.frame[o].pending = 0, !.frame[o].parked = FALSE,
                 !.state.parked = IF m.frame[o].parked THEN @ - 1 ELSE @,
                 !.state.ops = SelectSeq(@, LAMBDA x : x # o),
                 !.state.ready = Append(@, o)]

-----------------------------------------------------------------------------
(* Cancellation.  A cancel request that finds the queue full is parked in  *)
(* the operation until the poller has room.                                *)
publish_cancel(m, o) ==
  [publish(m, Request(m, "cancel", o)) EXCEPT !.frame[o].pending = @ + 1, !.frame[o].parked = FALSE,
     !.state.parked = IF m.frame[o].parked THEN @ - 1 ELSE @]

queue_cancel(m, o) ==
  LET woken == [m EXCEPT !.state.wake = TRUE]
  IN IF HasRoom(m) THEN publish_cancel(woken, o)
     ELSE [woken EXCEPT !.frame[o].parked = TRUE, !.state.parked = @ + 1]

CancelOne(m, o) ==
  IF m.frame[o].cancel THEN m
  ELSE LET asked == [m EXCEPT !.frame[o].cancel = TRUE]
       IN IF m.frame[o].queued THEN asked ELSE queue_cancel(asked, o)

cancel_all(m) == FoldLeft(CancelOne, m, m.state.ops)
request_cancel(m, o) == IF Contains(m.state.ops, o) THEN CancelOne(m, o) ELSE m

RetryOne(m, o) == IF m.frame[o].parked /\ HasRoom(m) THEN publish_cancel(m, o) ELSE m
ForgetsParked(m) == {m}
retry_parked_cancels(m) ==
  LET tried == FoldLeft(RetryOne, m, m.state.ops)
  IN IF tried = m THEN {m} ELSE {x.m : x \in flush(tried)}

(* submit_wakeup_locked: one NOP at a time. *)
submit_wakeup(m) ==
  LET woken == [m EXCEPT !.state.wake = TRUE] IN
  IF m.state.done \/ m.state.wakeup \in {"in_flight", "published"} THEN woken
  ELSE IF HasRoom(m) THEN publish([woken EXCEPT !.state.wakeup = "published"], Nop)
  ELSE [woken EXCEPT !.state.wakeup = "needed"]

-----------------------------------------------------------------------------
(* Submission, by the poller. *)
submit_operation_locked(m, o) ==
  LET rw == Request(m, "rw", o)
      roomy == IF HasRoom(m) THEN {m} ELSE {x.m : x \in flush(m)}
      Fate(x) == IF x.error = "hard" /\ x.m.ring.sq # <<>>
                 THEN [m |-> retract_last(x.m), ok |-> FALSE] ELSE [m |-> x.m, ok |-> TRUE]
  IN UNION {IF HasRoom(r) THEN {Fate(x) : x \in flush(publish(r, rw))} ELSE {[m |-> r, ok |-> FALSE]} :
              r \in roomy}

Ends(m, o, result) == retire_if_drained([m EXCEPT !.frame[o].result = result], o)

process_one(m) ==
  LET o == Head(m.state.submissions)
      taken == [m EXCEPT !.state.submissions = Tail(@), !.frame[o].queued = FALSE]
  IN IF m.state.stopped \/ m.frame[o].cancel
     THEN {Ends([taken EXCEPT !.frame[o].cancel = TRUE], o, "canceled")}
     ELSE {IF x.ok THEN x.m ELSE Ends(x.m, o, "no_buffer_space") : x \in submit_operation_locked(taken, o)}

process_submissions(m) ==
  FoldLeft(LAMBDA S, o : UNION {process_one(x) : x \in S}, {m}, m.state.submissions)

-----------------------------------------------------------------------------
(* A frame runs on a user's thread or, when it was resumed, on the poller. *)
Suspends(o) ==
  poller' = IF frame[o].by = "poller" THEN [poller EXCEPT !.pc = "resume"] ELSE poller
Finished(o) == frame' = [frame EXCEPT ![o] = Idle(@.gen, @.left)] /\ Suspends(o)

Begin(o) ==
  /\ poller.pc # "none" /\ frame[o].pc = "idle" /\ frame[o].left > 0
  /\ frame' = [frame EXCEPT ![o] = Again(@, "user")] /\ UNCHANGED <<ring, state, poller>>

(* await_suspend: a stopped token or an empty buffer ends it here; then    *)
(* the callback is installed, which on a stopped token runs at once.       *)
await_suspend(o) ==
  /\ frame[o].pc = "start"
  /\ \/ Finished(o)
     \/ /\ frame' = [frame EXCEPT ![o].pc = "submit",
                                  ![o].cb = CASE o \notin Stoppable -> "none"
                                              [] frame[o].token -> "ran"
                                              [] OTHER -> "registered"]
        /\ UNCHANGED poller
  /\ UNCHANGED <<ring, state>>

Refuses(o) == state.closed \/ state.stopped \/ state.done \/ frame[o].token

submit_operation(o) ==
  /\ frame[o].pc = "submit"
  /\ IF Refuses(o)
       THEN frame' = [frame EXCEPT ![o].pc = "rejected"] /\ UNCHANGED <<ring, state, poller>>
       ELSE /\ frame' = [frame EXCEPT ![o].pc = "suspended"] /\ Suspends(o) /\ UNCHANGED ring
            /\ state' = [state EXCEPT !.ops = <<o>> \o @, !.submissions = Append(@, o), !.wake = TRUE]

(* The callback's destructor waits while the callback runs. *)
CallbackIdle(o) == frame[o].cb # "running"

Rejected(o) ==
  frame[o].pc = "rejected" /\ CallbackIdle(o) /\ Finished(o) /\ UNCHANGED <<ring, state>>

RequestToken(o) ==
  /\ o \in Stoppable /\ frame[o].pc # "idle" /\ ~frame[o].token
  /\ frame' = [frame EXCEPT ![o].token = TRUE] /\ UNCHANGED <<ring, state, poller>>

StopCallback(o) ==
  /\ frame[o].token /\ frame[o].cb = "registered"
  /\ frame' = [frame EXCEPT ![o].cb = "running"] /\ UNCHANGED <<ring, state, poller>>

cancel_requester(o) ==
  /\ frame[o].cb = "running" /\ UNCHANGED poller
  /\ Becomes(request_cancel([m0 EXCEPT !.frame[o].cb = "ran"], o))

(* await_resume on the poller; the coroutine may await again at once.      *)
Outcome(o) == IF frame[o].result = "canceled" /\ frame[o].cancel THEN "stopped" ELSE frame[o].result

await_resume(o) ==
  /\ frame[o].pc = "resumed" /\ CallbackIdle(o)
  /\ \/ Finished(o)
     \/ /\ frame[o].left > 0 /\ UNCHANGED poller
        /\ frame' = [frame EXCEPT ![o] = [Again(@, "poller") EXCEPT !.token = frame[o].token]]
  /\ UNCHANGED <<ring, state>>

-----------------------------------------------------------------------------
(* The constructor proves the ring with a NOP, or throws, before it starts *)
(* the poller.  close(), request_stop() and shutdown(), which the          *)
(* destructor calls.                                                       *)
io_uring_context ==
  /\ poller.pc = "none" /\ poller' = [poller EXCEPT !.pc = "submit"]
  /\ \E x \in flush(publish(m0, Nop)) : x.error = "none" /\ x.m.ring.cq # <<>>
  /\ UNCHANGED <<ring, state, frame>>

Lifecycle(m) == poller.pc # "none" /\ Becomes(submit_wakeup(m)) /\ UNCHANGED poller
close == ~state.closed /\ Lifecycle([m0 EXCEPT !.state.closed = TRUE])
request_stop == ~state.stopped /\ Lifecycle(cancel_all([m0 EXCEPT !.state.stopped = TRUE]))
shutdown ==
  /\ ~(state.closed /\ state.stopped)
  /\ Lifecycle(cancel_all([m0 EXCEPT !.state.closed = TRUE, !.state.stopped = TRUE]))

-----------------------------------------------------------------------------
(* run(): submit and flush; wait, unless there is something to do already; *)
(* drain the completions that are there; resume the ready frames; exit     *)
(* when nothing is left.                                                   *)
PollSubmit ==
  /\ poller.pc = "submit"
  /\ \E p \in process_submissions(m0) : \E x \in flush(p) :
       /\ Becomes(x.m)
       /\ poller' = IF x.error = "hard" \/ x.m.state.ready # <<>>
                    THEN [poller EXCEPT !.pc = "drain", !.left = Len(x.m.ring.cq)]
                    ELSE [poller EXCEPT !.pc = "wait"]

(* wait_for_activity returns on an event, or after its health interval.    *)
wait_for_activity ==
  /\ poller.pc = "wait" /\ poller' = [poller EXCEPT !.pc = "drain", !.left = Len(ring.cq)]
  /\ state' = [state EXCEPT !.wake = FALSE] /\ UNCHANGED <<ring, frame>>

PollFails ==
  /\ HardFails /\ poller.pc = "wait" /\ poller' = [poller EXCEPT !.pc = "gone"]
  /\ state' = [state EXCEPT !.done = TRUE, !.error = TRUE] /\ UNCHANGED <<ring, frame>>

(* complete(): the completion of a cancel request decides nothing.         *)
complete(m, cqe) ==
  CASE cqe.what = "nop" -> [m EXCEPT !.state.wakeup = IF @ = "needed" THEN @ ELSE "none"]
    [] cqe.what = "cancel" -> retire_if_drained(m, cqe.o)
    [] cqe.what = "rw" -> Ends(m, cqe.o, cqe.res)

drain_completions ==
  /\ poller.pc = "drain" /\ poller.left > 0
  /\ Becomes(complete([m0 EXCEPT !.ring.cq = Tail(@)], Head(ring.cq)))
  /\ poller' = [poller EXCEPT !.left = @ - 1]

TakeReady ==
  /\ poller.pc = "drain" /\ poller.left = 0 /\ state' = [state EXCEPT !.ready = <<>>]
  /\ poller' = [poller EXCEPT !.pc = "resume", !.batch = state.ready] /\ UNCHANGED <<ring, frame>>

resume_continuation ==
  /\ poller.pc = "resume" /\ poller.batch # <<>>
  /\ poller' = [poller EXCEPT !.pc = "running", !.batch = Tail(@)]
  /\ frame' = [frame EXCEPT ![Head(poller.batch)].pc = "resumed", ![Head(poller.batch)].by = "poller"]
  /\ UNCHANGED <<ring, state>>

should_exit(m) ==
  /\ m.state.closed \/ m.state.stopped
  /\ m.state.ops = <<>> /\ m.state.submissions = <<>> /\ m.state.wakeup = "none"

PollExit ==
  /\ poller.pc = "resume" /\ poller.batch = <<>>
  /\ \E r \in retry_parked_cancels(m0) :
       LET m == IF r.state.wakeup = "needed" THEN submit_wakeup(r) ELSE r IN
       /\ Becomes([m EXCEPT !.state.done = should_exit(m)])
       /\ poller' = [poller EXCEPT !.pc = IF should_exit(m) THEN "gone" ELSE "submit"]

-----------------------------------------------------------------------------
(* Transfers end when they end; one that was asked to give up, soon.       *)
KernelTransfers(r) ==
  /\ ring' = [ring EXCEPT !.kernel = @ \ {r}, !.cq = Append(@, Cqe(r, "value"))]
  /\ frame' = [frame EXCEPT ![r.o].moved = TRUE] /\ UNCHANGED <<state, poller>>

KernelGivesUp(r) ==
  /\ ring' = [ring EXCEPT !.kernel = @ \ {r}, !.cq = Append(@, Cqe(r, "canceled"))]
  /\ UNCHANGED <<frame, state, poller>>

Kernel == \E r \in ring.kernel : KernelTransfers(r) \/ KernelGivesUp(r)
KernelMust == \E r \in ring.kernel : r.dying /\ (KernelTransfers(r) \/ KernelGivesUp(r))

-----------------------------------------------------------------------------
FrameStep(o) ==
  await_suspend(o) \/ submit_operation(o) \/ Rejected(o) \/ await_resume(o)
CallbackStep(o) == StopCallback(o) \/ cancel_requester(o)
Poll == PollSubmit \/ wait_for_activity \/ drain_completions \/ TakeReady \/ resume_continuation \/ PollExit

Next ==
  \/ \E o \in Frames : Begin(o) \/ FrameStep(o) \/ RequestToken(o) \/ CallbackStep(o)
  \/ io_uring_context \/ close \/ request_stop \/ shutdown
  \/ Poll \/ PollFails
  \/ Kernel

(* Threads run, wait_for_activity returns at the latest after its health   *)
(* interval, and the kernel finishes what was cancelled; other transfers   *)
(* need not end.                                                           *)
Fairness ==
  /\ \A o \in Frames : WF_vars(FrameStep(o)) /\ WF_vars(CallbackStep(o))
  /\ WF_vars(Poll)
  /\ WF_vars(KernelMust)

Spec == Init /\ [][Next]_vars /\ Fairness

-----------------------------------------------------------------------------
Named == {ToSet(ring.sq), ring.kernel, ToSet(ring.cq)}
Names(o) ==
  Len(SelectSeq(ring.sq, LAMBDA r : r.o = o)) + Cardinality({r \in ring.kernel : r.o = o})
    + Len(SelectSeq(ring.cq, LAMBDA r : r.o = o))

(* An address that the kernel or a queue still names belongs to the        *)
(* operation that gave it out, which is suspended: it is not resumed, and  *)
(* its frame not used again, before the last completion is drained.        *)
NoStaleReference ==
  /\ \A S \in Named : \A r \in S :
       r.o # Nobody => frame[r.o].gen = r.gen /\ frame[r.o].pc = "suspended" /\ Contains(state.ops, r.o)
  /\ \A o \in Frames : Contains(state.ops, o) =>
       frame[o].pending = Names(o) + (IF Contains(state.submissions, o) THEN 1 ELSE 0)
  /\ state.parked = Cardinality({o \in Frames : frame[o].parked})

(* A submission, and what a thread published, never waits for the health   *)
(* interval: the poller sleeps only if it was signalled since.             *)
NoLostSignal ==
  poller.pc = "wait" /\ ~state.wake /\ ring.cq = <<>> => state.submissions = <<>> /\ ring.sq = <<>>

(* What the coroutine sees is what the kernel did: bytes that were moved   *)
(* are reported, whatever was cancelled meanwhile, and none are invented.  *)
OutcomeIsReal ==
  \A o \in Frames : frame[o].pc = "resumed" =>
    /\ frame[o].moved <=> Outcome(o) = "value"
    /\ Outcome(o) = "stopped" => frame[o].token \/ state.stopped

(* The poller ends by itself only when no operation is left behind.        *)
ExitIsDrained ==
  state.done /\ ~state.error =>
    /\ state.ops = <<>> /\ state.submissions = <<>> /\ state.ready = <<>> /\ poller.batch = <<>>
    /\ \A o \in Frames : frame[o].pc # "suspended"
    /\ \A S \in Named : S = {}

(* A stopped operation ends, even with its cancellation refused, parked or *)
(* late; after request_stop or shutdown the poller ends, so that wait()    *)
(* and the destructor return.                                              *)
wait_poller_exit == state.done
Settles ==
  []<>(state.error \/ (/\ state.stopped => wait_poller_exit
                       /\ \A o \in Frames : frame[o].token => frame[o].pc # "suspended"))
=============================================================================
