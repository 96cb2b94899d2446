---------------------------- MODULE IoCombinators ----------------------------
(***************************************************************************)
(* forge::io::when_all and when_any over two io_tasks                      *)
(* (include/forge/io/combinators.hpp and                                   *)
(* include/forge/io/detail/when_all_results.hpp, when_any_results.hpp).    *)
(*                                                                         *)
(* A child ends with an io_result (its status is value, eof or error),     *)
(* stopped, or with an exception.  What it ended with is stored under the  *)
(* mutex; then the sibling may be asked to stop, outside it; then the      *)
(* child is counted, and the last one to be counted completes the          *)
(* receiver.  A step is a critical section or a call outside it.           *)
(***************************************************************************)
EXTENDS Naturals, FiniteSets

VARIABLES kind,    \* "all", "any" or "timeout" (with_timeout)
          shared,  \* shared_state: results, winner, counters, the stop source
          child,   \* each child: position and what it ended with
          op       \* the operation: start(), receiver_stop_ and the receiver

vars == <<kind, shared, child, op>>

Children == {1, 2}
Results == {"value", "eof", "error"}

(* What a child that awaits a transfer or a timer makes of the sender's    *)
(* completion: an error becomes a result, stopped stays what it is; and a  *)
(* read of nothing into a buffer is the end of file.                       *)
await_void_result(sent) == IF sent \in {"value", "stopped"} THEN sent ELSE "error"
await_read_size_result(sent, count, empty) == IF sent = "value" /\ ~empty /\ count = 0 THEN "eof" ELSE await_void_result(sent)
await_timer_result(sent) == await_void_result(sent)

(* The task of with_timeout is any io_task, its second child a timer.      *)
Sent == {"value", "error", "stopped"}
Outcomes(i) ==
  IF kind = "timeout" /\ i = 2 THEN {await_timer_result(sent) : sent \in Sent}
  ELSE {await_read_size_result(sent, count, empty) : sent \in Sent, count \in 0..1, empty \in BOOLEAN} \cup {"exception"}

Init ==
  /\ kind \in {"all", "any", "timeout"}
  /\ shared = [pending |-> 2, sent |-> FALSE, done |-> {}, stopped |-> {}, slot |-> [i \in Children |-> "none"],
               thrown |-> FALSE, winner |-> 0, wins |-> "none", failed |-> FALSE, stop |-> FALSE]
  /\ child = [i \in Children |-> [pc |-> "unstarted", out |-> "none", stops |-> FALSE, action |-> "none"]]
  /\ op = [pc |-> "idle", token |-> FALSE, cb |-> FALSE, calls |-> 0, how |-> "none", action |-> "none"]

-----------------------------------------------------------------------------
(* when_all: every result is kept, and the first exception.                *)
all_store_result(s, i, out, throws) ==
  [s EXCEPT !.done = @ \cup {i}, !.slot[i] = IF throws THEN "none" ELSE out, !.thrown = @ \/ throws]
all_store_stopped(s, i) == [s EXCEPT !.done = @ \cup {i}, !.stopped = @ \cup {i}]
all_store_unexpected_error(s, i) == [s EXCEPT !.done = @ \cup {i}, !.thrown = TRUE]

all_stops(out, throws) == out # "value" \/ throws

all_result(s) ==
  CASE s.thrown -> "exception"
    [] \E i \in Children : s.slot[i] = "error" -> "error"
    [] \E i \in Children : s.slot[i] = "eof" -> "eof"
    [] s.stopped # {} \/ \E i \in Children : s.slot[i] = "none" -> "stopped"
    [] OTHER -> "value"

-----------------------------------------------------------------------------
(* when_any: the first child to be stored is the winner.                   *)
Replaces(s, i, how) == [s EXCEPT !.done = @ \cup {i}, !.winner = i, !.wins = how]
select_winner(s, i, how) ==
  [s EXCEPT !.done = @ \cup {i}, !.winner = IF @ = 0 THEN i ELSE @, !.wins = IF s.winner = 0 THEN how ELSE @]
any_store_result(s, i, out, throws) ==
  [select_winner(s, i, IF throws THEN "exception" ELSE "result") EXCEPT !.slot[i] = IF throws THEN @ ELSE out]
any_store_stopped(s, i) == select_winner(s, i, "stopped")
any_store_error(s, i) == select_winner(s, i, "exception")

any_stops(s) == s.winner = 0

any_result(s) ==
  CASE s.wins = "exception" -> "exception"
    [] s.wins = "result" -> s.slot[s.winner]
    [] OTHER -> "stopped"

-----------------------------------------------------------------------------
(* set_value, set_stopped and set_error of a child's receiver.             *)
all_set(i, out, throws) ==
  CASE out \in Results -> all_store_result(shared, i, out, throws)
    [] out = "stopped" -> all_store_stopped(shared, i)
    [] OTHER -> all_store_unexpected_error(shared, i)
any_set(i, out, throws) ==
  CASE out \in Results -> any_store_result(shared, i, out, throws)
    [] out = "stopped" -> any_store_stopped(shared, i)
    [] OTHER -> any_store_error(shared, i)

Ends(i) ==
  /\ child[i].pc = "running" /\ UNCHANGED <<kind, shared, op>>
  /\ \E out \in Outcomes(i) : child' = [child EXCEPT ![i].pc = "store", ![i].out = out]

Stores(i) ==
  /\ child[i].pc = "store" /\ i \notin shared.done /\ UNCHANGED <<kind, op>>
  /\ \E throws \in {FALSE} \cup (IF child[i].out \in Results THEN {TRUE} ELSE {}) :
       /\ shared' = IF kind = "all" THEN all_set(i, child[i].out, throws) ELSE any_set(i, child[i].out, throws)
       /\ child' = [child EXCEPT ![i].pc = "stop",
                       ![i].stops = IF kind = "all" THEN all_stops(child[i].out, throws) ELSE any_stops(shared)]

MayStop(i) ==
  /\ child[i].pc = "stop" /\ child' = [child EXCEPT ![i].pc = "finish"]
  /\ shared' = [shared EXCEPT !.stop = @ \/ child[i].stops] /\ UNCHANGED <<kind, op>>

(* maybe_complete_locked and finish_child; moving the results into the     *)
(* aggregate may throw.  with_timeout races the task (child 1) with a      *)
(* timer (child 2) and renames the timer's victory.                        *)
Completes(s) == ~s.sent /\ s.pending = 0
maybe_complete(s) ==
  IF ~Completes(s) THEN {"none"}
  ELSE LET how == IF kind = "all" THEN all_result(s) ELSE any_result(s)
       IN {how} \cup (IF how \in Results \/ kind = "all" THEN {"exception"} ELSE {})

with_timeout(s, how) == IF kind = "timeout" /\ how = "value" /\ s.winner = 2 THEN "timed_out" ELSE how

finish_child(i) ==
  /\ child[i].pc = "finish" /\ UNCHANGED <<kind, op>>
  /\ LET counted == [shared EXCEPT !.pending = IF @ = 0 THEN 0 ELSE @ - 1] IN
     /\ shared' = [counted EXCEPT !.sent = @ \/ Completes(counted)]
     /\ \E how \in maybe_complete(counted) :
          child' = [child EXCEPT ![i].pc = "deliver", ![i].action = with_timeout(counted, how)]

Called(how) == IF how = "none" THEN op ELSE [op EXCEPT !.calls = @ + 1, !.how = how]
deliver(i) ==
  /\ child[i].pc = "deliver" /\ op' = Called(child[i].action)
  /\ child' = [child EXCEPT ![i].pc = "ended"] /\ UNCHANGED <<kind, shared>>

-----------------------------------------------------------------------------
(* operation::start: the stop callback, which may fail to be installed or  *)
(* find the token stopped, and the two children.                           *)
start ==
  /\ op.pc = "idle" /\ UNCHANGED <<kind, child>>
  /\ \/ /\ shared' = [shared EXCEPT !.stop = op.token]
        /\ op' = [op EXCEPT !.pc = "first", !.cb = ~op.token]
     \/ op' = [op EXCEPT !.pc = "failed"] /\ UNCHANGED shared

set_start_error ==
  /\ op.pc = "failed" /\ UNCHANGED <<kind, child>>
  /\ shared' = [shared EXCEPT !.failed = TRUE, !.pending = 0, !.done = Children, !.sent = TRUE, !.stop = TRUE]
  /\ op' = [op EXCEPT !.pc = "deliver", !.action = "exception"]
deliver_start_error ==
  /\ op.pc = "deliver" /\ op' = [Called(op.action) EXCEPT !.pc = "started"] /\ UNCHANGED <<kind, shared, child>>

start_child(i, from, to) ==
  /\ op.pc = from /\ op' = [op EXCEPT !.pc = to]
  /\ child' = [child EXCEPT ![i].pc = "running"] /\ UNCHANGED <<kind, shared>>

(* The receiver's token is stopped; the callback runs if it is there.      *)
RequestToken ==
  /\ ~op.token /\ op' = [op EXCEPT !.token = TRUE] /\ UNCHANGED <<kind, shared, child>>
request_fused_stop ==
  /\ op.token /\ op.cb
  /\ op' = [op EXCEPT !.cb = FALSE] /\ shared' = [shared EXCEPT !.stop = TRUE] /\ UNCHANGED <<kind, child>>

-----------------------------------------------------------------------------
ChildStep(i) == Stores(i) \/ MayStop(i) \/ finish_child(i) \/ deliver(i)
StartStep ==
  set_start_error \/ deliver_start_error \/ start_child(1, "first", "second") \/ start_child(2, "second", "started")

Next ==
  \/ \E i \in Children : ChildStep(i) \/ Ends(i)
  \/ start \/ StartStep \/ RequestToken \/ request_fused_stop

(* Threads run, and a child that is asked to stop ends; others need not.   *)
Fairness ==
  /\ \A i \in Children : WF_vars(ChildStep(i)) /\ WF_vars(shared.stop /\ Ends(i))
  /\ WF_vars(StartStep) /\ WF_vars(request_fused_stop)

Spec == Init /\ [][Next]_vars /\ Fairness

-----------------------------------------------------------------------------
(* The receiver is called once, after both children have ended or when     *)
(* neither was started; and the outcome is the one the children decide:    *)
(* for when_any that of the first to be stored, which alone asked the      *)
(* other to stop, and timed_out just when that is the timer; for when_all  *)
(* a child that stopped because its sibling failed never hides the         *)
(* failure, nor an end of file.                                            *)
Fates == {child[i].out : i \in Children}
OutcomeOfChildren ==
  /\ op.calls <= 1
  /\ op.calls = 1 /\ ~shared.failed =>
       /\ shared.done = Children /\ shared.pending = 0
       /\ kind = "all" =>
            /\ op.how = "value" => Fates = {"value"}
            /\ op.how = "stopped" => "stopped" \in Fates /\ Fates \subseteq {"stopped", "value"}
            /\ op.how = "eof" => Fates \cap {"error", "exception"} = {}
       /\ kind # "all" =>
            \E i \in Children :
              /\ child[i].stops /\ \A j \in Children \ {i} : ~child[j].stops
              /\ \/ op.how \in {child[i].out, "exception"} /\ (kind = "timeout" /\ i = 2 => op.how # "value")
                 \/ op.how = "timed_out" /\ kind = "timeout" /\ i = 2 /\ child[i].out = "value"
  /\ shared.failed => \A i \in Children : child[i].pc = "unstarted"

(* Once a child of when_all fails, a child of when_any ends, or the        *)
(* receiver's token is stopped, the operation completes.                   *)
Decided ==
  \/ op.token /\ op.pc # "idle"
  \/ \E i \in Children : child[i].out # "none" /\ (kind = "all" => child[i].out # "value")
  \/ op.pc = "failed"
Settles == []<>(Decided => op.calls = 1)
=============================================================================
