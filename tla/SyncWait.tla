------------------------------ MODULE SyncWait ------------------------------
(***************************************************************************)
(* std::this_thread::sync_wait (backport/cpp26/execution/sync_wait.hpp)    *)
(* and forge::wait_result (include/forge/wait_result.hpp), which give the  *)
(* result of a sender to the thread that waits on a run_loop.  The sender  *)
(* is a set of pieces of work, each of which may end inside start(), on a  *)
(* thread of its own, or as a task of the loop; it completes where the     *)
(* last piece ends, on the waiting thread or on another.  The loop, the    *)
(* result and the operation are locals of the call and are gone when it    *)
(* returns.                                                                *)
(***************************************************************************)
EXTENDS RunLoop

Main == CHOOSE r \in Runners : TRUE

VARIABLES api,     \* "sync_wait" or "wait_result"
          work,    \* each piece: "idle", "abroad", "loop", "ended"
          by,      \* who completes the sender: None, "main" or "other"
          sent,    \* how the sender completed
          result,  \* state.result_
          call     \* the call itself: "none", "start", "run", "returned"

waitVars == <<api, work, by, sent, result, call>>
vars == <<loopVars, waitVars>>

WaitInit ==
  /\ Init /\ api \in {"sync_wait", "wait_result"}
  /\ work = [t \in Tasks |-> "idle"] /\ by = None
  /\ sent = "none" /\ result = "none" /\ call = "none"

(* A piece ends on a thread; the last one completes the sender there.      *)
Ends(t, thread) ==
  /\ work' = [work EXCEPT ![t] = "ended"]
  /\ by' = IF \A u \in Tasks \ {t} : work[u] = "ended" THEN thread ELSE by

-----------------------------------------------------------------------------
(* The call: a loop, a result and the connected operation.  If connect()   *)
(* throws, sync_wait does, and wait_result returns the exception.          *)
Connect ==
  /\ call = "none" /\ call' = "start"
  /\ UNCHANGED <<loopVars, api, work, by, sent, result>>

ConnectThrows ==
  /\ call = "none" /\ call' = "returned" /\ result' = "exception"
  /\ UNCHANGED <<loopVars, api, work, by, sent>>

(* start(op) on the waiting thread starts each piece; then run(). *)
StartPiece(t) ==
  /\ call = "start" /\ work[t] = "idle" /\ by = None
  /\ \/ Ends(t, "main") /\ UNCHANGED loopVars
     \/ work' = [work EXCEPT ![t] = "abroad"] /\ UNCHANGED <<loopVars, by>>
     \/ work' = [work EXCEPT ![t] = "loop"] /\ Push(t) /\ UNCHANGED by
  /\ UNCHANGED <<api, sent, result, call>>

EnterRun ==
  /\ call = "start" /\ \A t \in Tasks : work[t] # "idle"
  /\ by = "main" => fin = "out"
  /\ call' = "run" /\ Run(Main) /\ UNCHANGED <<api, work, by, sent, result>>

(* A piece on another thread ends there or schedules itself on the loop.   *)
Abroad(t) ==
  /\ work[t] = "abroad"
  /\ \/ Ends(t, "other") /\ UNCHANGED loopVars
     \/ work' = [work EXCEPT ![t] = "loop"] /\ Push(t) /\ UNCHANGED by
  /\ UNCHANGED <<api, sent, result, call>>

ExecutePiece ==
  /\ Execute(Main) /\ Ends(cur[Main], "main") /\ UNCHANGED <<api, sent, result, call>>

LoopStep ==
  /\ Pop(Main) \/ CountDown(Main)
  /\ by = "main" => fin = "out"
  /\ UNCHANGED waitVars

(* The receiver stores the result, then finishes the loop.  Storing may    *)
(* throw, which becomes the result; sync_wait turns every error into an    *)
(* exception, wait_result keeps it.                                        *)
HasStored == result # "none"

Stored(how, throws) ==
  IF throws \/ (how = "error" /\ api = "sync_wait") THEN "exception" ELSE how

Store ==
  /\ by # None /\ result = "none"
  /\ \E how \in {"value", "error", "stopped"}, throws \in BOOLEAN :
       /\ throws => how # "stopped"
       /\ sent' = how /\ result' = Stored(how, throws)
  /\ UNCHANGED <<loopVars, api, work, by, call>>

Finish ==
  /\ by # None
  /\ (HasStored /\ FinishBegin) \/ FinishNotify
  /\ UNCHANGED waitVars

Return ==
  /\ call = "run" /\ rpc[Main] = "done" /\ call' = "returned"
  /\ UNCHANGED <<loopVars, api, work, by, sent, result>>

-----------------------------------------------------------------------------
WaitNext ==
  \/ \E t \in Tasks : StartPiece(t) \/ Abroad(t)
  \/ Connect \/ ConnectThrows \/ EnterRun \/ ExecutePiece \/ LoopStep \/ Store \/ Finish \/ Return

WaitSpec == WaitInit /\ [][WaitNext]_vars

(* Every piece of the sender's work ends, and the threads go on. *)
WaitFairness ==
  /\ \A t \in Tasks : WF_vars(StartPiece(t)) /\ WF_vars(Abroad(t))
  /\ WF_vars(EnterRun \/ ExecutePiece \/ LoopStep \/ Return)
  /\ WF_vars(Store) /\ WF_vars(Finish)

-----------------------------------------------------------------------------
(* When run() returns the result is stored, whichever thread completed the *)
(* sender, and it is the sender's unless storing it threw; and the         *)
(* run_loop is destroyed when no thread is inside finish() any more and no *)
(* task is counted, so that ~run_loop does not terminate.                  *)
LoopIsQuiet ==
  /\ rpc[Main] = "done" => result # "none" /\ result \in {sent, "exception"}
  /\ call = "returned" => fin # "notify" /\ count = 0 /\ queue = <<>>

(* The call returns. *)
WaitReturns == []<>(call \in {"none", "returned"})
=============================================================================
