---------------------------- MODULE IocpContext ----------------------------
(***************************************************************************)
(* forge::io::context on a completion port                                 *)
(* (include/forge/io/detail/windows_iocp_context.hpp).                     *)
(*                                                                         *)
(* A record is in pending_records from before its transfer is issued until *)
(* its packet is drained, or until the call turns out to have finished     *)
(* without a packet, which depends on a mode of the file.  A step is a     *)
(* critical section with the system calls in it, an atomic exchange, a     *)
(* call of a receiver, or a step of the system.  The value, error and      *)
(* stopped channels run the same code and are not told apart.              *)
(***************************************************************************)
EXTENDS Naturals, Sequences, SequencesExt, FiniteSets

CONSTANTS Records,     \* started operations
          Handles,     \* handle values
          HandleOf,    \* the handle of each record
          Reopens      \* times a handle value is closed and given to another file

VARIABLES iocp,    \* __state, the transfers under way and the packets of the port
          file,    \* the file behind each handle
          record,  \* each record: position of start(), stop callback, completion
          worker   \* the worker: position and the record it completes

vars == <<iocp, file, record, worker>>

Closed == [valid |-> FALSE, associated |-> FALSE, skips |-> FALSE]
Opened == [Closed EXCEPT !.valid = TRUE]
Nobody == "nobody"
NoEntry == [there |-> FALSE, active |-> 0, skips |-> FALSE]

Init ==
  /\ iocp = [records |-> {}, pending |-> 0, entry |-> [h \in Handles |-> NoEntry],
             closed |-> FALSE, stopped |-> FALSE, done |-> FALSE,
             transfers |-> {}, canceled |-> {}, packets |-> <<>>, reopens |-> Reopens]
  /\ file = [h \in Handles |-> Opened]
  /\ record = [r \in Records |-> [pc |-> "idle", token |-> FALSE, stop |-> FALSE, cb |-> "none",
                                  done |-> FALSE, got |-> 0]]
  /\ worker = [pc |-> "none", cur |-> Nobody]

-----------------------------------------------------------------------------
(* __op::start(): a stopped token or an empty buffer completes at once;    *)
(* installing the callback may throw, or run it on a stopped token.  A     *)
(* token stopped before start() is not told apart from an empty buffer.    *)
StartOp(r) ==
  /\ worker.pc # "none" /\ record[r].pc = "idle"
  /\ \E pc \in {"claim", "install"} : record' = [record EXCEPT ![r].pc = pc]
  /\ UNCHANGED <<iocp, file, worker>>

install_stop_callback(r) ==
  /\ record[r].pc = "install"
  /\ \/ record' = [record EXCEPT ![r].pc = "start", ![r].stop = record[r].token,
                                 ![r].cb = IF record[r].token THEN "ran" ELSE "registered"]
     \/ record' = [record EXCEPT ![r].pc = "claim"]
  /\ UNCHANGED <<iocp, file, worker>>

prune_idle_associations(entry) ==
  [h \in Handles |-> IF entry[h].active = 0 /\ ~file[h].valid THEN NoEntry ELSE entry[h]]

(* CreateIoCompletionPort and SetFileCompletionNotificationModes: the      *)
(* pairs of the entry and the file that they can leave, none on an error.  *)
ModeIsAsked(e) == ~e.there \/ e.active = 0

Associations(h, e) ==
  IF file[h].associated
  THEN IF e.there THEN {[entry |-> e, file |-> file[h]]} ELSE {}
  ELSE LET joined == [file[h] EXCEPT !.associated = TRUE] IN
       IF ModeIsAsked(e)
       THEN {[entry |-> [e EXCEPT !.there = TRUE, !.skips = s],
              file |-> [joined EXCEPT !.skips = s]] : s \in BOOLEAN}
       ELSE {[entry |-> e, file |-> joined]}

(* __state::start under the mutex: refused, not associated, issued and     *)
(* pending, or finished by the call; in the last case a packet comes all   *)
(* the same unless the file skips it.                                      *)
Refuses(r) == iocp.closed \/ iocp.stopped \/ ~file[HandleOf[r]].valid \/ record[r].stop

Registered(r, a, entry) ==
  [iocp EXCEPT !.entry = [entry EXCEPT ![HandleOf[r]] = [a.entry EXCEPT !.active = @ + 1]],
               !.records = @ \cup {r}, !.pending = @ + 1]

start(r) ==
  /\ record[r].pc = "start" /\ UNCHANGED worker
  /\ LET h == HandleOf[r]
         entry == prune_idle_associations(iocp.entry)
         goes(pc) == record' = [record EXCEPT ![r].pc = pc]
     IN
     \/ Refuses(r) /\ goes("claim") /\ UNCHANGED <<iocp, file>>
     \/ /\ ~Refuses(r) /\ goes("claim") /\ iocp' = [iocp EXCEPT !.entry = entry] /\ UNCHANGED file
     \/ /\ ~Refuses(r)
        /\ \E a \in Associations(h, entry[h]) :
             LET on == Registered(r, a, entry)
                 off == [iocp EXCEPT !.entry = [entry EXCEPT ![h] = a.entry]]
             IN
             /\ file' = [file EXCEPT ![h] = a.file]
             /\ \/ iocp' = [on EXCEPT !.transfers = @ \cup {r}] /\ goes("accepted")
                \/ iocp' = off /\ goes("claim")
                \/ /\ a.file.skips
                   /\ iocp' = IF a.entry.skips THEN off ELSE on
                   /\ goes(IF a.entry.skips THEN "claim" ELSE "accepted")
                \/ /\ ~a.file.skips
                   /\ iocp' = [(IF a.entry.skips THEN off ELSE on) EXCEPT !.packets = Append(@, r)]
                   /\ goes(IF a.entry.skips THEN "claim" ELSE "accepted")

(* CancelIoEx on the records that are still pending.                       *)
CancelIoEx(S) == [iocp EXCEPT !.canceled = @ \cup (S \cap iocp.records \cap iocp.transfers)]

(* A stop that came before the registration found nothing to cancel.       *)
StopSeen(r) == IF record[r].stop THEN {r} ELSE {}
Accepted(r) ==
  /\ record[r].pc = "accepted" /\ iocp' = CancelIoEx(StopSeen(r))
  /\ record' = [record EXCEPT ![r].pc = "started"] /\ UNCHANGED <<file, worker>>

-----------------------------------------------------------------------------
(* The stop callback, and cancel(handle).                                  *)
RequestToken(r) ==
  /\ ~record[r].token /\ record[r].pc # "idle" /\ record[r].got = 0
  /\ record' = [record EXCEPT ![r].token = TRUE] /\ UNCHANGED <<iocp, file, worker>>

StopCallback(r) ==
  /\ record[r].token /\ record[r].cb = "registered"
  /\ record' = [record EXCEPT ![r].cb = "running", ![r].stop = TRUE] /\ UNCHANGED <<iocp, file, worker>>

cancel_record(r) ==
  /\ record[r].cb = "running" /\ iocp' = CancelIoEx({r})
  /\ record' = [record EXCEPT ![r].cb = "ran"] /\ UNCHANGED <<file, worker>>

cancel(h) ==
  /\ iocp' = CancelIoEx({r \in Records : HandleOf[r] = h}) /\ UNCHANGED <<file, record, worker>>

-----------------------------------------------------------------------------
(* complete_*: claim, then reset the callback, which waits while it runs,  *)
(* and call the receiver.                                                  *)
Wins(r) == ~record[r].done
CallbackIdle(r) == record[r].cb # "running"

Claim(r) ==
  /\ record[r].pc = "claim" /\ UNCHANGED <<iocp, file, worker>>
  /\ record' = [record EXCEPT ![r].done = TRUE, ![r].pc = IF Wins(r) THEN "call" ELSE "started"]
Call(r) ==
  /\ record[r].pc = "call" /\ CallbackIdle(r) /\ UNCHANGED <<iocp, file, worker>>
  /\ record' = [record EXCEPT ![r].pc = "started", ![r].got = @ + 1, ![r].cb = "none"]

WorkerClaim ==
  /\ worker.pc = "claim" /\ record' = [record EXCEPT ![worker.cur].done = TRUE]
  /\ worker' = [worker EXCEPT !.pc = IF Wins(worker.cur) THEN "call" ELSE "check"]
  /\ UNCHANGED <<iocp, file>>
WorkerCall ==
  /\ worker.pc = "call" /\ CallbackIdle(worker.cur) /\ worker' = [worker EXCEPT !.pc = "check"]
  /\ record' = [record EXCEPT ![worker.cur].got = @ + 1, ![worker.cur].cb = "none"]
  /\ UNCHANGED <<iocp, file>>

-----------------------------------------------------------------------------
(* run(): a packet, or none before the timeout.  complete() ignores a      *)
(* packet whose record is not pending.                                     *)
run ==
  /\ worker.pc = "none" /\ worker' = [worker EXCEPT !.pc = "wait"] /\ UNCHANGED <<iocp, file, record>>

complete ==
  /\ worker.pc = "wait" /\ iocp.packets # <<>> /\ UNCHANGED <<file, record>>
  /\ LET r == Head(iocp.packets)
         drained == [iocp EXCEPT !.packets = Tail(@)]
     IN IF r \in iocp.records
        THEN /\ worker' = [pc |-> "claim", cur |-> r]
             /\ iocp' = [drained EXCEPT !.records = @ \ {r}, !.pending = @ - 1,
                                        !.entry[HandleOf[r]].active = @ - 1]
        ELSE worker' = [worker EXCEPT !.pc = "check"] /\ iocp' = drained

TimesOut ==
  /\ worker.pc = "wait" /\ iocp.packets = <<>> /\ worker' = [worker EXCEPT !.pc = "check"]
  /\ UNCHANGED <<iocp, file, record>>

HasStopped == iocp.closed \/ iocp.stopped
should_exit ==
  /\ worker.pc = "check"
  /\ LET leaves == HasStopped /\ iocp.pending = 0 IN
     /\ worker' = [pc |-> IF leaves THEN "gone" ELSE "wait", cur |-> Nobody]
     /\ iocp' = [iocp EXCEPT !.done = leaves]
  /\ UNCHANGED <<file, record>>

close ==
  worker.pc # "none" /\ ~iocp.closed /\ iocp' = [iocp EXCEPT !.closed = TRUE] /\ UNCHANGED <<file, record, worker>>
request_stop ==
  /\ worker.pc # "none" /\ ~iocp.stopped /\ iocp' = [CancelIoEx(Records) EXCEPT !.stopped = TRUE]
  /\ UNCHANGED <<file, record, worker>>

-----------------------------------------------------------------------------
(* The system ends transfers, soon if they were cancelled; a handle is     *)
(* closed only when none of its operations is under way, since it is lent  *)
(* to them, and its value may then name another file.                      *)
TransferEnds(r) ==
  /\ r \in iocp.transfers /\ UNCHANGED <<file, record, worker>>
  /\ iocp' = [iocp EXCEPT !.transfers = @ \ {r}, !.canceled = @ \ {r}, !.packets = Append(@, r)]

InUse(h) == \E r \in Records : HandleOf[r] = h /\ record[r].pc # "idle" /\ record[r].got = 0
CloseHandle(h) ==
  /\ file[h].valid /\ ~InUse(h) /\ iocp.reopens > 0 /\ iocp' = [iocp EXCEPT !.reopens = @ - 1]
  /\ file' = [file EXCEPT ![h] = Closed] /\ UNCHANGED <<record, worker>>
OpenHandle(h) ==
  ~file[h].valid /\ file' = [file EXCEPT ![h] = Opened] /\ UNCHANGED <<iocp, record, worker>>

-----------------------------------------------------------------------------
StartStep(r) == install_stop_callback(r) \/ start(r) \/ Accepted(r) \/ Claim(r) \/ Call(r)
CallbackStep(r) == StopCallback(r) \/ cancel_record(r)
WorkerStep == complete \/ TimesOut \/ should_exit \/ WorkerClaim \/ WorkerCall

Next ==
  \/ \E r \in Records :
       StartOp(r) \/ StartStep(r) \/ RequestToken(r) \/ CallbackStep(r) \/ TransferEnds(r)
  \/ \E h \in Handles : cancel(h) \/ CloseHandle(h) \/ OpenHandle(h)
  \/ run \/ WorkerStep \/ close \/ request_stop

(* Threads run, the worker's wait ends after its timeout, and cancelled    *)
(* transfers end; others need not.                                         *)
Fairness ==
  /\ \A r \in Records : /\ WF_vars(StartStep(r)) /\ WF_vars(CallbackStep(r))
                        /\ WF_vars(r \in iocp.canceled /\ TransferEnds(r))
  /\ WF_vars(WorkerStep)

Spec == Init /\ [][Next]_vars /\ Fairness

-----------------------------------------------------------------------------
(* A record is pending exactly as long as its transfer is under way or its *)
(* packet in the port, so no packet finds its OVERLAPPED given back; and   *)
(* the counters that end the worker and keep a handle's mode are exact.    *)
PacketsAreOwned ==
  /\ iocp.records = iocp.transfers \cup ToSet(iocp.packets)
  /\ Len(iocp.packets) = Cardinality(ToSet(iocp.packets))
  /\ iocp.pending = Cardinality(iocp.records)
  /\ \A h \in Handles : iocp.entry[h].active = Cardinality({r \in iocp.records : HandleOf[r] = h})

(* A receiver is called once, with its stop callback gone.                 *)
CompletesOnce ==
  \A r \in Records : /\ record[r].got <= 1
                     /\ record[r].got = 1 => record[r].cb = "none" /\ r \notin iocp.records

(* A stopped operation completes and the worker ends after request_stop.   *)
Settles ==
  []<>(/\ iocp.stopped => iocp.done
       /\ \A r \in Records : record[r].token => record[r].got = 1)
=============================================================================
