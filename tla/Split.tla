------------------------------- MODULE Split -------------------------------
(***************************************************************************)
(* std::execution::split (backport/cpp26/execution/split.hpp): one source  *)
(* operation, started by the first subscriber, whose result is delivered   *)
(* to every subscriber.                                                    *)
(*                                                                         *)
(* Subscribers start and are destroyed on threads of their own while the   *)
(* source completes on another.  The shared state has no owner of its own: *)
(* it lives while a sender, a subscriber or a registered callback holds it.*)
(***************************************************************************)
EXTENDS Sequences, SequencesExt

CONSTANTS Subs   \* subscriber operations

VARIABLES phase, result, onDone,   \* __shared_state
          source, batch,           \* the source operation; callbacks it is calling
          sender,                  \* is a split sender left?
          pc,                      \* each subscriber's operation
          active, got              \* its __subscriber: the flag, what it received

vars == <<phase, result, onDone, source, batch, sender, pc, active, got>>
shared == <<phase, result, onDone, source, batch>>

Init ==
  /\ phase = "idle" /\ result = "none" /\ onDone = <<>> /\ source = "idle" /\ batch = <<>>
  /\ sender = TRUE /\ pc = [s \in Subs |-> "none"]
  /\ active = [s \in Subs |-> TRUE] /\ got = [s \in Subs |-> <<>>]

Goto(s, p) == pc' = [pc EXCEPT ![s] = p]

(* Who holds the shared state: registered callbacks, a callback that is    *)
(* being called, the completing receiver, operations and senders.          *)
CallbackOwns(cbs) == cbs # <<>>

Alive ==
  \/ sender \/ CallbackOwns(onDone) \/ source \in {"notify", "call", "signal"}
  \/ \E s \in Subs : pc[s] \notin {"none", "destroyed"}

-----------------------------------------------------------------------------
Connect(s) ==
  /\ sender /\ pc[s] = "none" /\ Goto(s, "idle") /\ sender' \in BOOLEAN
  /\ UNCHANGED <<shared, active, got>>

(* start() under the mutex.  The first subscriber registers, then starts   *)
(* the source; if it cannot register it completes the state with an error. *)
IgnoresDone == FALSE
IsDone == phase = "done"

LateStart(s) ==
  /\ pc[s] = "idle" /\ IsDone /\ Goto(s, "claim")
  /\ UNCHANGED <<shared, sender, active, got>>

Registers(s) == Append(onDone, s)

FirstStart(s) ==
  /\ pc[s] = "idle" /\ phase = "idle"
  /\ \/ phase' = "running" /\ onDone' = Registers(s) /\ Goto(s, "begin") /\ UNCHANGED result
     \/ phase' = "done" /\ result' = "error" /\ Goto(s, "claim") /\ UNCHANGED onDone
  /\ UNCHANGED <<source, batch, sender, active, got>>

OtherStart(s) ==
  /\ pc[s] = "idle" /\ phase # "idle" /\ ~IsDone
  /\ \/ onDone' = Registers(s) /\ Goto(s, "started")
     \/ Goto(s, "fail") /\ UNCHANGED onDone
  /\ UNCHANGED <<phase, result, source, batch, sender, active, got>>

(* The callback object itself cannot be allocated. *)
StartFails(s) ==
  /\ pc[s] = "idle" /\ Goto(s, "fail")
  /\ UNCHANGED <<shared, sender, active, got>>

StartSource(s) ==
  /\ pc[s] = "begin" /\ Goto(s, "started") /\ source' = "running"
  /\ UNCHANGED <<phase, result, onDone, batch, sender, active, got>>

(* deliver_to_subscriber and deliver_exception_to_subscriber from start(). *)
Claims(s) == active[s]

ClaimOwn(s) ==
  /\ pc[s] \in {"claim", "fail"} /\ active' = [active EXCEPT ![s] = FALSE]
  /\ Goto(s, IF ~Claims(s) THEN "started" ELSE IF pc[s] = "fail" THEN "throw" ELSE "signal")
  /\ UNCHANGED <<shared, sender, got>>

Receive(s, r) == got' = [got EXCEPT ![s] = Append(@, r)]

DeliverOwn(s) ==
  /\ pc[s] \in {"signal", "throw"} /\ Goto(s, "started")
  /\ Receive(s, IF pc[s] = "throw" THEN "own error" ELSE result)
  /\ UNCHANGED <<shared, sender, active>>

(* ~__op, of an operation that is not inside start(). *)
Destroy(s) ==
  /\ pc[s] \in {"idle", "started"} /\ Goto(s, "destroyed")
  /\ active' = [active EXCEPT ![s] = FALSE]
  /\ UNCHANGED <<shared, sender, got>>

DropSender ==
  /\ sender /\ sender' = FALSE
  /\ UNCHANGED <<shared, pc, active, got>>

-----------------------------------------------------------------------------
(* The source completes: store, mark done; then notify_all takes the list  *)
(* and calls the callbacks outside the mutex.                              *)
SourceCompletes(r) ==
  /\ source = "running"
  /\ IF Alive THEN phase' = "done" /\ result' = r /\ source' = "notify"
              ELSE source' = "lost" /\ UNCHANGED <<phase, result>>
  /\ UNCHANGED <<onDone, batch, sender, pc, active, got>>

TakeCallbacks ==
  /\ source = "notify" /\ source' = "call" /\ batch' = onDone /\ onDone' = <<>>
  /\ UNCHANGED <<phase, result, sender, pc, active, got>>

(* One callback: a destroyed subscriber is skipped, another is claimed.    *)
CallNext ==
  /\ source = "call" /\ batch # <<>>
  /\ LET s == Head(batch) IN
       IF pc[s] # "destroyed" /\ Claims(s)
         THEN source' = "signal" /\ active' = [active EXCEPT ![s] = FALSE] /\ UNCHANGED batch
         ELSE batch' = Tail(batch) /\ UNCHANGED <<source, active>>
  /\ UNCHANGED <<phase, result, onDone, sender, pc, got>>

DeliverNext ==
  /\ source = "signal" /\ source' = "call" /\ batch' = Tail(batch)
  /\ Receive(Head(batch), result)
  /\ UNCHANGED <<phase, result, onDone, sender, pc, active>>

SourceReturns ==
  /\ source = "call" /\ batch = <<>> /\ source' = "done"
  /\ UNCHANGED <<phase, result, onDone, batch, sender, pc, active, got>>

-----------------------------------------------------------------------------
StartStep(s) == LateStart(s) \/ FirstStart(s) \/ OtherStart(s) \/ StartFails(s)
OwnStep(s) == StartSource(s) \/ ClaimOwn(s) \/ DeliverOwn(s)
Notify == TakeCallbacks \/ CallNext \/ DeliverNext \/ SourceReturns

Next ==
  \/ \E s \in Subs : Connect(s) \/ StartStep(s) \/ OwnStep(s) \/ Destroy(s)
  \/ \E r \in {"value", "error", "stopped"} : SourceCompletes(r)
  \/ DropSender \/ Notify

Spec == Init /\ [][Next]_vars

(* A started source completes, and threads inside split go on. *)
Fairness ==
  /\ WF_vars(SourceCompletes("value")) /\ WF_vars(Notify)
  /\ \A s \in Subs : WF_vars(OwnStep(s))

-----------------------------------------------------------------------------
(* A subscriber that waits is in the list or in the batch being called;    *)
(* every completion is the one stored result (never the empty one, on      *)
(* which deliver_result terminates), but for a subscriber that could not   *)
(* register; and the state outlives the source operation inside it.        *)
NobodyForgotten ==
  /\ \A s \in Subs :
       /\ pc[s] \in {"started", "begin"} /\ active[s] => Contains(onDone \o batch, s)
       /\ \/ got[s] = <<>> \/ got[s] = <<"own error">>
          \/ phase = "done" /\ result # "none" /\ got[s] = <<result>>
  /\ source \in {"running", "notify", "call", "signal"} => Alive

(* Every subscriber that was started hears, unless it is destroyed. *)
EveryoneHears == []<>(\A s \in Subs : pc[s] \in {"begin", "started"} => got[s] # <<>>)
=============================================================================
