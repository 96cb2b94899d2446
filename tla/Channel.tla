------------------------------- MODULE Channel -------------------------------
(***************************************************************************)
(* forge::bounded_channel (include/forge/channel.hpp).                     *)
(*                                                                         *)
(* Every async_send / async_recv operation o has a thread S(o) that starts *)
(* it and, when its receiver's token can stop, a thread C(o) that requests *)
(* stop on that token and runs the stop callback; the control threads call *)
(* close, request_stop, shutdown, try_send and try_recv.  A step is one    *)
(* critical section of the channel mutex or one completion step outside    *)
(* it; mtx is held across steps only between push_back and the second look *)
(* at the stop flag.  todo[a] is the list of completions thread a still    *)
(* has to deliver.                                                         *)
(***************************************************************************)
EXTENDS LinkedList, FiniteSets

CONSTANTS Sends, Recvs,   \* operations; a send carries itself as its value
          Cancellable,    \* the operations whose token can stop
          Ctl,            \* control threads
          TryValues,      \* values offered by try_send
          Capacity,       \* bounded_channel_options::capacity
          MaxCalls,       \* bound on the calls of a control thread
          AllocFails,     \* whether an allocation may throw
          None

ASSUME ChannelAssumption ==
  /\ Capacity \in Nat /\ MaxCalls \in Nat /\ AllocFails \in BOOLEAN
  /\ Sends \cap Recvs = {} /\ TryValues \cap Sends = {}
  /\ Cancellable \subseteq Sends \cup Recvs
  /\ None \notin Sends \cup TryValues

Ops    == Sends \cup Recvs
Values == Sends \cup TryValues
S(o)   == <<"start", o>>
C(o)   == <<"stop", o>>
Agents == {S(o) : o \in Ops} \cup {C(o) : o \in Ops} \cup {<<"ctl", k>> : k \in Ctl}

VARIABLES
  closed, stopped, buffer, pending_sends, pending_recvs, mtx,   \* __state
  flag, done, cb,     \* record: stop_requested_flag, done, stop_callback
  value,              \* value prepared in a receive record
  held,               \* values not moved out of their sender yet
  token,              \* stop requested on the operation's token
  pc,                 \* progress of start()
  cpc,                \* progress of the stop callback's body
  todo, claimed,      \* completions to deliver; the first one owns done
  calls, stopNext,    \* control threads: calls made, inside shutdown()
  outcome,            \* what the receiver was completed with
  received, lost      \* history: values received; values lost or discarded

stateVars  == <<closed, stopped, buffer, pending_sends, pending_recvs>>
recordVars == <<flag, done, cb, value, held>>
threadVars == <<token, pc, cpc, calls, stopNext>>
histVars   == <<received, lost>>
vars == <<stateVars, mtx, recordVars, threadVars, todo, claimed, outcome, histVars>>

Init ==
  /\ closed = FALSE /\ stopped = FALSE /\ buffer = <<>>
  /\ pending_sends = <<>> /\ pending_recvs = <<>> /\ mtx = None
  /\ flag = [o \in Ops |-> FALSE] /\ done = [o \in Ops |-> FALSE]
  /\ cb = [o \in Ops |-> "none"]
  /\ value = [r \in Recvs |-> None] /\ held = Values
  /\ token = [o \in Ops |-> FALSE]
  /\ pc = [o \in Ops |-> "idle"] /\ cpc = [o \in Ops |-> "idle"]
  /\ todo = [a \in Agents |-> <<>>] /\ claimed = [a \in Agents |-> FALSE]
  /\ calls = [k \in Ctl |-> 0] /\ stopNext = [k \in Ctl |-> FALSE]
  /\ outcome = [o \in Ops |-> "none"]
  /\ received = <<>> /\ lost = {}

-----------------------------------------------------------------------------
Job(o, k) == [op |-> o, kind |-> k]
Jobs(s, k) == [i \in 1..Len(s) |-> Job(s[i], k)]

(* The calling thread leaves the critical section with completions to run. *)
Deliver(a, jobs) == todo' = [todo EXCEPT ![a] = jobs]

(* actions.run(): done.exchange, then stop_callback.reset(), which waits   *)
(* for the callback body unless this thread is inside it, then the         *)
(* receiver's completion.                                                  *)
Claim(a) ==
  /\ todo[a] # <<>> /\ ~claimed[a]
  /\ LET o == Head(todo[a]).op IN
       IF done[o]
         THEN todo' = [todo EXCEPT ![a] = Tail(@)] /\ UNCHANGED <<done, claimed>>
         ELSE /\ done' = [done EXCEPT ![o] = TRUE]
              /\ claimed' = [claimed EXCEPT ![a] = TRUE]
              /\ UNCHANGED todo
  /\ UNCHANGED <<stateVars, mtx, flag, cb, value, held, threadVars, outcome, histVars>>

Finish(a) ==
  /\ claimed[a]
  /\ LET o == Head(todo[a]).op IN
       /\ cb[o] = "running" => a = C(o)
       /\ cb' = [cb EXCEPT ![o] = "gone"]
       /\ outcome' = [outcome EXCEPT ![o] = Head(todo[a]).kind]
  /\ todo' = [todo EXCEPT ![a] = Tail(@)]
  /\ claimed' = [claimed EXCEPT ![a] = FALSE]
  /\ UNCHANGED <<stateVars, mtx, flag, done, value, held, threadVars, histVars>>

-----------------------------------------------------------------------------
(* __send_op::start / __recv_op::start: a token that is already stopped    *)
(* completes the operation at once.                                        *)
Start(o) ==
  /\ pc[o] = "idle"
  /\ IF token[o]
       THEN pc' = [pc EXCEPT ![o] = "out"] /\ Deliver(S(o), <<Job(o, "stopped")>>)
       ELSE pc' = [pc EXCEPT ![o] = "install"] /\ UNCHANGED todo
  /\ UNCHANGED <<stateVars, mtx, recordVars, token, cpc, calls, stopNext,
                 claimed, outcome, histVars>>

(* install_stop_callback: a token stopped since then runs the callback     *)
(* inline, which sets the flag and finds the record in no queue; a failed  *)
(* allocation completes the operation as stopped.                          *)
Install(o) ==
  /\ pc[o] = "install"
  /\ \/ /\ o \in Cancellable
        /\ pc' = [pc EXCEPT ![o] = "enter"]
        /\ flag' = [flag EXCEPT ![o] = token[o]]
        /\ cb' = [cb EXCEPT ![o] = IF token[o] THEN "spent" ELSE "registered"]
        /\ UNCHANGED todo
     \/ /\ o \notin Cancellable
        /\ pc' = [pc EXCEPT ![o] = "enter"] /\ UNCHANGED <<flag, cb, todo>>
     \/ /\ AllocFails /\ o \in Cancellable
        /\ pc' = [pc EXCEPT ![o] = "out"]
        /\ Deliver(S(o), <<Job(o, "stopped")>>)
        /\ UNCHANGED <<flag, cb>>
  /\ UNCHANGED <<stateVars, mtx, done, value, held, token, cpc, calls,
                 stopNext, claimed, outcome, histVars>>

(* The tests of start_send and start_recv, under the mutex: the channel or *)
(* the operation has been stopped; a receiver waits; the buffer has room   *)
(* that no earlier sender is waiting for.                                  *)
Refused(o) == stopped \/ closed \/ flag[o]

Handoff == pending_recvs # <<>>

HasRoom == pending_sends = <<>> /\ Len(buffer) < Capacity

PushBack(q, o) == Append(q, o)

(* Hand value v to the record r, in order of reception. *)
Prepare(r, v) == /\ value' = [value EXCEPT ![r] = v]
                 /\ received' = Append(received, v)

(* start_send *)
EnterSend(s) ==
  /\ s \in Sends /\ pc[s] = "enter" /\ mtx = None
  /\ \/ /\ Refused(s)
        /\ pc' = [pc EXCEPT ![s] = "out"]
        /\ Deliver(S(s), <<Job(s, "stopped")>>)
        /\ UNCHANGED <<stateVars, mtx, value, held, histVars>>
     \/ /\ ~Refused(s) /\ Handoff
        /\ Prepare(Head(pending_recvs), s) /\ held' = held \ {s}
        /\ pending_recvs' = Tail(pending_recvs)
        /\ pc' = [pc EXCEPT ![s] = "out"]
        /\ Deliver(S(s), <<Job(Head(pending_recvs), "value"), Job(s, "value")>>)
        /\ UNCHANGED <<closed, stopped, buffer, pending_sends, mtx, lost>>
     \/ /\ ~Refused(s) /\ ~Handoff /\ HasRoom
        /\ held' = held \ {s}
        /\ pc' = [pc EXCEPT ![s] = "out"]
        /\ \/ /\ buffer' = Append(buffer, s)
              /\ Deliver(S(s), <<Job(s, "value")>>) /\ UNCHANGED lost
           \/ /\ AllocFails /\ lost' = lost \cup {s}
              /\ Deliver(S(s), <<Job(s, "error")>>) /\ UNCHANGED buffer
        /\ UNCHANGED <<closed, stopped, pending_sends, pending_recvs, mtx, value, received>>
     \/ /\ ~Refused(s) /\ ~Handoff /\ ~HasRoom
        /\ pending_sends' = PushBack(pending_sends, s)
        /\ mtx' = S(s) /\ pc' = [pc EXCEPT ![s] = "recheck"]
        /\ UNCHANGED <<closed, stopped, buffer, pending_recvs, value, held, histVars, todo>>
  /\ UNCHANGED <<flag, done, cb, token, cpc, calls, stopNext, claimed, outcome>>

PromotionDue(rest) == pending_sends # <<>> /\ Len(rest) < Capacity

LosesValue(rest, s) == rest
Promoted(rest, s) == Append(rest, s)

(* promote_one_send_locked after a value left the buffer: rest is what is  *)
(* left in it.  The completion of the promoted sender is added to jobs.    *)
Promote(a, rest, jobs) ==
  IF ~PromotionDue(rest)
    THEN buffer' = rest /\ Deliver(a, jobs) /\ UNCHANGED <<pending_sends, held, lost>>
    ELSE LET s == Head(pending_sends) IN
         /\ pending_sends' = Tail(pending_sends) /\ held' = held \ {s}
         /\ \/ /\ buffer' = Promoted(rest, s)
               /\ Deliver(a, Append(jobs, Job(s, "value"))) /\ UNCHANGED lost
            \/ /\ AllocFails /\ buffer' = rest /\ lost' = lost \cup {s}
               /\ Deliver(a, Append(jobs, Job(s, "error")))

(* start_recv *)
EnterRecv(r) ==
  /\ r \in Recvs /\ pc[r] = "enter" /\ mtx = None
  /\ \/ /\ buffer # <<>>
        /\ Prepare(r, Head(buffer))
        /\ Promote(S(r), Tail(buffer), <<Job(r, "value")>>)
        /\ pc' = [pc EXCEPT ![r] = "out"]
        /\ UNCHANGED <<pending_recvs, mtx>>
     \/ /\ buffer = <<>> /\ pending_sends # <<>>
        /\ LET s == Head(pending_sends) IN
             /\ Prepare(r, s) /\ held' = held \ {s}
             /\ Deliver(S(r), <<Job(r, "value"), Job(s, "value")>>)
        /\ pending_sends' = Tail(pending_sends)
        /\ pc' = [pc EXCEPT ![r] = "out"]
        /\ UNCHANGED <<buffer, pending_recvs, mtx, lost>>
     \/ /\ buffer = <<>> /\ pending_sends = <<>> /\ Refused(r)
        /\ Deliver(S(r), <<Job(r, "stopped")>>)
        /\ pc' = [pc EXCEPT ![r] = "out"]
        /\ UNCHANGED <<buffer, pending_sends, pending_recvs, mtx, value, held, histVars>>
     \/ /\ buffer = <<>> /\ pending_sends = <<>> /\ ~Refused(r)
        /\ pending_recvs' = PushBack(pending_recvs, r)
        /\ mtx' = S(r) /\ pc' = [pc EXCEPT ![r] = "recheck"]
        /\ UNCHANGED <<buffer, pending_sends, value, held, histVars, todo>>
  /\ UNCHANGED <<closed, stopped, flag, done, cb, token, cpc, calls, stopNext,
                 claimed, outcome>>

(* __record_queue::remove in the second look at the stop flag. *)
AfterRecheck(q, o) == IF flag[o] THEN Unlink(q, o) ELSE q

(* The second look at the stop flag, still under the mutex. *)
Recheck(o) ==
  /\ pc[o] = "recheck"
  /\ mtx' = None /\ pc' = [pc EXCEPT ![o] = "out"]
  /\ IF flag[o]
       THEN Deliver(S(o), <<Job(o, "stopped")>>)
       ELSE UNCHANGED todo
  /\ pending_sends' = AfterRecheck(pending_sends, o)
  /\ pending_recvs' = AfterRecheck(pending_recvs, o)
  /\ UNCHANGED <<closed, stopped, buffer, recordVars, token, cpc, calls,
                 stopNext, claimed, outcome, histVars>>
-----------------------------------------------------------------------------
(* The thread C(o): request stop on the token; the contract of             *)
(* StopCallback then runs a registered callback that nobody destroyed.     *)
RequestToken(o) ==
  /\ o \in Cancellable /\ ~token[o]
  /\ token' = [token EXCEPT ![o] = TRUE]
  /\ UNCHANGED <<stateVars, mtx, recordVars, pc, cpc, calls, stopNext, todo,
                 claimed, outcome, histVars>>

(* The callback body: set the flag, then cancel_send / cancel_recv. *)
CallbackFlag(o) ==
  /\ token[o] /\ cb[o] = "registered"
  /\ cb' = [cb EXCEPT ![o] = "running"]
  /\ flag' = [flag EXCEPT ![o] = TRUE]
  /\ cpc' = [cpc EXCEPT ![o] = "cancel"]
  /\ UNCHANGED <<stateVars, mtx, done, value, held, token, pc, calls, stopNext,
                 todo, claimed, outcome, histVars>>

(* cancel_send / cancel_recv: the record was still queued. *)
MissesSends(o) == o \in Elems(pending_recvs)
Queued(o) == o \in Elems(pending_sends) \cup Elems(pending_recvs)

CallbackCancel(o) ==
  /\ cpc[o] = "cancel" /\ mtx = None
  /\ cpc' = [cpc EXCEPT ![o] = "return"]
  /\ pending_sends' = Unlink(pending_sends, o)
  /\ pending_recvs' = Unlink(pending_recvs, o)
  /\ IF Queued(o)
       THEN Deliver(C(o), <<Job(o, "stopped")>>)
       ELSE UNCHANGED todo
  /\ UNCHANGED <<closed, stopped, buffer, mtx, recordVars, token, pc, calls,
                 stopNext, claimed, outcome, histVars>>

CallbackReturn(o) ==
  /\ cpc[o] = "return" /\ todo[C(o)] = <<>>
  /\ cpc' = [cpc EXCEPT ![o] = "out"]
  /\ cb' = [cb EXCEPT ![o] = IF @ = "running" THEN "spent" ELSE @]
  /\ UNCHANGED <<stateVars, mtx, flag, done, value, held, token, pc, calls,
                 stopNext, todo, claimed, outcome, histVars>>

-----------------------------------------------------------------------------
K(k) == <<"ctl", k>>
CanCall(k) == /\ todo[K(k)] = <<>> /\ mtx = None /\ ~stopNext[k]
              /\ calls[k] < MaxCalls
Count(k) == calls' = [calls EXCEPT ![k] = @ + 1]

(* What close() completes: waiting receivers, with their value if they     *)
(* have one, then waiting senders.                                         *)
CloseKind(r) == IF value[r] # None THEN "value" ELSE "stopped"

RecvJobs == [i \in 1..Len(pending_recvs) |->
               Job(pending_recvs[i], CloseKind(pending_recvs[i]))]

CloseJobs == RecvJobs \o Jobs(pending_sends, "stopped")

(* close(), alone or as the first half of shutdown().                      *)
Close(k, shutdown) ==
  /\ CanCall(k) /\ Count(k)
  /\ closed' = TRUE
  /\ pending_sends' = <<>> /\ pending_recvs' = <<>>
  /\ Deliver(K(k), CloseJobs)
  /\ stopNext' = [stopNext EXCEPT ![k] = shutdown]
  /\ UNCHANGED <<stopped, buffer, mtx, recordVars, token, pc, cpc, claimed,
                 outcome, histVars>>

(* request_stop(), alone or as the second half of shutdown(). *)
RequestStop(k) ==
  /\ \/ CanCall(k) /\ Count(k)
     \/ stopNext[k] /\ todo[K(k)] = <<>> /\ mtx = None /\ UNCHANGED calls
  /\ stopped' = TRUE /\ stopNext' = [stopNext EXCEPT ![k] = FALSE]
  /\ pending_sends' = <<>> /\ pending_recvs' = <<>>
  /\ buffer' = <<>> /\ lost' = lost \cup Elems(buffer)
  /\ Deliver(K(k), Jobs(pending_recvs, "stopped") \o Jobs(pending_sends, "stopped"))
  /\ UNCHANGED <<closed, mtx, recordVars, token, pc, cpc, claimed, outcome, received>>

(* An accepted try_send; a rejected one, and one whose buffer node cannot  *)
(* be allocated, leave the value with the caller and change nothing.       *)
TrySend(k, v) ==
  /\ CanCall(k) /\ v \in TryValues \cap held /\ ~(stopped \/ closed)
  /\ \/ /\ Handoff
        /\ Prepare(Head(pending_recvs), v)
        /\ pending_recvs' = Tail(pending_recvs)
        /\ Deliver(K(k), <<Job(Head(pending_recvs), "value")>>)
        /\ UNCHANGED buffer
     \/ /\ ~Handoff /\ HasRoom
        /\ buffer' = Append(buffer, v)
        /\ UNCHANGED <<pending_recvs, value, received, todo>>
  /\ held' = held \ {v} /\ Count(k)
  /\ UNCHANGED <<closed, stopped, pending_sends, mtx, flag, done, cb, token, pc,
                 cpc, stopNext, claimed, outcome, lost>>

(* A try_recv that finds a value. *)
TryRecv(k) ==
  /\ CanCall(k) /\ Count(k)
  /\ \/ /\ buffer # <<>>
        /\ received' = Append(received, Head(buffer))
        /\ Promote(K(k), Tail(buffer), <<>>)
     \/ /\ buffer = <<>> /\ pending_sends # <<>>
        /\ LET s == Head(pending_sends) IN
             /\ received' = Append(received, s) /\ held' = held \ {s}
             /\ Deliver(K(k), <<Job(s, "value")>>)
        /\ pending_sends' = Tail(pending_sends)
        /\ UNCHANGED <<buffer, lost>>
  /\ UNCHANGED <<closed, stopped, pending_recvs, mtx, flag, done, cb, value,
                 token, pc, cpc, stopNext, claimed, outcome>>

-----------------------------------------------------------------------------
StartStep(o)    == Install(o) \/ EnterSend(o) \/ EnterRecv(o) \/ Recheck(o)
CallbackStep(o) == CallbackFlag(o) \/ CallbackCancel(o) \/ CallbackReturn(o)
RunStep(a)      == Claim(a) \/ Finish(a)

Next == \/ \E o \in Ops : \/ Start(o) \/ StartStep(o) \/ RequestToken(o)
                         \/ CallbackStep(o)
        \/ \E a \in Agents : RunStep(a)
        \/ \E k \in Ctl : \/ \E b \in BOOLEAN : Close(k, b)
                         \/ RequestStop(k) \/ TryRecv(k)
                         \/ \E v \in TryValues : TrySend(k, v)

Spec == Init /\ [][Next]_vars

(* A started operation, a running callback and a list of completions are   *)
(* run to their end by their threads, and shutdown() reaches its second    *)
(* half; nobody is forced to start, cancel, close or receive.              *)
Fairness ==
  /\ \A o \in Ops : WF_vars(StartStep(o)) /\ WF_vars(CallbackStep(o))
  /\ \A a \in Agents : WF_vars(RunStep(a))
  /\ \A k \in Ctl : WF_vars(stopNext[k] /\ RequestStop(k))

FairSpec == Spec /\ Fairness

-----------------------------------------------------------------------------
Owners(o) == {a \in Agents : o \in {todo[a][i].op : i \in 1..Len(todo[a])}}

(* Every started operation has exactly one party responsible for it: the   *)
(* queue it waits in, one thread about to complete it, or a completion     *)
(* already delivered.  So no operation is completed twice or forgotten,    *)
(* whichever of a peer, a stop callback, close() and request_stop() races. *)
(* "Buffered values and pending receivers cannot coexist" (channel.hpp,    *)
(* close()), nor can waiting senders and waiting receivers.                *)
OneOwner ==
  /\ \A o \in Ops :
       Cardinality(Owners(o)) + (IF Queued(o) THEN 1 ELSE 0)
         + (IF outcome[o] # "none" THEN 1 ELSE 0)
       = IF pc[o] \in {"recheck", "out"} THEN 1 ELSE 0
  /\ pending_recvs # <<>> => buffer = <<>> /\ pending_sends = <<>>

Occurrences(v, s) == Cardinality({i \in 1..Len(s) : s[i] = v})

(* No value is duplicated or vanishes: it is still with its sender, in the *)
(* buffer, received, or dropped by request_stop() or a failed allocation;  *)
(* and outcomes tell the truth about it: a send completed with stopped     *)
(* kept its value, one completed with value gave it away, and a receive    *)
(* that was given a value is never completed with stopped.                 *)
ValuesConserved ==
  /\ \A v \in Values :
       (IF v \in held THEN 1 ELSE 0) + (IF v \in lost THEN 1 ELSE 0)
         + Occurrences(v, buffer) + Occurrences(v, received) = 1
  /\ \A s \in Sends : /\ outcome[s] = "stopped" => s \in held
                      /\ outcome[s] \in {"value", "error"} => s \notin held
  /\ \A r \in Recvs : outcome[r] # "none" => (outcome[r] = "value" <=> value[r] # None)

(* A record is owned by one of queue, peer, stop callback and close(), and *)
(* a value is at any time in exactly one place: with its sender, buffered, *)
(* or received, also when the buffer's allocation fails.                   *)
OwnersExact == OneOwner /\ ValuesConserved

(* Values are received in the order in which they entered the channel. *)
Fifo == INSTANCE ChannelFifo WITH
  q <- buffer \o pending_sends, got <- received, open <- ~(closed \/ stopped)


(* A started operation whose token is stopped completes, and so does every *)
(* started operation once the channel is closed or stopped; in particular  *)
(* the wait of stop_callback.reset() for a running callback never forms a  *)
(* cycle with the channel mutex.                                           *)
StopCompletes ==
  []<>(\A o \in Ops : (token[o] \/ closed \/ stopped) /\ pc[o] # "idle" => outcome[o] # "none")
=============================================================================
