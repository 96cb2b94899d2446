------------------------------ MODULE StopToken ------------------------------
(***************************************************************************)
(* inplace_stop_source / inplace_stop_callback                             *)
(* (backport/cpp26/execution/stop_token.hpp).                              *)
(*                                                                         *)
(* One stop source, a set of callback objects, and threads that construct  *)
(* callbacks, destroy them and request stop in any order.  A step is the   *)
(* longest piece of code that runs under one mutex: the source mutex mtx_  *)
(* is a variable because the detach loop of request_stop holds it over     *)
(* several per-callback critical sections; a control block's mutex is      *)
(* never held across steps.  A callback body is user code: while it runs   *)
(* its thread may destroy any callback, its own included.                  *)
(***************************************************************************)
EXTENDS LinkedList

CONSTANTS Callbacks,    \* the inplace_stop_callback objects
          Threads,      \* the threads that touch the source
          NoThread,     \* std::thread::id{}
          NoCallback    \* nullptr

ASSUME IdAssumption == NoThread \notin Threads /\ NoCallback \notin Callbacks

VARIABLES
  stop,             \* state_ & kStopRequested
  mtx,              \* holder of mtx_
  list,             \* callbacks_, the intrusive list, first element first
  rpc,              \* where the winning request_stop call is
  requester,        \* the thread that runs it
  raw,              \* the part of the detached list the loop has not reached
  head,             \* controls chained through next_detached, in order
  cur,              \* the control the invocation loop works on
  detached, running, cancelled, object, request_thread,  \* callback_control
  life,             \* "none", "live", "dead": lifetime of the object
  dpc,              \* progress of ~inplace_stop_callback
  dby,              \* the thread that runs it
  exec,             \* the thread inside the callback body, if any
  inline,           \* the body runs from the constructor
  calls             \* history: number of invocations of the body

reqVars     == <<rpc, requester, raw, head, cur>>
controlVars == <<detached, running, cancelled, object, request_thread>>
dtorVars    == <<dpc, dby>>
bodyVars    == <<exec, inline, calls>>
vars == <<stop, mtx, list, reqVars, controlVars, life, dtorVars, bodyVars>>

TypeOK ==
  /\ stop \in BOOLEAN
  /\ mtx \in Threads \cup {NoThread}
  /\ list \in Seq(Callbacks) /\ raw \in Seq(Callbacks) /\ head \in Seq(Callbacks)
  /\ rpc \in {"idle", "detach", "next", "body", "finish", "done"}
  /\ requester \in Threads \cup {NoThread}
  /\ cur \in Callbacks \cup {NoCallback}
  /\ detached \in [Callbacks -> BOOLEAN] /\ running \in [Callbacks -> BOOLEAN]
  /\ cancelled \in [Callbacks -> BOOLEAN] /\ object \in [Callbacks -> BOOLEAN]
  /\ request_thread \in [Callbacks -> Threads \cup {NoThread}]
  /\ life \in [Callbacks -> {"none", "live", "dead"}]
  /\ dpc \in [Callbacks -> {"none", "remove", "cancel", "wait", "done"}]
  /\ dby \in [Callbacks -> Threads \cup {NoThread}]
  /\ exec \in [Callbacks -> Threads \cup {NoThread}]
  /\ inline \in [Callbacks -> BOOLEAN]
  /\ calls \in [Callbacks -> Nat]

Init ==
  /\ stop = FALSE /\ mtx = NoThread /\ list = <<>>
  /\ rpc = "idle" /\ requester = NoThread
  /\ raw = <<>> /\ head = <<>> /\ cur = NoCallback
  /\ detached = [c \in Callbacks |-> FALSE]
  /\ running = [c \in Callbacks |-> FALSE]
  /\ cancelled = [c \in Callbacks |-> FALSE]
  /\ object = [c \in Callbacks |-> FALSE]
  /\ request_thread = [c \in Callbacks |-> NoThread]
  /\ life = [c \in Callbacks |-> "none"]
  /\ dpc = [c \in Callbacks |-> "none"]
  /\ dby = [c \in Callbacks |-> NoThread]
  /\ exec = [c \in Callbacks |-> NoThread]
  /\ inline = [c \in Callbacks |-> FALSE]
  /\ calls = [c \in Callbacks |-> 0]

-----------------------------------------------------------------------------
(* A thread runs one destructor at a time; inside request_stop it only     *)
(* reaches user code while a callback body runs.                           *)
InDtor(t)   == \E c \in Callbacks : dby[c] = t /\ dpc[c] \in {"remove", "cancel", "wait"}
InInline(t) == \E c \in Callbacks : exec[c] = t /\ inline[c]
InUserCode(t) == /\ ~InDtor(t)
                 /\ requester = t => rpc \in {"idle", "body", "done"}

(* try_add_callback accepts a callback until stop is requested. *)
RegistersLate == TRUE
Registers == ~stop

(* The constructor up to the end of try_add_callback: registration at the  *)
(* head of the list, or, once stop is requested, the inline call.          *)
Construct(t, c) ==
  /\ InUserCode(t) /\ ~InInline(t)
  /\ life[c] = "none" /\ mtx = NoThread
  /\ life' = [life EXCEPT ![c] = "live"]
  /\ object' = [object EXCEPT ![c] = TRUE]
  /\ IF ~Registers
       THEN /\ exec' = [exec EXCEPT ![c] = t]
            /\ inline' = [inline EXCEPT ![c] = TRUE]
            /\ calls' = [calls EXCEPT ![c] = @ + 1]
            /\ UNCHANGED list
       ELSE list' = <<c>> \o list /\ UNCHANGED bodyVars
  /\ UNCHANGED <<stop, mtx, reqVars, detached, running, cancelled,
                 request_thread, dtorVars>>

(* The inline body returns to the constructor. *)
InlineReturn(t, c) ==
  /\ exec[c] = t /\ inline[c] /\ ~InDtor(t)
  /\ exec' = [exec EXCEPT ![c] = NoThread]
  /\ UNCHANGED <<stop, mtx, list, reqVars, controlVars, life, dtorVars,
                 inline, calls>>

-----------------------------------------------------------------------------
(* request_stop, first critical section: win the flag and take the list.   *)
RequestStop(t) ==
  /\ InUserCode(t) /\ mtx = NoThread /\ ~stop
  /\ stop' = TRUE /\ mtx' = t
  /\ rpc' = "detach" /\ requester' = t
  /\ raw' = list /\ list' = <<>>
  /\ UNCHANGED <<head, cur, controlVars, life, dtorVars, bodyVars>>

(* One iteration of the detach loop, under mtx_ and the control's mutex.   *)
DetachOne ==
  /\ rpc = "detach" /\ raw # <<>>
  /\ LET c == Head(raw) IN
       /\ detached' = [detached EXCEPT ![c] = TRUE]
       /\ request_thread' = [request_thread EXCEPT ![c] = requester]
       /\ object' = [object EXCEPT ![c] = TRUE]
       /\ cancelled' = [cancelled EXCEPT ![c] = FALSE]
       /\ head' = Append(head, c)
       /\ raw' = Tail(raw)
  /\ UNCHANGED <<stop, mtx, list, rpc, requester, cur, running, life,
                 dtorVars, bodyVars>>

EndDetach ==
  /\ rpc = "detach" /\ raw = <<>>
  /\ mtx' = NoThread /\ rpc' = "next"
  /\ UNCHANGED <<stop, list, requester, raw, head, cur, controlVars, life,
                 dtorVars, bodyVars>>

(* The control still has its callback. *)
IgnoresCancel(c) == TRUE
Invocable(c) == ~cancelled[c] /\ object[c]

(* The next control: mark it running and call its body unless a destructor *)
(* cancelled it.                                                           *)
TakeControl ==
  /\ rpc = "next" /\ head # <<>>
  /\ LET c == Head(head) IN
       /\ cur' = c /\ head' = Tail(head)
       /\ IF Invocable(c)
            THEN /\ running' = [running EXCEPT ![c] = TRUE]
                 /\ exec' = [exec EXCEPT ![c] = requester]
                 /\ calls' = [calls EXCEPT ![c] = @ + 1]
                 /\ rpc' = "body"
            ELSE rpc' = "finish" /\ UNCHANGED <<running, exec, calls>>
  /\ UNCHANGED <<stop, mtx, list, requester, raw, detached, cancelled, object,
                 request_thread, life, dtorVars, inline>>

BodyReturn ==
  /\ rpc = "body" /\ ~InDtor(requester) /\ ~InInline(requester)
  /\ exec' = [exec EXCEPT ![cur] = NoThread]
  /\ rpc' = "finish"
  /\ UNCHANGED <<stop, mtx, list, requester, raw, head, cur, controlVars, life,
                 dtorVars, inline, calls>>

(* The control's last critical section and its notify_all. *)
FinishControl ==
  /\ rpc = "finish"
  /\ running' = [running EXCEPT ![cur] = FALSE]
  /\ cancelled' = [cancelled EXCEPT ![cur] = TRUE]
  /\ object' = [object EXCEPT ![cur] = FALSE]
  /\ cur' = NoCallback /\ rpc' = "next"
  /\ UNCHANGED <<stop, mtx, list, requester, raw, head, detached,
                 request_thread, life, dtorVars, bodyVars>>

RequestReturn ==
  /\ rpc = "next" /\ head = <<>>
  /\ rpc' = "done"
  /\ UNCHANGED <<stop, mtx, list, requester, raw, head, cur, controlVars, life,
                 dtorVars, bodyVars>>

-----------------------------------------------------------------------------
(* Where ~inplace_stop_callback goes after reading detached. *)
DtorPath(c) == IF inline[c] \/ detached[c] THEN "cancel" ELSE "remove"

(* ~inplace_stop_callback: read detached under the control's mutex.  An    *)
(* object whose constructor ran its body inline has no source.             *)
DtorBegin(t, c) ==
  /\ InUserCode(t) /\ life[c] = "live" /\ dpc[c] = "none"
  /\ exec[c] # NoThread /\ inline[c] => exec[c] = t
  /\ dpc' = [dpc EXCEPT ![c] = DtorPath(c)]
  /\ dby' = [dby EXCEPT ![c] = t]
  /\ UNCHANGED <<stop, mtx, list, reqVars, controlVars, life, bodyVars>>

(* remove_callback takes the source mutex. *)
CanRemove(c) == dpc[c] = "remove" /\ mtx = NoThread

(* remove_callback: unlink unless request_stop has detached the object. *)
DtorRemove(c) ==
  /\ CanRemove(c)
  /\ list' = Unlink(list, c)
  /\ dpc' = [dpc EXCEPT ![c] = "cancel"]
  /\ UNCHANGED <<stop, mtx, reqVars, controlVars, life, dby, bodyVars>>

(* Another thread is inside the body. *)
NeverWaits(c) == FALSE
WaitsForItself(c) == running[c]
MustWait(c) == running[c] /\ request_thread[c] # dby[c]

(* Cancel the control; return at once unless another thread runs the body. *)
DtorCancel(c) ==
  /\ dpc[c] = "cancel"
  /\ cancelled' = [cancelled EXCEPT ![c] = TRUE]
  /\ object' = [object EXCEPT ![c] = FALSE]
  /\ IF MustWait(c)
       THEN dpc' = [dpc EXCEPT ![c] = "wait"] /\ UNCHANGED life
       ELSE /\ dpc' = [dpc EXCEPT ![c] = "done"]
            /\ life' = [life EXCEPT ![c] = "dead"]
  /\ UNCHANGED <<stop, mtx, list, reqVars, detached, running, request_thread,
                 dby, bodyVars>>

DtorWait(c) ==
  /\ dpc[c] = "wait" /\ ~running[c]
  /\ dpc' = [dpc EXCEPT ![c] = "done"]
  /\ life' = [life EXCEPT ![c] = "dead"]
  /\ UNCHANGED <<stop, mtx, list, reqVars, controlVars, dby, bodyVars>>

-----------------------------------------------------------------------------
RequestStep == \/ DetachOne \/ EndDetach \/ TakeControl \/ BodyReturn
               \/ FinishControl \/ RequestReturn

DtorStep(c) == DtorRemove(c) \/ DtorCancel(c) \/ DtorWait(c)

Next == \/ \E t \in Threads : RequestStop(t)
        \/ RequestStep
        \/ \E t \in Threads, c \in Callbacks :
             Construct(t, c) \/ InlineReturn(t, c) \/ DtorBegin(t, c)
        \/ \E c \in Callbacks : DtorStep(c)

Spec == Init /\ [][Next]_vars

(* request_stop keeps running, callback bodies return, and a destructor    *)
(* that can go on does; nobody is forced to construct, destroy or stop.    *)
Fairness == /\ WF_vars(RequestStep)
            /\ \A c \in Callbacks : /\ WF_vars(DtorStep(c))
                                    /\ \A t \in Threads : WF_vars(InlineReturn(t, c))

FairSpec == Spec /\ Fairness
-----------------------------------------------------------------------------
(* Every object that request_stop or remove_callback can still reach       *)
(* through the intrusive list is alive: no list operation follows a        *)
(* pointer into a destroyed callback.                                      *)
ListedAreAlive ==
  \A c \in Elems(list) \cup Elems(raw) : life[c] = "live"

(* The destructor is a barrier: once it has returned, the only thread that *)
(* can still be inside the body is the one that ran the destructor from    *)
(* within that body (stop_token.hpp, the wait in ~inplace_stop_callback).  *)
DestructionIsBarrier ==
  \A c \in Callbacks : life[c] = "dead" /\ exec[c] # NoThread => exec[c] = dby[c]

(* No stop request is lost: when the winning request_stop has returned,    *)
(* every callback that is alive and not being destroyed has been invoked   *)
(* exactly once, whether it was registered before the request or after it. *)
NoLostCallback ==
  rpc = "done" => \A c \in Callbacks :
                    life[c] = "live" /\ dpc[c] = "none" => calls[c] = 1

(* The detach loop's "cancelled = false" never undoes a destructor: a      *)
(* control cancelled by its destructor stays cancelled.                    *)
CancelIsFinal ==
  [][\A c \in Callbacks : dpc[c] \in {"wait", "done"} => cancelled'[c]]_vars

(* The inductive strengthening behind these: the phase of request_stop,    *)
(* what the lists may hold, who may be inside a body, and how far a        *)
(* destructor can be.                                                      *)
PhaseInv ==
  /\ IF rpc = "detach" THEN mtx = requester ELSE mtx = NoThread /\ raw = <<>>
  /\ stop <=> rpc # "idle"
  /\ IF stop THEN list = <<>> /\ requester \in Threads
             ELSE head = <<>> /\ requester = NoThread
  /\ rpc = "done" => head = <<>>
  /\ cur \in Callbacks <=> rpc \in {"body", "finish"}

ListInv ==
  /\ Distinct(list) /\ Distinct(raw) /\ Distinct(head)
  /\ \A c \in Elems(list) \cup Elems(raw) :
       /\ life[c] = "live" /\ dpc[c] \in {"none", "remove"}
       /\ ~detached[c] /\ ~inline[c] /\ calls[c] = 0
  /\ \A c \in Elems(head) :
       /\ detached[c] /\ c # cur /\ calls[c] = 0
       /\ dpc[c] \in {"none", "remove", "cancel"} => Invocable(c)

BodyInv ==
  \A c \in Callbacks :
    /\ detached[c] => request_thread[c] = requester /\ stop /\ ~inline[c] /\ life[c] # "none"
    /\ running[c] => c = cur /\ detached[c]
    /\ c = cur => detached[c]
    /\ rpc = "body" /\ c = cur => running[c]
    /\ exec[c] # NoThread /\ ~inline[c] => rpc = "body" /\ c = cur /\ exec[c] = requester

DtorInv ==
  \A c \in Callbacks :
    /\ life[c] = "dead" <=> dpc[c] = "done"
    /\ life[c] = "none" => dpc[c] = "none" /\ exec[c] = NoThread /\ calls[c] = 0 /\ ~inline[c]
    /\ dpc[c] \in {"wait", "done"} => cancelled[c]
    /\ inline[c] /\ exec[c] # NoThread /\ dpc[c] # "none" => dby[c] = exec[c]
    /\ life[c] = "live" /\ dpc[c] = "none" =>
         c \in Elems(list) \cup Elems(raw) \cup Elems(head) \/ calls[c] = 1

IndInv == /\ TypeOK /\ PhaseInv /\ ListInv /\ BodyInv /\ DtorInv
          /\ DestructionIsBarrier

(* StopToken implements the contract the rest of the library relies on. *)
Contract == INSTANCE StopCallback WITH
  requested <- stop,
  state     <- [c \in Callbacks |-> CASE life[c] = "none" -> "absent"
                                     [] life[c] = "live" -> "alive"
                                     [] OTHER -> "destroyed"],
  runner    <- exec,
  ran       <- [c \in Callbacks |-> calls[c] > 0]

ImplementsContract == Contract!Spec

(* A destructor that has started returns, and a stop request reaches every *)
(* callback that was registered before it and that nobody destroys: no     *)
(* cycle between the source mutex, the control mutexes and the wait for a  *)
(* running body, even when bodies destroy their own or other callbacks.    *)
NobodyHangs ==
  []<>(\A c \in Callbacks : /\ dpc[c] \in {"none", "done"}
                            /\ stop /\ life[c] = "live" => calls[c] = 1)
=============================================================================
