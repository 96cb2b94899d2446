--------------------------- MODULE RuntimeContext ---------------------------
(***************************************************************************)
(* forge::runtime_context and forge::resource_context (runtime_context.hpp *)
(* and resource_context.hpp in include/forge): a pool and a timer context, *)
(* and the two with an async_scope, under one shutdown() and one wait().   *)
(*                                                                         *)
(* The parts appear with what their own modules show of them: a pool or a  *)
(* timer context counts an operation from its start until the thread that  *)
(* completed it is out of it, and wait() returns at a moment at which it   *)
(* counts none; the scope counts a spawned chain until it has completed.   *)
(* A chain is work that hops from the pool to a timer and back; what a     *)
(* chain does after a hop it does inside the completion of that hop.       *)
(***************************************************************************)
EXTENDS Naturals, Sequences, FiniteSets

CONSTANTS Chains,   \* pieces of work
          Scoped,   \* the ones given to spawn(); the others are just started
          Routes,   \* the hops a chain may make: sequences of "pool", "timers"
          Callers,  \* threads that call a member function
          MayCall   \* the member functions each of them may choose

VARIABLES rt,      \* what is shut, closed and stopped; life of the context
          chain,   \* state of each chain, and its hops still to come
          hops,    \* the operations counted by the pool and by the timers
          caller   \* what each thread still has to do in its call

rtvars == <<rt, chain, hops, caller>>

Init ==
  /\ rt = [shut |-> {}, closed |-> FALSE, stopped |-> FALSE, life |-> "alive"]
  /\ chain = [c \in Chains |-> [state |-> "idle", left |-> <<>>]]
  /\ hops = {}
  /\ caller = [x \in Callers |-> [call |-> "none", todo |-> <<>>, since |-> {}]]

Active == {c \in Scoped : chain[c].state \in {"acquired", "going"}}
Counted(place) == {h \in hops : h.place = place}
Stopped(c) == c \in Scoped /\ rt.stopped

-----------------------------------------------------------------------------
(* A chain goes on from a completion: it starts its next hop, or it ends,  *)
(* because there is none or because the hop is refused: the place is shut, *)
(* the token is stopped, the queue full or memory short.                   *)
Over(c) == chain' = [chain EXCEPT ![c] = [state |-> "over", left |-> <<>>]]

GoOn(c, left, others) ==
  \/ /\ left # <<>> /\ Head(left) \notin rt.shut /\ ~Stopped(c)
     /\ chain' = [chain EXCEPT ![c] = [state |-> "going", left |-> Tail(left)]]
     /\ hops' = others \cup {[chain |-> c, place |-> Head(left), n |-> Len(left), phase |-> "pending"]}
  \/ Over(c) /\ hops' = others

(* spawn() enters the scope before it starts the work; other work is only  *)
(* started.  Nobody does either while the context is destroyed.            *)
spawn(c) ==
  /\ c \in Scoped /\ chain[c].state = "idle" /\ rt.life = "alive"
  /\ chain' = [chain EXCEPT ![c].state = IF rt.closed THEN "over" ELSE "acquired"]
  /\ UNCHANGED <<rt, hops, caller>>

Begin(c) ==
  /\ \/ c \in Scoped /\ chain[c].state = "acquired"
     \/ c \notin Scoped /\ chain[c].state = "idle" /\ rt.life = "alive"
  /\ \E r \in Routes : GoOn(c, r, hops)
  /\ UNCHANGED <<rt, caller>>

(* A worker runs an operation and the chain goes on inside; a timer fires, *)
(* which it may never do, or is stopped.  One thread serves the timers.    *)
InTail(h) == (hops \ {h}) \cup {[h EXCEPT !.phase = "tail"]}

PoolRun(h) ==
  /\ h.place = "pool" /\ h.phase = "pending"
  /\ GoOn(h.chain, chain[h.chain].left, InTail(h))
  /\ UNCHANGED <<rt, caller>>

TimerReady(h) == h.place = "timers" /\ h.phase = "pending" /\ \A g \in Counted("timers") : g.phase # "tail"

TimerFires(h) ==
  /\ TimerReady(h) /\ "timers" \notin rt.shut
  /\ GoOn(h.chain, chain[h.chain].left, InTail(h))
  /\ UNCHANGED <<rt, caller>>

TimerStops(h) ==
  /\ TimerReady(h) /\ ("timers" \in rt.shut \/ Stopped(h.chain))
  /\ Over(h.chain) /\ hops' = InTail(h)
  /\ UNCHANGED <<rt, caller>>

Retire(h) ==
  /\ h.phase = "tail" /\ hops' = hops \ {h}
  /\ UNCHANGED <<rt, chain, caller>>

-----------------------------------------------------------------------------
(* The member functions, as the calls they make on the parts. *)
runtime_request_stop == <<"timers.shutdown">>
PoolOnly == <<"pool.shutdown">>
runtime_shutdown == <<"timers.shutdown", "pool.shutdown">>
runtime_wait == <<"pool.wait", "timers.wait", "pool.wait">>

request_stop == <<"scope.request_stop">> \o runtime_request_stop
close == <<"scope.close">>
shutdown == <<"scope.close", "scope.request_stop">> \o runtime_shutdown
wait == runtime_wait \o <<"scope.wait">> \o runtime_wait

(* The destructors: of the context, then of its members in reverse order.  *)
runtime_dtor ==
  runtime_shutdown \o runtime_wait
    \o <<"timers.shutdown", "timers.join">> \o <<"pool.shutdown", "pool.join">>
dtor ==
  shutdown \o wait \o <<"scope.close", "scope.request_stop", "scope.wait">> \o runtime_dtor

Script ==
  [request_stop |-> request_stop, close |-> close, shutdown |-> shutdown,
   wait |-> wait, dtor |-> dtor]

(* What a caller of wait() may rely on: the spawned work, and everything   *)
(* that is under way once both places are shut.                            *)
UnderWay == Active \cup {h.chain : h \in {g \in hops : rt.shut = {"pool", "timers"}}}

Idle(x) == caller[x].todo = <<>>

Call(x) ==
  /\ caller[x].call = "none" /\ rt.life = "alive"
  /\ \E f \in MayCall[x] :
       /\ f = "dtor" => \A y \in Callers : Idle(y)
       /\ f = "dtor" => \A c \in Chains : chain[c].state # "acquired"
       /\ caller' = [caller EXCEPT ![x] = [call |-> f, todo |-> Script[f], since |-> UnderWay]]
       /\ rt' = [rt EXCEPT !.life = IF f = "dtor" THEN "dying" ELSE @]
  /\ UNCHANGED <<chain, hops>>

(* One call on a part.  A wait or a join returns when nothing is counted.  *)
Returns(x) ==
  LET f == Head(caller[x].todo)
  IN  /\ f \in {"pool.wait", "pool.join"} => Counted("pool") = {}
      /\ f \in {"timers.wait", "timers.join"} => Counted("timers") = {}
      /\ f = "scope.wait" => Active = {}

Effect(f) ==
  CASE f = "scope.close" -> [rt EXCEPT !.closed = TRUE]
    [] f = "scope.request_stop" -> [rt EXCEPT !.stopped = TRUE]
    [] f = "timers.shutdown" -> [rt EXCEPT !.shut = @ \cup {"timers"}]
    [] f = "pool.shutdown" -> [rt EXCEPT !.shut = @ \cup {"pool"}]
    [] f = "pool.join" -> [rt EXCEPT !.life = "gone"]
    [] OTHER -> rt

Do(x) ==
  /\ ~Idle(x) /\ Returns(x)
  /\ rt' = Effect(Head(caller[x].todo))
  /\ caller' = [caller EXCEPT ![x].todo = Tail(@)]
  /\ UNCHANGED <<chain, hops>>

Next ==
  \/ \E c \in Chains : spawn(c) \/ Begin(c)
  \/ \E h \in hops : PoolRun(h) \/ TimerFires(h) \/ TimerStops(h) \/ Retire(h)
  \/ \E x \in Callers : Call(x) \/ Do(x)

Spec == Init /\ [][Next]_rtvars

(* Threads run, bodies return and spawn() is not abandoned half-way.  That *)
(* a timer fires is not assumed.                                           *)
Fairness ==
  /\ \A c \in Chains : WF_rtvars(chain[c].state = "acquired" /\ Begin(c))
  /\ WF_rtvars(\E h \in hops : PoolRun(h) \/ Retire(h)) /\ WF_rtvars(\E h \in hops : TimerStops(h))
  /\ \A x \in Callers : WF_rtvars(Do(x))

-----------------------------------------------------------------------------
(* resource_context::wait is a barrier although its parts hand work to     *)
(* each other while it waits for them one after the other: when it has     *)
(* returned, the work spawned before the call has ended and no thread of   *)
(* the pool or of the timers is inside it any more; after shutdown() this  *)
(* holds for all work.  A destroyed context has left nothing behind.       *)
WaitIsBarrier ==
  /\ \A x \in Callers : caller[x].call = "wait" /\ Idle(x) =>
       \A c \in caller[x].since : chain[c].state = "over" /\ \A h \in hops : h.chain # c
  /\ rt.life = "gone" => hops = {} /\ \A c \in Chains : chain[c].state \in {"idle", "over"}

(* The destructors return, however far off a timer is, and so does wait()  *)
(* once the context has been shut down.                                    *)
ShutdownEnds ==
  []<>(/\ rt.life # "dying"
       /\ rt.shut = {"pool", "timers"} => \A x \in Callers : Idle(x))
=============================================================================
