---------------------------- MODULE EpollContext ----------------------------
(***************************************************************************)
(* forge::io::context on epoll (include/forge/io/detail/linux_context.hpp).*)
(*                                                                         *)
(* One poller thread and any user threads share the registry.  A critical  *)
(* section takes records out of the registry into a batch, which its       *)
(* thread then delivers outside the mutex, record by record; a receiver    *)
(* that is being completed may destroy operations.  A step is a critical   *)
(* section with the write to the eventfd that follows it, an atomic        *)
(* exchange, or a call outside both.                                       *)
(***************************************************************************)
EXTENDS Naturals, Sequences, SequencesExt, FiniteSets

CONSTANTS Ops, Fds,          \* readiness operations, each started once; descriptors
          FdOf, KindOf,      \* what each operation waits for
          Users, Poller,     \* threads
          Waiters,           \* the users that may call wait()
          CtlFails,          \* may epoll_ctl fail?
          PollFails,         \* may epoll_wait fail?
          DestroysOthers,    \* may a receiver destroy operations other than its own?
          None

Kinds == {"read", "write"}
Threads == Users \cup {Poller}

ASSUME EpollAssumption ==
  /\ FdOf \in [Ops -> Fds] /\ KindOf \in [Ops -> Kinds] /\ Poller \notin Users
  /\ Waiters \subseteq Users
  /\ {CtlFails, PollFails, DestroysOthers} \subseteq BOOLEAN /\ None \notin Ops

VARIABLES io,   \* __state, the epoll set and the eventfd
          rec,  \* the record and the operation state of each operation
          th    \* each thread: position, batch it delivers, operation it destroys

vars == <<io, rec, th>>

Init ==
  /\ io = [slot |-> [s \in Fds \X Kinds |-> None], kernel |-> [f \in Fds |-> {}],
           closed |-> FALSE, stopped |-> FALSE, pending |-> 0, active |-> 0,
           wake |-> FALSE, done |-> FALSE, joined |-> FALSE]
  /\ rec = [o \in Ops |-> [st |-> "idle", token |-> FALSE, stopReq |-> FALSE,
                           cb |-> "none", cbBy |-> None, done |-> FALSE, by |-> None,
                           delivered |-> FALSE, got |-> 0, life |-> "alive"]]
  /\ th = [t \in Threads |-> [pc |-> IF t = Poller THEN "poll" ELSE "idle", batch |-> <<>>,
                              n |-> 0, op |-> None, cur |-> None, won |-> FALSE, after |-> "idle",
                              victim |-> None, back |-> "idle", events |-> {}, woken |-> FALSE,
                              since |-> {}]]

-----------------------------------------------------------------------------
(* The registry.  __fd_waiters has one slot for each kind; update_interest *)
(* makes the epoll set match the waiters, or fails and leaves it: ADD and  *)
(* MOD recover from each other's errors, so the flag "registered" does not *)
(* matter to the outcome.                                                  *)
SlotOf(o) == <<FdOf[o], KindOf[o]>>
Waiting(slot, f) == {k \in Kinds : slot[<<f, k>>] # None}
Resident == {o \in Ops : io.slot[SlotOf(o)] = o}

Updated(slot, fds, kernel) == [f \in Fds |-> IF f \in fds THEN Waiting(slot, f) ELSE kernel[f]]

Updates(slot, fds) ==
  {Updated(slot, fds, io.kernel)} \cup IF CtlFails THEN {io.kernel} ELSE {}

Without(S) == [s \in Fds \X Kinds |-> IF io.slot[s] \in S THEN None ELSE io.slot[s]]

Reserved(state, batch) == [state EXCEPT !.active = @ + Len(batch)]

(* A thread goes on with a batch, and then to after.  The three channels   *)
(* of a completion (value, error, stopped) run the same code and are not   *)
(* told apart.                                                             *)
Delivering(t, batch, n, after) ==
  [th EXCEPT ![t].batch = batch, ![t].n = n, ![t].events = {}, ![t].woken = FALSE,
             ![t].after = IF batch = <<>> THEN "idle" ELSE after,
             ![t].pc = IF batch = <<>> THEN after ELSE "next"]

(* The orders in which a critical section may list the records it takes:   *)
(* descriptor by descriptor, read before write.                            *)
Batches(S) ==
  {b \in SetToSeqs(S) : \A i, j \in DOMAIN b :
     i < j /\ FdOf[b[i]] = FdOf[b[j]] => KindOf[b[i]] = "read"}

(* A critical section that takes S out of the registry and delivers it.    *)
FdsOf(S) == {FdOf[o] : o \in S}

Take(t, S, fds, state, after) ==
  \E kernel \in Updates(Without(S), fds), b \in Batches(S) :
    /\ io' = Reserved([state EXCEPT !.slot = Without(S), !.kernel = kernel,
                                    !.pending = @ - Cardinality(S)], b)
    /\ th' = Delivering(t, b, Len(b), after)

-----------------------------------------------------------------------------
(* __op::start(): a stopped token completes at once, without reservation;  *)
(* then the callback is installed, which runs at once on a token that was  *)
(* stopped meanwhile, or throws; then the record is registered.            *)
StartOp(t, o) ==
  /\ th[t].pc = "idle" /\ rec[o].st = "idle"
  /\ rec' = [rec EXCEPT ![o].st = "starting"]
  /\ IF rec[o].token THEN th' = [Delivering(t, <<o>>, 0, "started") EXCEPT ![t].op = o]
     ELSE th' = [th EXCEPT ![t].pc = "install", ![t].op = o]
  /\ UNCHANGED io

Install(t) ==
  /\ th[t].pc = "install"
  /\ LET o == th[t].op IN
     \/ /\ rec' = [rec EXCEPT ![o].cb = IF rec[o].token THEN "ran" ELSE "registered",
                              ![o].stopReq = rec[o].token]
        /\ th' = [th EXCEPT ![t].pc = "register"]
     \/ th' = Delivering(t, <<o>>, 0, "started") /\ UNCHANGED rec
  /\ UNCHANGED io

(* __state::start: refused (closed, stopped, slot taken), registered, or   *)
(* taken back when epoll_ctl fails, with another epoll_ctl if somebody     *)
(* else waits for the descriptor.                                          *)
Refuses(o) == io.closed \/ io.stopped \/ io.slot[SlotOf(o)] # None

Register(t) ==
  /\ th[t].pc = "register"
  /\ LET o == th[t].op
         slot == [io.slot EXCEPT ![SlotOf(o)] = o]
     IN
     \/ /\ Refuses(o) /\ io' = Reserved(io, <<o>>) /\ th' = Delivering(t, <<o>>, 1, "started")
     \/ /\ ~Refuses(o) /\ th' = [th EXCEPT ![t].pc = "check"]
        /\ io' = [io EXCEPT !.slot = slot, !.kernel = Updated(slot, {FdOf[o]}, @),
                            !.pending = @ + 1, !.wake = TRUE]
     \/ /\ ~Refuses(o) /\ CtlFails
        /\ \E kernel \in Updates(io.slot, {FdOf[o]} \ {f \in Fds : Waiting(io.slot, f) = {}}) :
             io' = Reserved([io EXCEPT !.kernel = kernel], <<o>>)
        /\ th' = Delivering(t, <<o>>, 1, "started")
  /\ UNCHANGED rec

(* extract_record: only the record that is still in its slot.              *)
IsResident(o) == io.slot[SlotOf(o)] = o

Extract(t, o, after) ==
  IF IsResident(o) THEN Take(t, {io.slot[SlotOf(o)]}, {FdOf[o]}, [io EXCEPT !.wake = TRUE], after)
  ELSE th' = [th EXCEPT ![t].pc = after] /\ UNCHANGED io

(* A stop that came before the registration found nothing to cancel. *)
NeverRechecks(o) == FALSE
StopSeen(o) == rec[o].stopReq

CheckStop(t) ==
  /\ th[t].pc = "check"
  /\ IF StopSeen(th[t].op) THEN Extract(t, th[t].op, "started")
     ELSE th' = [th EXCEPT ![t].pc = "started"] /\ UNCHANGED io
  /\ UNCHANGED rec

Started(t) ==
  /\ th[t].pc = "started" /\ th' = [th EXCEPT ![t].pc = "idle", ![t].op = None]
  /\ rec' = [rec EXCEPT ![th[t].op].st = "started"] /\ UNCHANGED io

(* The stop callback on thread t.  A stop that nobody can observe any more *)
(* (the callback is gone) is left out.                                     *)
RequestToken(o) ==
  /\ ~rec[o].token /\ (rec[o].cb = "registered" \/ rec[o].st # "started")
  /\ rec' = [rec EXCEPT ![o].token = TRUE] /\ UNCHANGED <<io, th>>

StopCallback(t, o) ==
  /\ th[t].pc = "idle" /\ rec[o].token /\ rec[o].cb = "registered"
  /\ rec' = [rec EXCEPT ![o].cb = "running", ![o].cbBy = t, ![o].stopReq = TRUE]
  /\ th' = [th EXCEPT ![t].pc = "cancel", ![t].op = o] /\ UNCHANGED io

CancelRecord(t) ==
  th[t].pc = "cancel" /\ Extract(t, th[t].op, "cancelled") /\ UNCHANGED rec

StopCallbackReturn(t) ==
  /\ th[t].pc = "cancelled" /\ th' = [th EXCEPT ![t].pc = "idle", ![t].op = None]
  /\ rec' = [rec EXCEPT ![th[t].op].cb = "ran", ![th[t].op].cbBy = None] /\ UNCHANGED io

-----------------------------------------------------------------------------
(* __actions::run and complete_*: publish the thread and claim; reset the  *)
(* stop callback, which waits while it runs on another thread, and call    *)
(* the receiver if the claim was won; when it returns, signal delivered.   *)
ResetWaits(t, o) == rec[o].cb = "running" /\ rec[o].cbBy # t

ResetCb(o) == IF rec[o].cb = "registered" THEN "none" ELSE rec[o].cb

AlwaysWins(o) == TRUE
Wins(o) == ~rec[o].done

Claim(t) ==
  /\ th[t].pc = "next"
  /\ LET o == Head(th[t].batch) IN
     /\ rec' = [rec EXCEPT ![o].by = t, ![o].done = TRUE]
     /\ th' = [th EXCEPT ![t].pc = "reset", ![t].won = Wins(o), ![t].batch = Tail(@), ![t].cur = o]
  /\ UNCHANGED io

ResetCallback(t) ==
  /\ th[t].pc = "reset" /\ ~ResetWaits(t, th[t].cur)
  /\ rec' = [rec EXCEPT ![th[t].cur].cb = ResetCb(th[t].cur),
                        ![th[t].cur].got = IF th[t].won THEN @ + 1 ELSE @]
  /\ th' = [th EXCEPT ![t].pc = IF th[t].won THEN "user" ELSE "mark"] /\ UNCHANGED io

Mark(t) ==
  /\ th[t].pc \in {"user", "mark"} /\ rec' = [rec EXCEPT ![th[t].cur].delivered = TRUE]
  /\ th' = [th EXCEPT ![t].pc = IF th[t].batch # <<>> THEN "next" ELSE "finish",
                      ![t].cur = None, ![t].won = FALSE]
  /\ UNCHANGED io

(* finish_deliveries: the last one wakes the thread in wait(). *)
Notifies(n) == n = 0

Finish(t) ==
  /\ th[t].pc = "finish" /\ io' = [io EXCEPT !.active = @ - th[t].n]
  /\ th' = [u \in Threads |->
              IF u = t THEN [th[u] EXCEPT !.pc = th[t].after, !.n = 0, !.after = "idle"]
              ELSE IF Notifies(io'.active) /\ th[u].pc = "asleep" THEN [th[u] EXCEPT !.pc = "active"]
              ELSE th[u]]
  /\ UNCHANGED rec

-----------------------------------------------------------------------------
(* ~__op of a started operation, by an idle user after start() returned or *)
(* by a receiver, which may be the operation's own.                        *)
MayDestroy(t, o) ==
  /\ rec[o].life = "alive"
  /\ \/ th[t].pc = "idle" /\ rec[o].st = "started"
     \/ th[t].pc = "user" /\ (o = th[t].cur \/ (DestroysOthers /\ rec[o].st = "started"))

OnOwnStack(t, o) == rec[o].by = t

DestroyClaim(t, o) ==
  /\ MayDestroy(t, o)
  /\ LET own == rec[o].done /\ OnOwnStack(t, o) IN
     /\ rec' = [rec EXCEPT ![o].done = TRUE, ![o].life = IF own THEN "gone" ELSE "dying"]
     /\ IF own THEN UNCHANGED th
        ELSE th' = [th EXCEPT ![t].pc = IF rec[o].done THEN "await" ELSE "discard",
                              ![t].victim = o, ![t].back = th[t].pc]
  /\ UNCHANGED io

(* discard_record takes it out of the registry without a delivery; a       *)
(* record later in this thread's own batch must not be waited for.         *)
PendingHere(t, o) == Contains(th[t].batch, o)

Discard(t) ==
  /\ th[t].pc = "discard"
  /\ LET o == th[t].victim IN
     IF IsResident(o)
       THEN /\ \E kernel \in Updates(Without({o}), {FdOf[o]}) :
                 io' = [io EXCEPT !.slot = Without({o}), !.kernel = kernel, !.pending = @ - 1,
                                  !.wake = TRUE]
            /\ th' = [th EXCEPT ![t].pc = "unregister"]
       ELSE /\ th' = [th EXCEPT ![t].pc = IF PendingHere(t, o) THEN "unregister" ELSE "await"]
            /\ UNCHANGED io
  /\ UNCHANGED rec

Unregister(t) ==
  /\ th[t].pc = "unregister" /\ ~ResetWaits(t, th[t].victim)
  /\ rec' = [rec EXCEPT ![th[t].victim].cb = ResetCb(th[t].victim), ![th[t].victim].life = "gone"]
  /\ th' = [th EXCEPT ![t].pc = th[t].back, ![t].victim = None, ![t].back = "idle"] /\ UNCHANGED io

GivesUp(o) == TRUE
WaitDelivered(o) == rec[o].delivered

Await(t) ==
  /\ th[t].pc = "await" /\ WaitDelivered(th[t].victim)
  /\ rec' = [rec EXCEPT ![th[t].victim].life = "gone"]
  /\ th' = [th EXCEPT ![t].pc = th[t].back, ![t].victim = None, ![t].back = "idle"] /\ UNCHANGED io

-----------------------------------------------------------------------------
(* run(): epoll_wait reports some of the registered interest, which may be *)
(* stale when the poller gets the mutex.                                   *)
EpollWait ==
  /\ th[Poller].pc = "poll"
  /\ \E E \in SUBSET {s \in Fds \X Kinds : s[2] \in io.kernel[s[1]]} :
       /\ E # {} \/ io.wake
       /\ th' = [th EXCEPT ![Poller].pc = "events", ![Poller].events = E, ![Poller].woken = io.wake]
  /\ UNCHANGED <<io, rec>>

HasStopped == io.closed \/ io.stopped
ShouldExit(left) == HasStopped /\ left = 0

ProcessEvents ==
  /\ th[Poller].pc = "events"
  /\ LET S == {o \in Resident : SlotOf(o) \in th[Poller].events}
         state == [io EXCEPT !.wake = @ /\ ~th[Poller].woken]
         entries == {f \in Fds : Waiting(io.slot, f) # {} /\ \E k \in Kinds : <<f, k>> \in th[Poller].events}
     IN Take(Poller, S, entries, state, IF ShouldExit(io.pending - Cardinality(S)) THEN "exit" ELSE "poll")
  /\ UNCHANGED rec

EpollFails ==
  /\ PollFails /\ th[Poller].pc = "poll"
  /\ Take(Poller, Resident, FdsOf(Resident), [io EXCEPT !.stopped = TRUE], "exit") /\ UNCHANGED rec

PollerDone ==
  /\ th[Poller].pc = "exit" /\ io' = [io EXCEPT !.done = TRUE]
  /\ th' = [th EXCEPT ![Poller].pc = "gone"] /\ UNCHANGED rec

-----------------------------------------------------------------------------
(* cancel(fd), close(), request_stop(), and wait(), which joins the poller *)
(* and then waits for the deliveries of other threads.                     *)
Cancel(t, f) ==
  /\ th[t].pc = "idle"
  /\ LET S == {o \in Resident : FdOf[o] = f} IN
     Take(t, S, FdsOf(S), [io EXCEPT !.wake = TRUE], "idle")
  /\ UNCHANGED rec

Close(t) ==
  /\ th[t].pc = "idle" /\ ~io.closed /\ io' = [io EXCEPT !.closed = TRUE, !.wake = TRUE]
  /\ UNCHANGED <<rec, th>>

RequestStop(t) ==
  /\ th[t].pc = "idle"
  /\ Take(t, Resident, FdsOf(Resident), [io EXCEPT !.stopped = TRUE, !.wake = TRUE], "idle")
  /\ UNCHANGED rec

InFlight ==
  Resident \cup UNION {ToSet(th[t].batch) \cup ({th[t].cur} \ {None}) : t \in {u \in Threads : th[u].n > 0}}

Wait(t) ==
  /\ th[t].pc = "idle" /\ \A u \in Users : th[u].pc # "join"
  /\ th' = [th EXCEPT ![t].pc = IF io.joined THEN "active" ELSE "join", ![t].since = InFlight]
  /\ UNCHANGED <<io, rec>>

Join(t) ==
  /\ th[t].pc = "join" /\ io.done /\ th' = [th EXCEPT ![t].pc = "active"]
  /\ io' = [io EXCEPT !.joined = TRUE] /\ UNCHANGED rec

NoDeliveries(n) == n = 0

WaitForDeliveries(t) ==
  /\ th[t].pc = "active"
  /\ th' = [th EXCEPT ![t].pc = IF NoDeliveries(io.active) THEN "waited" ELSE "asleep"]
  /\ UNCHANGED <<io, rec>>

WaitReturns(t) ==
  /\ th[t].pc = "waited" /\ th' = [th EXCEPT ![t].pc = "idle", ![t].since = {}] /\ UNCHANGED <<io, rec>>

-----------------------------------------------------------------------------
Deliver(t) == Claim(t) \/ ResetCallback(t) \/ Mark(t) \/ Finish(t)
Destroy(t) == Discard(t) \/ Unregister(t) \/ Await(t)
StartStep(t) == Install(t) \/ Register(t) \/ CheckStop(t) \/ Started(t)
CallbackStep(t) == CancelRecord(t) \/ StopCallbackReturn(t)
WaitStep(t) == Join(t) \/ WaitForDeliveries(t) \/ WaitReturns(t)
Poll == EpollWait \/ ProcessEvents \/ PollerDone
PollerRuns == (io.wake /\ EpollWait) \/ ProcessEvents \/ PollerDone

Next ==
  \/ \E t \in Threads : Deliver(t) \/ Destroy(t) \/ \E o \in Ops : DestroyClaim(t, o)
  \/ \E t \in Users :
       \/ StartStep(t) \/ CallbackStep(t) \/ WaitStep(t) \/ Close(t) \/ RequestStop(t)
       \/ \E o \in Ops : StartOp(t, o) \/ StopCallback(t, o)
       \/ \E f \in Fds : Cancel(t, f)
  \/ \E t \in Waiters : Wait(t)
  \/ \E o \in Ops : RequestToken(o)
  \/ Poll \/ EpollFails

Spec == Init /\ [][Next]_vars

(* Every thread that has something to do goes on with it; epoll_wait       *)
(* returns when the eventfd is readable, while a descriptor need not ever  *)
(* become ready; request_stop on a token runs the callback.                *)
Fairness ==
  /\ WF_vars(PollerRuns)
  /\ \A t \in Threads : WF_vars(Deliver(t) \/ Destroy(t))
  /\ \A t \in Users : WF_vars(StartStep(t) \/ CallbackStep(t) \/ WaitStep(t))
  /\ \A o \in Ops : WF_vars(\E t \in Users : StopCallback(t, o))

-----------------------------------------------------------------------------
(* pending and active_deliveries are exact; a record is in its slot, in    *)
(* one thread's batch, or in neither.                                      *)
CountersAreExact ==
  /\ io.pending = Cardinality(Resident)
  /\ io.active = FoldFunction(LAMBDA x, sum : x.n + sum, 0, th)
  /\ \A o \in Ops : Cardinality({t \in Threads : Contains(th[t].batch, o)}) +
                    (IF o \in Resident THEN 1 ELSE 0) <= 1

(* Nobody waits for a readiness that epoll does not watch, even when       *)
(* epoll_ctl fails; when it works, epoll watches exactly what somebody     *)
(* waits for.                                                              *)
InterestMatches ==
  \A f \in Fds : /\ Waiting(io.slot, f) \subseteq io.kernel[f]
                 /\ ~CtlFails => io.kernel[f] \subseteq Waiting(io.slot, f)

(* ~__op is a barrier: when it has returned, no thread is completing the   *)
(* record or runs its stop callback, except one that destroyed it from its *)
(* own call stack; and the callback is not registered any more.            *)
DestroyIsBarrier ==
  \A o \in Ops : rec[o].life = "gone" =>
    /\ rec[o].cb # "registered"
    /\ \A t \in Threads : (th[t].cur = o /\ th[t].won) \/ rec[o].cbBy = t => rec[o].by = t

(* A receiver is completed once, and never after its operation was         *)
(* destroyed.                                                              *)
CompletesOnce ==
  [][\A o \in Ops : rec'[o].got # rec[o].got => rec[o].got = 0 /\ rec[o].life # "gone"]_vars

(* wait() is a barrier for the operations that were in flight when it was  *)
(* called: none is registered or being delivered when it returns.          *)
WaitIsBarrier == \A t \in Users : th[t].pc = "waited" => th[t].since \cap InFlight = {}

(* After request_stop the poller ends and wait() returns; a stopped token  *)
(* ends its operation, wherever in start() the stop came; ~__op returns,   *)
(* if receivers destroy only their own operation.                          *)
NobodyHangs ==
  []<>(/\ io.stopped => io.done /\ \A t \in Users : th[t].pc \notin {"join", "active", "asleep"}
       /\ \A o \in Ops : /\ rec[o].token /\ rec[o].st # "idle" => rec[o].done
                         /\ rec[o].life # "dying")
=============================================================================
