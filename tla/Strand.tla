------------------------------- MODULE Strand -------------------------------
(***************************************************************************)
(* forge::strand (include/forge/strand.hpp).                               *)
(*                                                                         *)
(* Operations are enqueued by their starter, run one at a time by runners  *)
(* scheduled on the underlying scheduler, and completed as stopped by      *)
(* whoever drains after shutdown.  An agent is a starter, a runner or a    *)
(* control thread; a step is one critical section of the strand's mutex or *)
(* one completion outside it.  The scheduler is external: a runner it was  *)
(* given later calls set_value, or set_stopped / set_error; a launch that  *)
(* throws is a runner that stops.                                          *)
(***************************************************************************)
EXTENDS LinkedList

CONSTANTS Ops,       \* schedule() operations of the strand
          Runners,   \* identities for the runners launched
          Ctl,       \* threads that call shutdown()
          Waiters,   \* threads that call wait()
          AllocFails \* whether queue_.push_back may throw

Agents == Ops \cup Runners \cup Ctl

VARIABLES closed, running, active, queue, deferred,   \* __state
          flight, used,   \* runners in flight; runners ever launched
          stop_only,      \* the token was stopped when the operation started
          pc, job,        \* agents: position, records in hand
          outcome,        \* of each operation
          xpc, since,     \* waiters: position; operations enqueued when called
          order, finished \* history: operations as enqueued, as completed

stateVars  == <<closed, running, active, queue, deferred>>
runnerVars == <<flight, used>>
waitVars   == <<xpc, since>>
vars == <<stateVars, runnerVars, stop_only, pc, job, outcome, waitVars, order, finished>>

Init ==
  /\ closed = FALSE /\ running = FALSE /\ active = FALSE
  /\ queue = <<>> /\ deferred = <<>>
  /\ flight = {} /\ used = {}
  /\ stop_only = [o \in Ops |-> FALSE]
  /\ pc = [a \in Agents |-> "idle"] /\ job = [a \in Agents |-> <<>>]
  /\ outcome = [o \in Ops |-> "none"]
  /\ xpc = [x \in Waiters |-> "idle"] /\ since = [x \in Waiters |-> {}]
  /\ order = <<>> /\ finished = <<>>

-----------------------------------------------------------------------------
(* launch_runner: hand a runner to the scheduler. *)
Launch == \E i \in Runners \ used : flight' = flight \cup {i} /\ used' = used \cup {i}

(* cv_.notify_all *)
Notify == /\ xpc' = [x \in Waiters |-> IF xpc[x] = "asleep" THEN "check" ELSE xpc[x]]
          /\ UNCHANGED since

(* Agent a starts a turn with one record, or to drain a batch; it becomes  *)
(* the active one.                                                         *)
Begin(a, what, records) ==
  /\ active' = TRUE
  /\ pc' = [pc EXCEPT ![a] = what] /\ job' = [job EXCEPT ![a] = records]

(* take_deferred_stopped_locked after defer_queue_locked: the deferred     *)
(* list in front of the queue.                                             *)
Backlog == deferred \o queue

(* append_deferred_stopped_locked after defer_queue_locked *)
Behind(o) == Append(Backlog, o)

(* The deferred list is already being drained, or a turn is in progress.   *)
TurnTaken == active

(* enqueue *)
Enqueue(o) ==
  /\ pc[o] = "idle" /\ outcome[o] = "none" /\ o \notin Elems(order)
  /\ \E b \in BOOLEAN : stop_only' = [stop_only EXCEPT ![o] = b]
  /\ order' = Append(order, o)
  /\ \/ /\ ~closed
        /\ queue' = Append(queue, o) /\ running' = TRUE
        /\ IF running THEN UNCHANGED runnerVars ELSE Launch
        /\ UNCHANGED <<closed, active, deferred, pc, job>>
     \/ /\ closed \/ AllocFails
        /\ closed' = TRUE /\ queue' = <<>>
        /\ IF TurnTaken
             THEN deferred' = Behind(o) /\ UNCHANGED <<active, running, pc, job>>
             ELSE deferred' = <<>> /\ Begin(o, "batch", Behind(o)) /\ running' = TRUE
        /\ UNCHANGED runnerVars
  /\ UNCHANGED <<outcome, waitVars, finished>>

(* shutdown, as the step of agent a *)
ShutdownBy(a) ==
  /\ closed' = TRUE
  /\ \/ TurnTaken /\ UNCHANGED <<running, active, queue, deferred, pc, job, waitVars>>
     \/ /\ ~TurnTaken /\ Backlog = <<>>
        /\ running' = FALSE /\ Notify
        /\ UNCHANGED <<active, queue, deferred, pc, job>>
     \/ /\ ~TurnTaken /\ Backlog # <<>>
        /\ queue' = <<>> /\ deferred' = <<>> /\ running' = TRUE
        /\ Begin(a, "batch", Backlog)
        /\ UNCHANGED waitVars

Shutdown(k) ==
  /\ pc[k] = "idle" /\ ShutdownBy(k)
  /\ UNCHANGED <<runnerVars, stop_only, outcome, order, finished>>

-----------------------------------------------------------------------------
(* The scheduler runs the runner: run_one up to the end of its first       *)
(* critical section.                                                       *)
RunOne(i) ==
  /\ i \in flight /\ flight' = flight \ {i}
  /\ \/ TurnTaken /\ UNCHANGED <<stateVars, pc, job, waitVars>>
     \/ /\ ~TurnTaken /\ queue = <<>> /\ ~(closed /\ deferred # <<>>)
        /\ running' = FALSE /\ Notify
        /\ UNCHANGED <<closed, active, queue, deferred, pc, job>>
     \/ /\ ~TurnTaken /\ closed /\ Backlog # <<>>
        /\ running' = IF queue = <<>> THEN TRUE ELSE running
        /\ queue' = <<>> /\ deferred' = <<>> /\ Begin(i, "batch", Backlog)
        /\ UNCHANGED <<closed, waitVars>>
     \/ /\ ~TurnTaken /\ ~closed /\ queue # <<>>
        /\ queue' = Tail(queue) /\ Begin(i, "turn", <<Head(queue)>>)
        /\ UNCHANGED <<closed, running, deferred, waitVars>>
  /\ UNCHANGED <<used, stop_only, outcome, order, finished>>

(* The scheduler refuses: __runner_recv::set_stopped, set_error, or an     *)
(* exception in launch_runner_once; all call shutdown.                     *)
RunnerStopped(i) ==
  /\ i \in flight /\ flight' = flight \ {i} /\ ShutdownBy(i)
  /\ UNCHANGED <<used, stop_only, outcome, order, finished>>

Complete(o, how) == /\ outcome' = [outcome EXCEPT ![o] = how]
                    /\ finished' = Append(finished, o)

(* The record's completion inside its turn. *)
Turn(a) ==
  /\ pc[a] = "turn"
  /\ LET o == Head(job[a])
     IN  Complete(o, IF stop_only[o] THEN "stopped" ELSE "value")
  /\ pc' = [pc EXCEPT ![a] = "after"] /\ job' = [job EXCEPT ![a] = <<>>]
  /\ UNCHANGED <<stateVars, runnerVars, stop_only, waitVars, order>>

(* run_one's second critical section: drain if the strand was closed       *)
(* meanwhile, else hand the rest of the queue to a new runner.             *)
AfterTurn(a) ==
  /\ pc[a] = "after"
  /\ \/ /\ closed /\ Backlog # <<>>
        /\ queue' = <<>> /\ deferred' = <<>> /\ Begin(a, "batch", Backlog)
        /\ UNCHANGED <<running, runnerVars, waitVars>>
     \/ /\ ~(closed /\ Backlog # <<>>)
        /\ active' = FALSE /\ pc' = [pc EXCEPT ![a] = "idle"]
        /\ IF queue = <<>> THEN running' = FALSE /\ Notify /\ UNCHANGED runnerVars
                           ELSE Launch /\ UNCHANGED <<running, waitVars>>
        /\ UNCHANGED <<queue, deferred, job>>
  /\ UNCHANGED <<closed, stop_only, outcome, order, finished>>

(* complete_stopped_batch: the inner loop, then another look for more. *)
BatchOne(a) ==
  /\ pc[a] = "batch" /\ job[a] # <<>>
  /\ Complete(Head(job[a]), "stopped") /\ job' = [job EXCEPT ![a] = Tail(@)]
  /\ UNCHANGED <<stateVars, runnerVars, stop_only, pc, waitVars, order>>

NothingMore == <<>>
More == Backlog

BatchMore(a) ==
  /\ pc[a] = "batch" /\ job[a] = <<>>
  /\ IF More # <<>>
       THEN /\ queue' = <<>> /\ deferred' = <<>> /\ Begin(a, "batch", More)
            /\ UNCHANGED <<running, waitVars>>
       ELSE /\ active' = FALSE /\ running' = FALSE /\ Notify
            /\ pc' = [pc EXCEPT ![a] = "idle"]
            /\ UNCHANGED <<queue, deferred, job>>
  /\ UNCHANGED <<closed, runnerVars, stop_only, outcome, order, finished>>

-----------------------------------------------------------------------------
(* wait() from outside; inside a turn or a drain it returns at once. *)
WaitCall(x) ==
  /\ xpc[x] = "idle" /\ xpc' = [xpc EXCEPT ![x] = "check"]
  /\ since' = [since EXCEPT ![x] = Elems(order)]
  /\ UNCHANGED <<stateVars, runnerVars, stop_only, pc, job, outcome, order, finished>>

Idle == queue = <<>> /\ ~running

WaitCheck(x) ==
  /\ xpc[x] = "check" /\ xpc' = [xpc EXCEPT ![x] = IF Idle THEN "done" ELSE "asleep"]
  /\ UNCHANGED <<stateVars, runnerVars, stop_only, pc, job, outcome, since, order, finished>>

-----------------------------------------------------------------------------
RunnerStep(i) == RunOne(i) \/ RunnerStopped(i)
AgentStep(a)  == Turn(a) \/ AfterTurn(a) \/ BatchOne(a) \/ BatchMore(a)

Next == \/ \E o \in Ops : Enqueue(o)
        \/ \E k \in Ctl : Shutdown(k)
        \/ \E i \in Runners : RunnerStep(i)
        \/ \E a \in Agents : AgentStep(a)
        \/ \E x \in Waiters : WaitCall(x) \/ WaitCheck(x)

Spec == Init /\ [][Next]_vars

(* The scheduler answers every runner, and agents finish what they began;  *)
(* nobody is forced to schedule or to shut down.                           *)
Fairness == /\ \A i \in Runners : WF_vars(RunnerStep(i))
            /\ \A a \in Agents : WF_vars(AgentStep(a))
            /\ \A x \in Waiters : WF_vars(WaitCheck(x))

-----------------------------------------------------------------------------
(* The strand's promise: at most one agent is completing records at any    *)
(* time, and active_ says so, whoever drains (runner, late starter or the  *)
(* thread that shuts the strand down) and however many stale runners the   *)
(* scheduler still holds.                                                  *)
SerialTurns ==
  /\ active <=> \E a \in Agents : pc[a] # "idle"
  /\ \A a, b \in Agents : pc[a] # "idle" /\ pc[b] # "idle" => a = b

(* Records complete in the order in which they were enqueued, values and   *)
(* stops alike, across the change from running to draining; wait() returns *)
(* only after everything enqueued before has completed.                    *)
CompletedInOrder ==
  /\ finished = SubSeq(order, 1, Len(finished))
  /\ \A x \in Waiters : xpc[x] = "done" => \A o \in since[x] : outcome[o] # "none"

(* Every operation completes, whether or not the strand is shut down and   *)
(* whatever the scheduler answers, and wait() returns: again and again     *)
(* nothing is left to do.                                                  *)
OperationsComplete ==
  []<>(/\ \A o \in Elems(order) : outcome[o] # "none"
       /\ \A x \in Waiters : xpc[x] \in {"idle", "done"})
=============================================================================
