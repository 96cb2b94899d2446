---------------------------- MODULE SpawnScope ----------------------------
(***************************************************************************)
(* std::execution::spawn and associate                                     *)
(* (backport/cpp26/execution/spawn.hpp, associate.hpp) on a counting_scope.*)
(*                                                                         *)
(* Both put a scope association beside an operation.  spawn counts two     *)
(* references on a heap state, one of the launching thread and one of the  *)
(* operation; associate carries the association from the sender into the   *)
(* operation state.  op[a] follows the work that handle a belongs to.      *)
(***************************************************************************)
EXTENDS CountingScope

VARIABLES op,    \* the operation, its heap state or its sender
          refs   \* who still counts in __refs
spawnVars == <<vars, op, refs>>

SpawnInit == Init /\ op = [a \in Assocs |-> "none"] /\ refs = [a \in Assocs |-> {}]

Moves(a, p, q) == op[a] = p /\ op' = [op EXCEPT ![a] = q]

-----------------------------------------------------------------------------
(* spawn.  __state's constructor associates, then connects, which may      *)
(* throw: the association is then released with the other members.         *)
Construct(a) ==
  /\ TryAssociate(a)
  /\ \/ Moves(a, "none", "state") /\ refs' = [refs EXCEPT ![a] = {"work"}]
     \/ Moves(a, "none", "freed") /\ UNCHANGED refs

Associated(a) == assoc[a] = "held"

(* __run: one more reference; the operation is started, or completed here. *)
Run(a) ==
  /\ Moves(a, "state", IF Associated(a) THEN "running" ELSE "done")
  /\ refs' = [refs EXCEPT ![a] = IF Associated(a) THEN {"run", "work"} ELSE {"run"}]
  /\ UNCHANGED vars

(* __release by the operation's completion and at the end of __run: the    *)
(* last one destroys the operation.                                        *)
NoRef(r, t) == FALSE
LastRef(r, t) == r = {t}

ReleaseRef(a, t) ==
  /\ t \in refs[a] /\ refs' = [refs EXCEPT ![a] = @ \ {t}]
  /\ op' = [op EXCEPT ![a] = IF LastRef(refs[a], t) THEN "dying"
                             ELSE IF t = "work" THEN "done" ELSE @]
  /\ UNCHANGED vars

Complete(a) == op[a] = "running" /\ ReleaseRef(a, "work")
RunReturns(a) == op[a] \in {"running", "done"} /\ ReleaseRef(a, "run")

FreeState(a) == Moves(a, "dying", "freed") /\ UNCHANGED <<vars, refs>>

AfterFree == {"freed"}

LetGo(a) == op[a] \in AfterFree /\ Release(a) /\ UNCHANGED <<op, refs>>

-----------------------------------------------------------------------------
(* associate.  A new sender, a copy of one, and a const& connect associate *)
(* anew; an rvalue connect passes the association on, unless it throws or  *)
(* the sender is destroyed instead.                                        *)
Associate(a) == TryAssociate(a) /\ Moves(a, "none", "sender") /\ UNCHANGED refs

Connect(a) ==
  /\ Moves(a, "sender", "connected") \/ Moves(a, "sender", "freed")
  /\ UNCHANGED <<vars, refs>>

Start(a) ==
  /\ Moves(a, "connected", IF Associated(a) THEN "running" ELSE "finished")
  /\ UNCHANGED <<vars, refs>>

Finish(a) == refs[a] = {} /\ Moves(a, "running", "finished") /\ UNCHANGED <<vars, refs>>

DestroyOp(a) ==
  /\ Moves(a, "connected", "freed") \/ Moves(a, "finished", "freed")
  /\ UNCHANGED <<vars, refs>>

-----------------------------------------------------------------------------
Work(a) ==
  \/ Run(a) \/ Complete(a) \/ RunReturns(a) \/ FreeState(a) \/ LetGo(a)
  \/ Connect(a) \/ Start(a) \/ Finish(a) \/ DestroyOp(a)

ScopeStep ==
  /\ \/ Close \/ RequestStop \/ Destroy \/ \E j \in Joiners : StartJoin(j)
     \/ \E a \in Assocs, j \in Joiners : CompleteJoiner(a, j)
  /\ UNCHANGED <<op, refs>>

SpawnNext == ScopeStep \/ \E a \in Assocs : Construct(a) \/ Associate(a) \/ Work(a)

SpawnSpec == SpawnInit /\ [][SpawnNext]_spawnVars

(* Work ends once the scope is asked to stop, and whoever holds a sender   *)
(* or an operation then lets it go.                                        *)
SpawnFairSpec ==
  /\ SpawnSpec
  /\ \A a \in Assocs :
       /\ WF_spawnVars(stopped /\ Work(a))
       /\ \A j \in Joiners : WF_spawnVars(CompleteJoiner(a, j) /\ UNCHANGED <<op, refs>>)

-----------------------------------------------------------------------------

(* After request_stop every join completes: every path, refusal and        *)
(* exceptions included, lets its association go.                           *)
JoinEnds == []<>(stopped => \A j \in Joiners : join[j] # "registered")
=============================================================================
