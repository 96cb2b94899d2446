--------------------------- MODULE CountingScope ---------------------------
(***************************************************************************)
(* std::execution::counting_scope and simple_counting_scope                *)
(* (backport/cpp26/execution/counting_scope.hpp): the state machine behind *)
(* association and join.  Both classes have the same one; counting_scope   *)
(* adds a stop source.                                                     *)
(*                                                                         *)
(* A step is one critical section of the scope mutex, or the completion of *)
(* one joiner by the thread that took the list of joiners out of it.       *)
(***************************************************************************)
EXTENDS Naturals, FiniteSets

CONSTANTS Assocs,   \* scope_association handles
          Joiners,  \* join() operations
          Limit     \* max_associations

ASSUME ScopeAssumption ==
  IsFiniteSet(Assocs) /\ Limit \in Nat \ {0} /\ Assocs \cap Joiners = {}

VARIABLES state, count,   \* __state_, __count_
          joiners,        \* the list __joiners_; its order is not observable
          stopped,        \* __stop_source_ of counting_scope
          assoc,          \* handles: "none", "refused", "held", "released"
          batch,          \* joiners a released handle is still completing
          join, since,    \* join operations, and the handles held at their start
          scope           \* "alive" or "gone"

vars == <<state, count, joiners, stopped, assoc, batch, join, since, scope>>

Held == {a \in Assocs : assoc[a] = "held"}

Init ==
  /\ state = "unused" /\ count = 0 /\ joiners = {} /\ stopped = FALSE
  /\ assoc = [a \in Assocs |-> "none"] /\ batch = [a \in Assocs |-> {}]
  /\ join = [j \in Joiners |-> "idle"] /\ since = [j \in Joiners |-> {}]
  /\ scope = "alive"

-----------------------------------------------------------------------------
(* __scope_after_close, __scope_is_joining, __scope_rejects_association,   *)
(* __scope_try_associate, __scope_after_join_start.  The last one          *)
(* terminates in every other state.                                        *)
AfterClose(s) == CASE s = "unused" -> "unused_and_closed"
                   [] s = "open" -> "closed"
                   [] s = "open_and_joining" -> "closed_and_joining"
                   [] OTHER -> s

OnlyOpenJoins(s) == s = "open_and_joining"
IsJoining(s) == s \in {"open_and_joining", "closed_and_joining"}

Rejects(s, n) == n >= Limit \/ s \notin {"unused", "open", "open_and_joining"}

AfterAssociation(s) == IF s = "unused" THEN "open" ELSE s

AfterJoinStart(s) == CASE s \in {"open", "open_and_joining"} -> "open_and_joining"
                       [] s \in {"closed", "closed_and_joining"} -> "closed_and_joining"
                       [] OTHER -> "terminated"

-----------------------------------------------------------------------------
(* try_associate, through a token or through a held association.           *)
TryAssociate(a) ==
  /\ scope = "alive" /\ assoc[a] = "none"
  /\ IF Rejects(state, count)
       THEN /\ assoc' = [assoc EXCEPT ![a] = "refused"]
            /\ UNCHANGED <<state, count>>
       ELSE /\ assoc' = [assoc EXCEPT ![a] = "held"]
            /\ state' = AfterAssociation(state) /\ count' = count + 1
  /\ UNCHANGED <<joiners, stopped, batch, join, since, scope>>

(* __decrement: the last association of a joining scope takes the joiners. *)
LastOne(n) == n = 1

Release(a) ==
  /\ assoc[a] = "held" /\ assoc' = [assoc EXCEPT ![a] = "released"]
  /\ count' = count - 1
  /\ IF LastOne(count) /\ IsJoining(state)
       THEN state' = "joined" /\ joiners' = {} /\ batch' = [batch EXCEPT ![a] = joiners]
       ELSE UNCHANGED <<state, joiners, batch>>
  /\ UNCHANGED <<stopped, join, since, scope>>

(* __complete_joiners, outside the mutex. *)
CompleteJoiner(a, j) ==
  /\ j \in batch[a] /\ batch' = [batch EXCEPT ![a] = @ \ {j}]
  /\ join' = [join EXCEPT ![j] = "done"]
  /\ UNCHANGED <<state, count, joiners, stopped, assoc, since, scope>>

(* The join operation's start: complete at once or register.               *)
StartJoin(j) ==
  /\ scope = "alive" /\ join[j] = "idle" /\ since' = [since EXCEPT ![j] = Held]
  /\ IF count = 0
       THEN /\ state' = "joined" /\ join' = [join EXCEPT ![j] = "done"]
            /\ UNCHANGED joiners
       ELSE /\ state' = AfterJoinStart(state) /\ join' = [join EXCEPT ![j] = "registered"]
            /\ joiners' = joiners \cup {j}
  /\ UNCHANGED <<count, stopped, assoc, batch, scope>>

Close ==
  /\ scope = "alive" /\ state' = AfterClose(state)
  /\ UNCHANGED <<count, joiners, stopped, assoc, batch, join, since, scope>>

RequestStop ==
  /\ scope = "alive" /\ ~stopped /\ stopped' = TRUE
  /\ UNCHANGED <<state, count, joiners, assoc, batch, join, since, scope>>

(* The destructor, called as its contract asks: never used, or joined.     *)
Destroy ==
  /\ scope = "alive" /\ scope' = "gone"
  /\ state \in {"unused", "unused_and_closed", "joined"}
  /\ UNCHANGED <<state, count, joiners, stopped, assoc, batch, join, since>>

Next == \/ Close \/ RequestStop \/ Destroy
        \/ \E a \in Assocs : \/ TryAssociate(a) \/ Release(a)
                             \/ \E j \in Joiners : CompleteJoiner(a, j)
        \/ \E j \in Joiners : StartJoin(j)

Spec == Init /\ [][Next]_vars

-----------------------------------------------------------------------------
States == {"unused", "unused_and_closed", "open", "open_and_joining", "closed",
           "closed_and_joining", "joined"}

TypeOK ==
  /\ state \in States /\ count \in Nat /\ joiners \subseteq Joiners /\ stopped \in BOOLEAN
  /\ assoc \in [Assocs -> {"none", "refused", "held", "released"}]
  /\ batch \in [Assocs -> SUBSET Joiners]
  /\ join \in [Joiners -> {"idle", "registered", "done"}]
  /\ since \in [Joiners -> SUBSET Assocs] /\ scope \in {"alive", "gone"}

(* count is the number of held associations and agrees with the state:     *)
(* associations exist only in the four live states, so that                *)
(* __scope_after_join_start never terminates; a scope that was joined has  *)
(* none; and joiners wait only in a joining scope with something to wait   *)
(* for.  The scope is gone only when it is empty: ~counting_scope does not *)
(* terminate.                                                              *)
CountMatchesState ==
  /\ TypeOK
  /\ count = Cardinality(Held)
  /\ count > 0 => state \in {"open", "open_and_joining", "closed", "closed_and_joining"}
  /\ IsJoining(state) => count > 0
  /\ joiners # {} => IsJoining(state)
  /\ scope = "gone" => state \in {"unused", "unused_and_closed", "joined"}

(* A join operation that was started is waiting in the list, or is in the  *)
(* hands of exactly one releasing thread, or is complete.                  *)
JoinersAreSomewhere ==
  \A j \in Joiners :
    /\ join[j] = "registered" => j \in joiners \/ \E a \in Assocs : j \in batch[a]
    /\ j \in joiners => \A a \in Assocs : j \notin batch[a]
    /\ join[j] # "registered" => j \notin joiners /\ \A a \in Assocs : j \notin batch[a]
    /\ \A a, b \in Assocs : j \in batch[a] /\ j \in batch[b] => a = b

(* join() is a barrier: when it completes, every association that was held *)
(* when it started has been released.                                      *)
JoinIsBarrier ==
  \A j \in Joiners : join[j] = "done" => \A a \in since[j] : assoc[a] = "released"

(* The inductive invariant: also, what a join waits for was once held, and *)
(* is released when the join has left the list.                            *)
BarrierInv ==
  \A j \in Joiners :
    /\ \A a \in since[j] : assoc[a] \in {"held", "released"}
    /\ \A b \in Assocs : j \in batch[b] => \A a \in since[j] \cup {b} : assoc[a] = "released"

(* What the scope's mutex protects, in one formula; preserved by every     *)
(* critical section.                                                       *)
IndInv == CountMatchesState /\ JoinersAreSomewhere /\ JoinIsBarrier /\ BarrierInv

(* A joined scope stays joined and admits nobody. *)
JoinedForGood == [][state = "joined" => state' = "joined" /\ count' = 0]_vars
=============================================================================
