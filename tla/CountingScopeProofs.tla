------------------------ MODULE CountingScopeProofs ------------------------
(***************************************************************************)
(* CountingScope for any number of associations, joins and any limit:      *)
(* IndInv is inductive, join() is a barrier and a joined scope stays so.   *)
(***************************************************************************)
EXTENDS CountingScope, FiniteSetTheorems, TLAPS

USE ScopeAssumption

(* The held handles are finitely many, and count decides whether there are *)
(* any, and whether a is the only one.                                     *)
LEMMA HeldCount ==
  ASSUME CountMatchesState
  PROVE  /\ IsFiniteSet(Held)
         /\ count = 0 => Held = {}
         /\ \A a \in Held : count > 0 /\ (count = 1 => Held = {a})
<1>1. IsFiniteSet(Held) /\ Held \in SUBSET Assocs
  BY FS_Subset DEF Held
<1>2. count = Cardinality(Held) /\ count \in Nat
  BY DEF CountMatchesState, TypeOK
<1>3. \A a \in Held : Cardinality(Held \ {a}) = count - 1 /\ IsFiniteSet(Held \ {a})
  BY <1>1, <1>2, FS_RemoveElement
<1>4. count = 0 => Held = {}
  BY <1>1, <1>2, FS_EmptySet
<1>5. ASSUME NEW a \in Held PROVE count > 0 /\ (count = 1 => Held = {a})
  <2>1. count # 0 BY <1>4, <1>5
  <2>2. ASSUME count = 1 PROVE Held = {a}
    <3>1. Cardinality(Held \ {a}) = 0 BY <1>3, <1>5, <2>2
    <3>2. Held \ {a} = {} BY <1>3, <1>5, <3>1, FS_EmptySet
    <3> QED BY <1>5, <3>2
  <2> QED BY <1>2, <2>1, <2>2
<1> QED BY <1>1, <1>4, <1>5

(* The initial state of a scope satisfies IndInv. *)
LEMMA InitInv == Init => IndInv
<1> SUFFICES ASSUME Init PROVE IndInv
  OBVIOUS
<1>1. TypeOK BY DEF Init, TypeOK, States
<1>2. Held = {} BY DEF Init, Held
<1>3. CountMatchesState
  BY <1>1, <1>2, FS_EmptySet DEF Init, CountMatchesState, IsJoining
<1>4. JoinersAreSomewhere /\ JoinIsBarrier /\ BarrierInv
  BY DEF Init, JoinersAreSomewhere, JoinIsBarrier, BarrierInv
<1> QED BY <1>3, <1>4 DEF IndInv

-----------------------------------------------------------------------------
(* try_associate adds a handle to the held ones, or changes nothing else.  *)
LEMMA TryAssociateInv ==
  ASSUME IndInv, NEW a \in Assocs, TryAssociate(a)
  PROVE  IndInv'
<1> USE DEF IndInv, TryAssociate
<1>0. assoc \in [Assocs -> {"none", "refused", "held", "released"}] /\ count \in Nat
  BY DEF CountMatchesState, TypeOK
<1>1. \A b \in Assocs \ {a} : assoc'[b] = assoc[b]
  BY <1>0
<1>2. assoc[a] = "none" OBVIOUS
<1>3. JoinersAreSomewhere' BY DEF JoinersAreSomewhere
<1>4. JoinIsBarrier' /\ BarrierInv'
  <2>1. \A j \in Joiners : since[j] \subseteq Assocs /\ a \notin since[j]
    BY <1>2 DEF BarrierInv, CountMatchesState, TypeOK
  <2> QED BY <1>1, <2>1 DEF JoinIsBarrier, BarrierInv
<1>5. CASE Rejects(state, count)
  <2>1. Held' = Held BY <1>0, <1>5 DEF Held
  <2>2. TypeOK' BY <1>0, <1>5 DEF CountMatchesState, TypeOK
  <2>3. CountMatchesState' BY <1>5, <2>1, <2>2 DEF CountMatchesState
  <2> QED BY <1>3, <1>4, <2>3
<1>6. CASE ~Rejects(state, count)
  <2>1. Held' = Held \cup {a} /\ a \notin Held BY <1>0, <1>6 DEF Held
  <2>2. Cardinality(Held') = count + 1
    BY <2>1, HeldCount, FS_AddElement DEF CountMatchesState
  <2>3. state' \in {"open", "open_and_joining"} /\ (IsJoining(state) <=> IsJoining(state'))
    BY <1>6 DEF Rejects, AfterAssociation, IsJoining
  <2>4. TypeOK' BY <1>0, <1>6, <2>3 DEF CountMatchesState, TypeOK, States
  <2>5. scope' = "gone" => state' \in {"unused", "unused_and_closed", "joined"}
    OBVIOUS
  <2>6. CountMatchesState'
    BY <1>0, <1>6, <2>2, <2>3, <2>4, <2>5 DEF CountMatchesState
  <2> QED BY <1>3, <1>4, <2>6
<1> QED BY <1>5, <1>6

(* The release of an association; the last one of a joining scope takes    *)
(* all the registered joiners with it.                                     *)
LEMMA ReleaseInv ==
  ASSUME IndInv, NEW a \in Assocs, Release(a)
  PROVE  IndInv'
<1> USE DEF IndInv
<1>0. /\ assoc \in [Assocs -> {"none", "refused", "held", "released"}] /\ count \in Nat
      /\ batch \in [Assocs -> SUBSET Joiners]
  BY DEF CountMatchesState, TypeOK
<1>1. /\ assoc[a] = "held" /\ assoc'[a] = "released" /\ count' = count - 1
      /\ \A b \in Assocs \ {a} : assoc'[b] = assoc[b]
      /\ UNCHANGED <<stopped, join, since, scope>>
  BY <1>0 DEF Release
<1>2. Held' = Held \ {a} /\ a \in Held BY <1>0, <1>1 DEF Held
<1>3. Cardinality(Held') = count - 1 /\ count > 0
  BY <1>2, HeldCount, FS_RemoveElement DEF CountMatchesState
<1>4. count' \in Nat BY <1>0, <1>1, <1>3
<1>5. scope' # "gone"
  BY <1>1, <1>3 DEF CountMatchesState
<1>6. \A j \in Joiners : \A b \in since[j] : assoc'[b] \in {"held", "released"}
  BY <1>0, <1>1 DEF BarrierInv, CountMatchesState, TypeOK
<1>7. JoinIsBarrier'
  BY <1>0, <1>1 DEF JoinIsBarrier, CountMatchesState, TypeOK
<1>8. CASE LastOne(count) /\ IsJoining(state)
  <2>1. state' = "joined" /\ joiners' = {} /\ batch' = [batch EXCEPT ![a] = joiners]
    BY <1>8 DEF Release
  <2>2. Held' = {} /\ count' = 0
    BY <1>0, <1>1, <1>2, <1>8, HeldCount DEF LastOne
  <2>3. TypeOK'
    BY <1>0, <1>1, <1>4, <2>1 DEF Release, CountMatchesState, TypeOK, States
  <2>4. CountMatchesState'
    BY <1>1, <1>3, <1>5, <2>1, <2>2, <2>3 DEF CountMatchesState, IsJoining
  <2>5. \A j \in Joiners : \A b \in since[j] : assoc'[b] = "released"
    BY <1>0, <1>1, <1>6, <2>2 DEF Held, CountMatchesState, TypeOK
  <2>7. batch'[a] = joiners /\ \A b \in Assocs \ {a} : batch'[b] = batch[b]
    BY <1>0, <2>1
  <2>6. BarrierInv'
    <3>1. \A j \in Joiners, b \in Assocs : j \in batch'[b] => assoc'[b] = "released"
      BY <1>1, <2>7 DEF BarrierInv
    <3> QED BY <1>1, <1>6, <2>5, <3>1 DEF BarrierInv
  <2>8. JoinersAreSomewhere'
    <3> SUFFICES ASSUME NEW j \in Joiners
                 PROVE  /\ join[j] = "registered" => \E b \in Assocs : j \in batch'[b]
                        /\ join[j] # "registered" => \A b \in Assocs : j \notin batch'[b]
                        /\ \A b, c \in Assocs : j \in batch'[b] /\ j \in batch'[c] => b = c
      BY <1>1, <2>1 DEF JoinersAreSomewhere
    <3>1. CASE j \in joiners
      <4>1. join[j] = "registered" /\ \A b \in Assocs : j \notin batch[b]
        BY <3>1 DEF JoinersAreSomewhere
      <4> QED BY <2>7, <3>1, <4>1
    <3>2. CASE j \notin joiners
      <4>1. j \notin batch[a]
        BY <1>1 DEF BarrierInv
      <4>2. \A b \in Assocs : j \in batch'[b] <=> j \in batch[b]
        BY <2>7, <3>2, <4>1
      <4> QED BY <3>2, <4>2 DEF JoinersAreSomewhere
    <3> QED BY <3>1, <3>2
  <2> QED BY <1>7, <2>4, <2>6, <2>8
<1>9. CASE ~(LastOne(count) /\ IsJoining(state))
  <2>1. UNCHANGED <<state, joiners, batch>>
    BY <1>9 DEF Release
  <2>2. TypeOK'
    BY <1>0, <1>1, <1>4, <2>1 DEF Release, CountMatchesState, TypeOK
  <2>3. IsJoining(state') => count' > 0
    BY <1>0, <1>1, <1>3, <1>9, <2>1 DEF LastOne
  <2>4. CountMatchesState'
    BY <1>0, <1>1, <1>3, <1>5, <2>1, <2>2, <2>3 DEF CountMatchesState
  <2>5. JoinersAreSomewhere' BY <1>1, <2>1 DEF JoinersAreSomewhere
  <2>6. BarrierInv'
    BY <1>0, <1>1, <1>6, <2>1 DEF BarrierInv, CountMatchesState, TypeOK
  <2> QED BY <1>7, <2>4, <2>5, <2>6
<1> QED BY <1>8, <1>9

(* A joiner taken out of the list is completed once. *)
LEMMA CompleteJoinerInv ==
  ASSUME IndInv, NEW a \in Assocs, NEW j \in Joiners, CompleteJoiner(a, j)
  PROVE  IndInv'
<1> USE DEF IndInv
<1>0. batch \in [Assocs -> SUBSET Joiners] /\ join \in [Joiners -> {"idle", "registered", "done"}]
  BY DEF CountMatchesState, TypeOK
<1>1. /\ j \in batch[a] /\ batch'[a] = batch[a] \ {j} /\ join'[j] = "done"
      /\ \A b \in Assocs \ {a} : batch'[b] = batch[b]
      /\ \A k \in Joiners \ {j} : join'[k] = join[k]
      /\ UNCHANGED <<state, count, joiners, stopped, assoc, since, scope>>
  BY <1>0 DEF CompleteJoiner
<1>2. CountMatchesState'
  <2>1. TypeOK' BY <1>0, <1>1 DEF CompleteJoiner, CountMatchesState, TypeOK
  <2>2. Held' = Held BY <1>1 DEF Held
  <2> QED BY <1>1, <2>1, <2>2 DEF CountMatchesState
<1>3. j \notin joiners /\ \A b \in Assocs \ {a} : j \notin batch[b]
  BY <1>1 DEF JoinersAreSomewhere
<1>4. \A k \in Joiners \ {j} : \A b \in Assocs : k \in batch'[b] <=> k \in batch[b]
  BY <1>1
<1>5. \A b \in Assocs : j \notin batch'[b]
  BY <1>1, <1>3
<1>6. JoinersAreSomewhere'
  BY <1>1, <1>3, <1>4, <1>5 DEF JoinersAreSomewhere
<1>7. JoinIsBarrier'
  BY <1>1 DEF JoinIsBarrier, BarrierInv
<1>8. BarrierInv'
  BY <1>1, <1>4, <1>5 DEF BarrierInv
<1> QED BY <1>2, <1>6, <1>7, <1>8

(* A join completes at once in an empty scope and is registered otherwise; *)
(* __scope_after_join_start is never called where it would terminate.      *)
LEMMA StartJoinInv ==
  ASSUME IndInv, NEW j \in Joiners, StartJoin(j)
  PROVE  IndInv'
<1> USE DEF IndInv
<1>0. /\ join \in [Joiners -> {"idle", "registered", "done"}] /\ count \in Nat
      /\ since \in [Joiners -> SUBSET Assocs] /\ joiners \subseteq Joiners
  BY DEF CountMatchesState, TypeOK
<1>1. /\ scope = "alive" /\ join[j] = "idle" /\ since'[j] = Held
      /\ \A k \in Joiners \ {j} : since'[k] = since[k] /\ join'[k] = join[k]
      /\ since' \in [Joiners -> SUBSET Assocs]
      /\ UNCHANGED <<count, stopped, assoc, batch, scope>>
  BY <1>0 DEF StartJoin, Held
<1>2. Held' = Held BY <1>1 DEF Held
<1>3. j \notin joiners /\ \A b \in Assocs : j \notin batch[b]
  BY <1>1 DEF JoinersAreSomewhere
<1>4. BarrierInv'
  BY <1>1, <1>3 DEF BarrierInv, Held
<1>5. CASE count = 0
  <2>1. /\ state' = "joined" /\ join'[j] = "done" /\ joiners' = joiners
        /\ join' \in [Joiners -> {"idle", "registered", "done"}]
    BY <1>0, <1>5 DEF StartJoin
  <2>2. Held = {} BY <1>5, HeldCount
  <2>3. joiners = {} BY <1>5 DEF CountMatchesState
  <2>4. TypeOK' BY <1>0, <1>1, <2>1 DEF CountMatchesState, TypeOK, States
  <2>5. CountMatchesState'
    BY <1>1, <1>2, <1>5, <2>1, <2>3, <2>4 DEF CountMatchesState, IsJoining
  <2>6. JoinersAreSomewhere'
    BY <1>1, <1>3, <2>1 DEF JoinersAreSomewhere
  <2>7. JoinIsBarrier'
    BY <1>1, <2>1, <2>2 DEF JoinIsBarrier
  <2> QED BY <1>4, <2>5, <2>6, <2>7
<1>6. CASE count # 0
  <2>1. /\ state' = AfterJoinStart(state) /\ join'[j] = "registered"
        /\ joiners' = joiners \cup {j}
        /\ join' \in [Joiners -> {"idle", "registered", "done"}]
    BY <1>0, <1>6 DEF StartJoin
  <2>2. state \in {"open", "open_and_joining", "closed", "closed_and_joining"}
    BY <1>0, <1>6 DEF CountMatchesState
  <2>3. state' \in {"open_and_joining", "closed_and_joining"}
    BY <2>1, <2>2 DEF AfterJoinStart
  <2>4. TypeOK' BY <1>0, <1>1, <2>1, <2>3 DEF CountMatchesState, TypeOK, States
  <2>5. CountMatchesState'
    BY <1>0, <1>1, <1>2, <1>6, <2>1, <2>3, <2>4 DEF CountMatchesState, IsJoining
  <2>6. JoinersAreSomewhere'
    BY <1>1, <1>3, <2>1 DEF JoinersAreSomewhere
  <2>7. JoinIsBarrier'
    BY <1>1, <2>1 DEF JoinIsBarrier
  <2> QED BY <1>4, <2>5, <2>6, <2>7
<1> QED BY <1>5, <1>6

(* close, request_stop and destruction leave the counting alone. *)
LEMMA OwnerInv ==
  ASSUME IndInv, Close \/ RequestStop \/ Destroy
  PROVE  IndInv'
<1> USE DEF IndInv
<1>1. /\ UNCHANGED <<count, joiners, assoc, batch, join, since>>
      /\ state' \in {state, AfterClose(state)} /\ stopped' \in BOOLEAN /\ scope' \in {"alive", "gone"}
      /\ state \in States
  BY DEF Close, RequestStop, Destroy, CountMatchesState, TypeOK
<1>2. state' \in States /\ (IsJoining(state') <=> IsJoining(state))
      /\ (state \in {"open", "open_and_joining", "closed", "closed_and_joining"}
          => state' \in {"open", "open_and_joining", "closed", "closed_and_joining"})
  BY <1>1 DEF AfterClose, States, IsJoining
<1>3. TypeOK' BY <1>1, <1>2 DEF CountMatchesState, TypeOK
<1>4. Held' = Held BY <1>1 DEF Held
<1>5. scope' = "gone" => state' \in {"unused", "unused_and_closed", "joined"}
  BY DEF Close, RequestStop, Destroy
<1>6. CountMatchesState'
  BY <1>1, <1>2, <1>3, <1>4, <1>5 DEF CountMatchesState
<1>7. JoinersAreSomewhere' /\ JoinIsBarrier' /\ BarrierInv'
  BY <1>1 DEF JoinersAreSomewhere, JoinIsBarrier, BarrierInv
<1> QED BY <1>6, <1>7

-----------------------------------------------------------------------------
(* IndInv holds in every reachable state: the count is exact, joiners are  *)
(* never lost or completed twice, and __scope_after_join_start and the     *)
(* destructor never terminate.                                             *)
THEOREM IndInvHolds == Spec => []IndInv
<1>1. IndInv /\ [Next]_vars => IndInv'
  <2> SUFFICES ASSUME IndInv, [Next]_vars PROVE IndInv'
    OBVIOUS
  <2>1. CASE UNCHANGED vars
    BY <2>1 DEF vars, IndInv, CountMatchesState, TypeOK, Held, JoinersAreSomewhere,
                JoinIsBarrier, BarrierInv, IsJoining, States
  <2>2. CASE Next
    BY <2>2, TryAssociateInv, ReleaseInv, CompleteJoinerInv, StartJoinInv, OwnerInv DEF Next
  <2> QED BY <2>1, <2>2
<1> QED BY <1>1, InitInv, PTL DEF Spec

(* join() is a barrier for the associations held when it was started.      *)
THEOREM JoinIsBarrierHolds == Spec => []JoinIsBarrier
<1>1. IndInv => JoinIsBarrier BY DEF IndInv
<1> QED BY <1>1, IndInvHolds, PTL

(* The count and the scope state agree (CountMatchesState). *)
THEOREM CountMatchesStateHolds == Spec => []CountMatchesState
<1>1. IndInv => CountMatchesState BY DEF IndInv
<1> QED BY <1>1, IndInvHolds, PTL

(* A joined scope stays joined and admits nobody. *)
THEOREM JoinedForGoodHolds == Spec => JoinedForGood
<1>1. IndInv /\ [Next]_vars => [state = "joined" => state' = "joined" /\ count' = 0]_vars
  <2> SUFFICES ASSUME IndInv, Next, state = "joined" PROVE state' = "joined" /\ count' = 0
    BY DEF vars
  <2>1. count = 0 /\ Held = {}
    <3>1. count \in Nat /\ ~(count > 0) BY DEF IndInv, CountMatchesState, TypeOK
    <3> QED BY <3>1, HeldCount DEF IndInv
  <2>2. ASSUME NEW a \in Assocs, TryAssociate(a) PROVE state' = "joined" /\ count' = 0
    BY <2>1, <2>2 DEF TryAssociate, Rejects
  <2>3. ASSUME NEW a \in Assocs, Release(a) PROVE FALSE
    BY <2>1, <2>3 DEF Release, Held
  <2>4. ASSUME NEW j \in Joiners, StartJoin(j) PROVE state' = "joined" /\ count' = 0
    BY <2>1, <2>4 DEF StartJoin
  <2>5. ASSUME NEW a \in Assocs, NEW j \in Joiners, CompleteJoiner(a, j)
        PROVE  state' = "joined" /\ count' = 0
    BY <2>1, <2>5 DEF CompleteJoiner
  <2>6. ASSUME Close \/ RequestStop \/ Destroy PROVE state' = "joined" /\ count' = 0
    BY <2>1, <2>6 DEF Close, RequestStop, Destroy, AfterClose
  <2> QED BY <2>2, <2>3, <2>4, <2>5, <2>6 DEF Next
<1> QED BY <1>1, IndInvHolds, PTL DEF Spec, JoinedForGood
=============================================================================
