--------------------------- MODULE StopTokenProofs ---------------------------
(***************************************************************************)
(* StopToken for any set of callbacks and threads: IndInv is inductive,    *)
(* and the properties of stop callbacks follow from it.                    *)
(***************************************************************************)
EXTENDS StopToken, LinkedListTheorems

USE IdAssumption

(* Counting an invocation keeps the counters natural numbers. *)
LEMMA CountType ==
  ASSUME NEW f \in [Callbacks -> Nat], NEW c \in Callbacks
  PROVE  [f EXCEPT ![c] = @ + 1] \in [Callbacks -> Nat]
OBVIOUS

(* The initial state of a source with no callbacks satisfies IndInv. *)
LEMMA InitInv == Init => IndInv
<1> SUFFICES ASSUME Init PROVE IndInv
  OBVIOUS
<1> USE DEF Init
<1>1. TypeOK
  <2>1. list \in Seq(Callbacks) /\ raw \in Seq(Callbacks) /\ head \in Seq(Callbacks)
    OBVIOUS
  <2>2. calls \in [Callbacks -> Nat]
    OBVIOUS
  <2> QED BY <2>1, <2>2, Zenon DEF TypeOK
<1>2. PhaseInv BY DEF PhaseInv
<1>3. ListInv BY DEF ListInv, Elems, Distinct
<1>4. BodyInv BY DEF BodyInv
<1>5. DtorInv BY DEF DtorInv
<1>6. DestructionIsBarrier BY DEF DestructionIsBarrier
<1> QED BY <1>1, <1>2, <1>3, <1>4, <1>5, <1>6 DEF IndInv

-----------------------------------------------------------------------------
(* Each action preserves IndInv.  The constructor links a fresh object or  *)
(* runs its body inline.                                                   *)
LEMMA ConstructInv ==
  ASSUME IndInv, NEW t \in Threads, NEW c \in Callbacks, Construct(t, c)
  PROVE  IndInv'
<1> USE DEF IndInv, Construct, reqVars, controlVars, dtorVars, bodyVars
<1>1. c \notin Elems(list) /\ c \notin Elems(raw) /\ c \notin Elems(head) /\ c # cur
  BY DEF ListInv, DtorInv, BodyInv, TypeOK
<1>2. Distinct(list) /\ list \in Seq(Callbacks)
  BY DEF ListInv, TypeOK
<1>3. CASE stop
  <2>0. /\ UNCHANGED list
        /\ exec' = [exec EXCEPT ![c] = t] /\ inline' = [inline EXCEPT ![c] = TRUE]
        /\ calls' = [calls EXCEPT ![c] = @ + 1]
    BY <1>3 DEF Registers
  <2>1. TypeOK'
    <3>1. calls' \in [Callbacks -> Nat]
      BY <2>0 DEF TypeOK
    <3> QED BY <2>0, <3>1 DEF TypeOK
  <2>2. PhaseInv'
    BY <1>3 DEF PhaseInv, Registers
  <2>3. ListInv'
    <3>1. \A d \in Callbacks \ {c} : calls'[d] = calls[d] /\ inline'[d] = inline[d]
                                   /\ life'[d] = life[d] /\ object'[d] = object[d]
      BY <2>0 DEF TypeOK
    <3>2. Elems(list) \subseteq Callbacks /\ Elems(raw) \subseteq Callbacks
          /\ Elems(head) \subseteq Callbacks
      BY DEF Elems, TypeOK
    <3> QED BY <1>1, <2>0, <3>1, <3>2 DEF ListInv, Invocable
  <2>4. BodyInv'
    BY <1>1, <1>3 DEF BodyInv, DtorInv, TypeOK, Registers
  <2>5. DtorInv'
    BY <1>1, <1>3 DEF DtorInv, TypeOK, Registers
  <2>6. DestructionIsBarrier'
    BY <1>3 DEF DestructionIsBarrier, TypeOK, Registers
  <2> QED BY <2>1, <2>2, <2>3, <2>4, <2>5, <2>6
<1>4. CASE ~stop
  <2> DEFINE l == <<c>> \o list
  <2>0. list' = l /\ l \in Seq(Callbacks) /\ Distinct(l) /\ Elems(l) = Elems(list) \cup {c}
    BY <1>1, <1>2, <1>4, PrependProps DEF Registers
  <2> HIDE DEF l
  <2>1. TypeOK'
    BY <1>4, <2>0 DEF TypeOK, Registers
  <2>2. PhaseInv'
    BY <1>4 DEF PhaseInv, Registers
  <2>3. ListInv'
    BY <1>1, <1>4, <2>0 DEF ListInv, TypeOK, Registers, Invocable, DtorInv, BodyInv
  <2>4. BodyInv'
    BY <1>1, <1>4 DEF BodyInv, TypeOK, Registers
  <2>5. DtorInv'
    BY <1>1, <1>4, <2>0 DEF DtorInv, TypeOK, Registers
  <2>6. DestructionIsBarrier'
    BY <1>4 DEF DestructionIsBarrier, TypeOK, Registers
  <2> QED BY <2>1, <2>2, <2>3, <2>4, <2>5, <2>6
<1> QED BY <1>3, <1>4 DEF TypeOK

(* Leaving an inline body frees its thread. *)
LEMMA InlineReturnInv ==
  ASSUME IndInv, NEW t \in Threads, NEW c \in Callbacks, InlineReturn(t, c)
  PROVE  IndInv'
<1> USE DEF IndInv, InlineReturn, reqVars, controlVars, dtorVars
<1>1. TypeOK' BY DEF TypeOK
<1>2. PhaseInv' BY DEF PhaseInv
<1>3. ListInv' BY DEF ListInv, Invocable
<1>4. BodyInv' BY DEF BodyInv, TypeOK
<1>5. DtorInv' BY DEF DtorInv, TypeOK
<1>6. DestructionIsBarrier' BY DEF DestructionIsBarrier, TypeOK
<1> QED BY <1>1, <1>2, <1>3, <1>4, <1>5, <1>6

(* request_stop takes the whole list. *)
LEMMA RequestStopInv ==
  ASSUME IndInv, NEW t \in Threads, RequestStop(t)
  PROVE  IndInv'
<1> USE DEF IndInv, RequestStop, controlVars, dtorVars, bodyVars
<1>0. rpc = "idle" /\ head = <<>> /\ raw = <<>>
  BY DEF PhaseInv
<1>1. TypeOK' BY DEF TypeOK
<1>2. PhaseInv' BY <1>0 DEF PhaseInv, TypeOK
<1>3. ListInv' BY <1>0 DEF ListInv, Invocable, Elems, Distinct
<1>4. BodyInv' BY <1>0 DEF BodyInv, TypeOK
<1>5. DtorInv' BY <1>0 DEF DtorInv, Elems
<1>6. DestructionIsBarrier' BY DEF DestructionIsBarrier
<1> QED BY <1>1, <1>2, <1>3, <1>4, <1>5, <1>6
(* The detach loop moves one control from the list to the chain. *)
LEMMA DetachOneInv ==
  ASSUME IndInv, DetachOne
  PROVE  IndInv'
<1> USE DEF IndInv, DetachOne, dtorVars, bodyVars
<1> DEFINE c == Head(raw)
<1>1. /\ c \in Callbacks /\ c \in Elems(raw) /\ Tail(raw) \in Seq(Callbacks)
      /\ Distinct(Tail(raw)) /\ Elems(Tail(raw)) = Elems(raw) \ {c}
  BY TailProps DEF ListInv, TypeOK
<1>2. ~detached[c] /\ c \notin Elems(head) /\ c # cur
  BY <1>1 DEF ListInv, BodyInv
<1>3. /\ head' \in Seq(Callbacks) /\ Distinct(head')
      /\ Elems(head') = Elems(head) \cup {c}
  <2>1. head \in Seq(Callbacks) /\ Distinct(head) /\ head' = Append(head, c)
    BY DEF ListInv, TypeOK
  <2> HIDE DEF c, IndInv, DetachOne
  <2> QED BY <1>1, <1>2, <2>1, AppendProps
<1>4. /\ raw' = Tail(raw) /\ head' = Append(head, c)
      /\ detached' = [detached EXCEPT ![c] = TRUE]
      /\ request_thread' = [request_thread EXCEPT ![c] = requester]
      /\ object' = [object EXCEPT ![c] = TRUE]
      /\ cancelled' = [cancelled EXCEPT ![c] = FALSE]
  OBVIOUS
<1> HIDE DEF c
<1>5. Elems(list) \subseteq Callbacks /\ Elems(raw) \subseteq Callbacks
      /\ Elems(head) \subseteq Callbacks /\ list = <<>> /\ Elems(list) = {} /\ stop
  BY ElemsType DEF TypeOK, PhaseInv
<1>6. TypeOK' BY <1>1, <1>3, <1>4 DEF TypeOK
<1>7. PhaseInv' BY <1>4 DEF PhaseInv
<1>8. ListInv'
  <2>1. \A d \in Callbacks \ {c} : detached'[d] = detached[d] /\ object'[d] = object[d]
                                 /\ cancelled'[d] = cancelled[d]
    BY <1>4 DEF TypeOK
  <2>2. detached'[c] /\ object'[c] /\ ~cancelled'[c]
    BY <1>1, <1>4 DEF TypeOK
  <2> QED BY <1>1, <1>2, <1>3, <1>4, <1>5, <2>1, <2>2 DEF ListInv, Invocable
<1>9. BodyInv' BY <1>1, <1>2, <1>4, <1>5 DEF BodyInv, TypeOK, ListInv
<1>10. DtorInv' BY <1>1, <1>3, <1>4 DEF DtorInv, TypeOK, ListInv
<1>11. DestructionIsBarrier' BY DEF DestructionIsBarrier
<1> QED BY <1>6, <1>7, <1>8, <1>9, <1>10, <1>11

(* Releasing the source mutex. *)
LEMMA EndDetachInv ==
  ASSUME IndInv, EndDetach
  PROVE  IndInv'
<1> USE DEF IndInv, EndDetach, controlVars, dtorVars, bodyVars
<1>1. TypeOK' BY DEF TypeOK
<1>2. PhaseInv' BY DEF PhaseInv
<1>3. ListInv' BY DEF ListInv, Invocable
<1>4. BodyInv' BY DEF BodyInv, PhaseInv
<1>5. DtorInv' BY DEF DtorInv
<1>6. DestructionIsBarrier' BY DEF DestructionIsBarrier
<1> QED BY <1>1, <1>2, <1>3, <1>4, <1>5, <1>6

(* A control leaves the chain; its body starts unless it was cancelled. *)
LEMMA TakeControlInv ==
  ASSUME IndInv, TakeControl
  PROVE  IndInv'
<1> USE DEF IndInv, TakeControl, dtorVars
<1> DEFINE c == Head(head)
<1>1. /\ c \in Callbacks /\ c \in Elems(head) /\ Tail(head) \in Seq(Callbacks)
      /\ Distinct(Tail(head)) /\ Elems(Tail(head)) = Elems(head) \ {c}
  BY TailProps DEF ListInv, TypeOK
<1>2. detached[c] /\ calls[c] = 0 /\ cur \notin Callbacks /\ stop /\ list = <<>>
      /\ raw = <<>> /\ requester \in Threads /\ Elems(list) = {} /\ Elems(raw) = {}
  BY <1>1 DEF ListInv, PhaseInv, Elems
<1>3. cur' = c /\ head' = Tail(head)
  OBVIOUS
<1>4. CASE Invocable(c)
  <2>1. /\ running' = [running EXCEPT ![c] = TRUE]
        /\ exec' = [exec EXCEPT ![c] = requester]
        /\ calls' = [calls EXCEPT ![c] = @ + 1] /\ rpc' = "body"
    BY <1>4
  <2>2. dpc[c] \notin {"wait", "done"}
    BY <1>1, <1>4 DEF DtorInv, Invocable
  <2> HIDE DEF c
  <2>3. TypeOK'
    <3>1. calls' \in [Callbacks -> Nat] BY <2>1, CountType DEF TypeOK
    <3> QED BY <1>1, <1>2, <1>3, <2>1, <3>1 DEF TypeOK
  <2>4. PhaseInv' BY <1>1, <1>3, <2>1 DEF PhaseInv
  <2>5. ListInv'
    <3>1. \A d \in Callbacks \ {c} : calls'[d] = calls[d]
      BY <2>1 DEF TypeOK
    <3>2. Elems(head) \subseteq Callbacks BY ElemsType DEF TypeOK
    <3> QED BY <1>1, <1>2, <1>3, <3>1, <3>2 DEF ListInv, Invocable
  <2>6. BodyInv' BY <1>1, <1>2, <1>3, <2>1 DEF BodyInv, TypeOK
  <2>7. DtorInv' BY <1>1, <1>2, <1>3, <2>1 DEF DtorInv, TypeOK, BodyInv
  <2>8. DestructionIsBarrier'
    BY <1>1, <2>1, <2>2 DEF DestructionIsBarrier, TypeOK, DtorInv
  <2> QED BY <2>3, <2>4, <2>5, <2>6, <2>7, <2>8
<1>5. CASE ~Invocable(c)
  <2>1. rpc' = "finish" /\ UNCHANGED <<running, exec, calls>>
    BY <1>5
  <2>2. dpc[c] # "none"
    BY <1>1, <1>5 DEF ListInv
  <2> HIDE DEF c
  <2>3. TypeOK' BY <1>1, <1>3, <2>1 DEF TypeOK
  <2>4. PhaseInv' BY <1>1, <1>3, <2>1 DEF PhaseInv
  <2>5. ListInv' BY <1>1, <1>2, <1>3, <2>1 DEF ListInv, Invocable
  <2>6. BodyInv' BY <1>1, <1>2, <1>3, <2>1 DEF BodyInv
  <2>7. DtorInv' BY <1>1, <1>2, <1>3, <2>1, <2>2 DEF DtorInv
  <2>8. DestructionIsBarrier' BY <2>1 DEF DestructionIsBarrier
  <2> QED BY <2>3, <2>4, <2>5, <2>6, <2>7, <2>8
<1> QED BY <1>4, <1>5

(* A body returns to the invocation loop. *)
LEMMA BodyReturnInv ==
  ASSUME IndInv, BodyReturn
  PROVE  IndInv'
<1> USE DEF IndInv, BodyReturn, controlVars, dtorVars
<1>0. cur \in Callbacks
  BY DEF PhaseInv
<1>1. TypeOK' BY <1>0 DEF TypeOK
<1>2. PhaseInv' BY <1>0 DEF PhaseInv
<1>3. ListInv' BY DEF ListInv, Invocable
<1>4. BodyInv' BY <1>0 DEF BodyInv, TypeOK
<1>5. DtorInv' BY <1>0 DEF DtorInv, TypeOK
<1>6. DestructionIsBarrier' BY <1>0 DEF DestructionIsBarrier, TypeOK
<1> QED BY <1>1, <1>2, <1>3, <1>4, <1>5, <1>6

(* A control is finished: no destructor waits for it any longer. *)
LEMMA FinishControlInv ==
  ASSUME IndInv, FinishControl
  PROVE  IndInv'
<1> USE DEF IndInv, FinishControl, dtorVars, bodyVars
<1>0. cur \in Callbacks /\ cur \notin Elems(head) /\ cur' \notin Callbacks
      /\ Elems(head) \subseteq Callbacks /\ list = <<>> /\ raw = <<>>
      /\ Elems(list) = {} /\ Elems(raw) = {}
  BY ElemsType DEF PhaseInv, ListInv, TypeOK
<1>1. TypeOK' BY <1>0 DEF TypeOK
<1>2. PhaseInv' BY <1>0 DEF PhaseInv
<1>3. ListInv'
  <2>1. \A d \in Callbacks \ {cur} : cancelled'[d] = cancelled[d] /\ object'[d] = object[d]
    BY DEF TypeOK
  <2> QED BY <1>0, <2>1 DEF ListInv, Invocable
<1>4. BodyInv' BY <1>0 DEF BodyInv, TypeOK
<1>5. DtorInv' BY <1>0 DEF DtorInv, TypeOK
<1>6. DestructionIsBarrier' BY DEF DestructionIsBarrier
<1> QED BY <1>1, <1>2, <1>3, <1>4, <1>5, <1>6

(* request_stop returns. *)
LEMMA RequestReturnInv ==
  ASSUME IndInv, RequestReturn
  PROVE  IndInv'
<1> USE DEF IndInv, RequestReturn, controlVars, dtorVars, bodyVars
<1>1. TypeOK' BY DEF TypeOK
<1>2. PhaseInv' BY DEF PhaseInv
<1>3. ListInv' BY DEF ListInv, Invocable
<1>4. BodyInv' BY DEF BodyInv
<1>5. DtorInv' BY DEF DtorInv
<1>6. DestructionIsBarrier' BY DEF DestructionIsBarrier
<1> QED BY <1>1, <1>2, <1>3, <1>4, <1>5, <1>6

-----------------------------------------------------------------------------
(* A destructor begins. *)
LEMMA DtorBeginInv ==
  ASSUME IndInv, NEW t \in Threads, NEW c \in Callbacks, DtorBegin(t, c)
  PROVE  IndInv'
<1> USE DEF IndInv, DtorBegin, reqVars, controlVars, bodyVars
<1>0. /\ Elems(list) \subseteq Callbacks /\ Elems(raw) \subseteq Callbacks
      /\ Elems(head) \subseteq Callbacks
  BY ElemsType DEF TypeOK
<1>1. dpc' = [dpc EXCEPT ![c] = DtorPath(c)] /\ DtorPath(c) \in {"cancel", "remove"}
  BY DEF DtorPath
<1>2. DtorPath(c) = "remove" \/ inline[c] \/ detached[c]
  BY DEF DtorPath
<1>3. TypeOK' BY <1>1 DEF TypeOK
<1>4. PhaseInv' BY DEF PhaseInv
<1>5. ListInv' BY <1>0, <1>1, <1>2 DEF ListInv, TypeOK, Invocable
<1>6. BodyInv' BY DEF BodyInv
<1>7. DtorInv' BY <1>1 DEF DtorInv, TypeOK
<1>8. DestructionIsBarrier' BY DEF DestructionIsBarrier, TypeOK
<1> QED BY <1>3, <1>4, <1>5, <1>6, <1>7, <1>8

(* A destructor unlinks its object; the source mutex keeps it out of the   *)
(* detach loop.                                                            *)
LEMMA DtorRemoveInv ==
  ASSUME IndInv, NEW c \in Callbacks, DtorRemove(c)
  PROVE  IndInv'
<1> USE DEF IndInv, DtorRemove, CanRemove, reqVars, controlVars, bodyVars
<1>0. /\ Elems(list) \subseteq Callbacks /\ raw = <<>> /\ Elems(raw) = {}
      /\ Elems(head) \subseteq Callbacks
  BY ElemsType DEF TypeOK, PhaseInv
<1>1. /\ list' \in Seq(Callbacks) /\ Distinct(list') /\ Elems(list') = Elems(list) \ {c}
  BY UnlinkProps DEF ListInv, TypeOK
<1>2. list = <<>> => list' = <<>>
  BY <1>0, <1>1, ElemsType DEF TypeOK
<1>3. TypeOK' BY <1>1 DEF TypeOK
<1>4. PhaseInv' BY <1>2 DEF PhaseInv
<1>5. ListInv' BY <1>0, <1>1 DEF ListInv, TypeOK, Invocable
<1>6. BodyInv' BY DEF BodyInv
<1>7. DtorInv' BY <1>1 DEF DtorInv, TypeOK
<1>8. DestructionIsBarrier' BY DEF DestructionIsBarrier
<1> QED BY <1>3, <1>4, <1>5, <1>6, <1>7, <1>8

(* A destructor cancels the control and returns, or waits for the body. *)
LEMMA DtorCancelInv ==
  ASSUME IndInv, NEW c \in Callbacks, DtorCancel(c)
  PROVE  IndInv'
<1> USE DEF IndInv, DtorCancel, MustWait, reqVars, bodyVars
<1>0. /\ Elems(list) \subseteq Callbacks /\ Elems(raw) \subseteq Callbacks
      /\ Elems(head) \subseteq Callbacks
  BY ElemsType DEF TypeOK
<1>1. c \notin Elems(list) /\ c \notin Elems(raw) /\ life[c] = "live"
  BY DEF ListInv, DtorInv, TypeOK
<1>2. \A d \in Callbacks \ {c} : dpc'[d] = dpc[d] /\ life'[d] = life[d]
                              /\ cancelled'[d] = cancelled[d] /\ object'[d] = object[d]
  BY DEF TypeOK
<1>3. /\ cancelled'[c] /\ dpc'[c] \in {"wait", "done"}
      /\ life'[c] = IF dpc'[c] = "done" THEN "dead" ELSE "live"
      /\ dpc'[c] = "done" => ~(running[c] /\ request_thread[c] # dby[c])
  BY <1>1 DEF TypeOK
<1>4. TypeOK' BY DEF TypeOK
<1>5. PhaseInv' BY DEF PhaseInv
<1>6. ListInv' BY <1>0, <1>1, <1>2, <1>3 DEF ListInv, Invocable
<1>7. BodyInv' BY <1>2, <1>3 DEF BodyInv
<1>8. DtorInv' BY <1>1, <1>2, <1>3 DEF DtorInv
<1>9. DestructionIsBarrier'
  BY <1>2, <1>3 DEF DestructionIsBarrier, DtorInv, BodyInv
<1> QED BY <1>4, <1>5, <1>6, <1>7, <1>8, <1>9

(* The body has returned: the waiting destructor returns. *)
LEMMA DtorWaitInv ==
  ASSUME IndInv, NEW c \in Callbacks, DtorWait(c)
  PROVE  IndInv'
<1> USE DEF IndInv, DtorWait, reqVars, controlVars, bodyVars
<1>0. /\ Elems(list) \subseteq Callbacks /\ Elems(raw) \subseteq Callbacks
      /\ Elems(head) \subseteq Callbacks
  BY ElemsType DEF TypeOK
<1>1. TypeOK' BY DEF TypeOK
<1>2. PhaseInv' BY DEF PhaseInv
<1>3. ListInv' BY <1>0 DEF ListInv, TypeOK, Invocable
<1>4. BodyInv' BY DEF BodyInv, TypeOK
<1>5. DtorInv' BY DEF DtorInv, TypeOK
<1>6. DestructionIsBarrier' BY DEF DestructionIsBarrier, DtorInv, BodyInv, TypeOK
<1> QED BY <1>1, <1>2, <1>3, <1>4, <1>5, <1>6

-----------------------------------------------------------------------------
(* IndInv holds in every reachable state of every instance. *)
THEOREM IndInvHolds == Spec => []IndInv
<1>1. IndInv /\ [Next]_vars => IndInv'
  <2> SUFFICES ASSUME IndInv, [Next]_vars PROVE IndInv'
    OBVIOUS
  <2>1. CASE UNCHANGED vars
    BY <2>1 DEF vars, reqVars, controlVars, dtorVars, bodyVars, IndInv, TypeOK,
       PhaseInv, ListInv, BodyInv, DtorInv, DestructionIsBarrier, Invocable
  <2>2. CASE Next
    BY <2>2, ConstructInv, InlineReturnInv, RequestStopInv, DetachOneInv, EndDetachInv,
       TakeControlInv, BodyReturnInv, FinishControlInv, RequestReturnInv,
       DtorBeginInv, DtorRemoveInv, DtorCancelInv, DtorWaitInv
       DEF Next, RequestStep, DtorStep
  <2> QED BY <2>1, <2>2
<1> QED BY InitInv, <1>1, PTL DEF Spec

(* No list operation of request_stop or remove_callback reaches a          *)
(* destroyed callback object.                                              *)
THEOREM ListedAreAliveHolds == Spec => []ListedAreAlive
<1>1. IndInv => ListedAreAlive
  BY DEF IndInv, ListInv, ListedAreAlive
<1> QED BY IndInvHolds, <1>1, PTL

(* ~inplace_stop_callback is a barrier: when it has returned, no other     *)
(* thread is inside the body.                                              *)
THEOREM DestructionIsBarrierHolds == Spec => []DestructionIsBarrier
<1>1. IndInv => DestructionIsBarrier
  BY DEF IndInv
<1> QED BY IndInvHolds, <1>1, PTL

(* When request_stop returns, every live callback has run exactly once. *)
THEOREM NoLostCallbackHolds == Spec => []NoLostCallback
<1>1. IndInv => NoLostCallback
  BY ElemsType DEF IndInv, PhaseInv, DtorInv, TypeOK, NoLostCallback
<1> QED BY IndInvHolds, <1>1, PTL

(* The detach loop never revives a control that a destructor cancelled. *)
THEOREM CancelIsFinalHolds == Spec => CancelIsFinal
<1> DEFINE A == \A c \in Callbacks : dpc[c] \in {"wait", "done"} => cancelled'[c]
<1>1. IndInv /\ [Next]_vars => [A]_vars
  <2> SUFFICES ASSUME IndInv, Next PROVE A
    BY DEF vars
  <2>1. \A c \in Callbacks : dpc[c] \in {"wait", "done"} => cancelled[c]
    BY DEF IndInv, DtorInv
  <2>2. CASE DetachOne
    <3>1. Head(raw) \in Callbacks /\ dpc[Head(raw)] \in {"none", "remove"}
      BY <2>2, TailProps DEF IndInv, ListInv, TypeOK, DetachOne
    <3> QED BY <2>1, <2>2, <3>1 DEF DetachOne, IndInv, TypeOK
  <2>3. CASE FinishControl
    BY <2>1, <2>3 DEF FinishControl, IndInv, TypeOK
  <2>4. CASE \E d \in Callbacks : DtorCancel(d)
    BY <2>1, <2>4 DEF DtorCancel, IndInv, TypeOK
  <2>5. CASE UNCHANGED cancelled
    BY <2>1, <2>5
  <2>6. \/ DetachOne \/ FinishControl \/ UNCHANGED cancelled
        \/ \E d \in Callbacks : DtorCancel(d)
    BY DEF Next, RequestStep, DtorStep, RequestStop, Construct, InlineReturn,
       EndDetach, TakeControl, BodyReturn, RequestReturn, DtorBegin,
       DtorRemove, DtorWait, controlVars
  <2> QED BY <2>2, <2>3, <2>4, <2>5, <2>6
<1> QED BY IndInvHolds, <1>1, PTL DEF Spec, CancelIsFinal
=============================================================================
