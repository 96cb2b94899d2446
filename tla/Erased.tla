------------------------------- MODULE Erased -------------------------------
(***************************************************************************)
(* Type erasure of senders, schedulers and receivers: the operations of    *)
(* erased_sender (include/forge/erased_sender.hpp) and any_scheduler       *)
(* (any_scheduler.hpp), the detached operation of start_detached           *)
(* (start_detached.hpp), and the boxes any_sender_of (any_sender.hpp) and  *)
(* any_receiver_of (any_receiver.hpp), which keep an object in a buffer of *)
(* their own or on the heap.                                               *)
(*                                                                         *)
(* An operation is started by one thread and completes there, inside       *)
(* start(), or on any other; the receiver may destroy the operation as     *)
(* soon as it has completed, while start() is still running.  The boxes    *)
(* are moved, assigned and destroyed in any order, by one thread.          *)
(***************************************************************************)
EXTENDS Naturals, FiniteSets

CONSTANTS Boxes,    \* the objects of type any_sender_of or any_receiver_of
          MaxMade   \* how many senders or receivers are put into them

VARIABLES kind,     \* "sender", "scheduler", "detached", "any_sender", "any_receiver"
          full,     \* the handle erases something (it may be empty)
          sleeper,  \* the inner operation waits for a stop request
          possible, \* the receiver's token can be stopped
          handle,   \* the erased sender or scheduler is still there
          outer,    \* the operation: "none", "connected", "started", "gone"
          refs,     \* the owners of the inner operation
          owners,   \* the owners of what was erased: the handle, the operation, start()
          inner,    \* the inner operation: "none", "alive", "freed"
          engaged,  \* the token the inner operation sees is the receiver's
          starter,  \* start(): "out", "inside", "left"
          asked,    \* a stop was requested
          outcome,  \* what the receiver got: "none", "value", "error", "stopped"
          box, mem, \* the boxes, and what each place holds
          want,     \* the object each box should hold, 0 for none
          made      \* how many objects were put into boxes

opVars == <<handle, outer, refs, owners, inner, engaged, starter, asked, outcome>>
boxVars == <<box, mem, want, made>>
fixed == <<kind, full, sleeper, possible>>
vars == <<fixed, opVars, boxVars>>

Operations == {"sender", "scheduler", "detached"}

Places == {"buf", "heap"} \X Boxes
Null == <<>>
Gone == [life |-> "gone", ptr |-> Null, heap |-> FALSE, vt |-> FALSE]

Init ==
  /\ kind \in Operations \cup {"any_sender", "any_receiver"}
  /\ full \in IF kind \in {"sender", "scheduler"} THEN BOOLEAN ELSE {TRUE}
  /\ sleeper \in IF kind \in Operations THEN BOOLEAN ELSE {FALSE}
  /\ possible \in IF kind \in Operations THEN BOOLEAN ELSE {FALSE}
  /\ handle = TRUE /\ outer = "none" /\ refs = 0
  /\ owners = IF full THEN {"handle"} ELSE {}
  /\ inner = "none" /\ engaged = FALSE /\ starter = "out" /\ asked = FALSE /\ outcome = "none"
  /\ box = [b \in Boxes |-> Gone] /\ mem = [p \in Places |-> 0]
  /\ want = [b \in Boxes |-> 0] /\ made = 0

-----------------------------------------------------------------------------
(* Operations. *)

(* The token is passed on if it can be stopped; a detached operation has   *)
(* an empty environment.                                                   *)
NeverPasses == FALSE

make_stop_token == possible /\ kind # "detached"

(* connect(): an empty sender throws, an empty scheduler gives an          *)
(* operation that completes with an error; the allocations may throw, and  *)
(* leave nothing behind.                                                   *)
connect ==
  /\ kind \in {"sender", "scheduler"} /\ outer = "none" /\ handle
  /\ kind = "sender" => full
  /\ outer' = "connected"
  /\ IF full
     THEN inner' = "alive" /\ refs' = 1 /\ owners' = owners \cup {"outer"} /\ engaged' = make_stop_token
     ELSE UNCHANGED <<inner, refs, owners, engaged>>
  /\ UNCHANGED <<fixed, boxVars, handle, starter, asked, outcome>>

connect_throws ==
  /\ kind \in {"sender", "scheduler"} /\ outer = "none" /\ handle
  /\ outer' = "gone"
  /\ UNCHANGED <<fixed, boxVars, handle, refs, owners, inner, engaged, starter, asked, outcome>>

(* Dropping one reference; the last one destroys the inner operation. *)
Release ==
  /\ refs' = refs - 1
  /\ inner' = IF refs = 1 THEN "freed" ELSE inner

(* What start() holds on to while the inner operation starts. *)
Holds == IF kind = "sender" THEN {"state", "op"} ELSE {"op"}

start ==
  /\ kind # "detached" /\ outer = "connected" /\ starter = "out"
  /\ outer' = "started" /\ starter' = "inside"
  /\ IF full
     THEN /\ refs' = IF "op" \in Holds THEN refs + 1 ELSE refs
          /\ owners' = IF "state" \in Holds THEN owners \cup {"start"} ELSE owners
          /\ UNCHANGED outcome
     ELSE outcome' = "error" /\ UNCHANGED <<refs, owners>>
  /\ UNCHANGED <<fixed, boxVars, handle, inner, engaged, asked>>

(* start_detached(): a state with one reference for its completion, and    *)
(* one for the call.                                                       *)
start_detached ==
  /\ kind = "detached" /\ starter = "out"
  /\ inner' = "alive" /\ refs' = 2 /\ engaged' = make_stop_token
  /\ outer' = "started" /\ starter' = "inside"
  /\ UNCHANGED <<fixed, boxVars, handle, owners, asked, outcome>>

(* The inner operation completes; a detached one gives up its reference,   *)
(* and an error ends the program.                                          *)
Completions ==
  IF sleeper THEN (IF asked /\ engaged THEN {"stopped"} ELSE {}) ELSE {"value", "error", "stopped"}

complete ==
  /\ inner = "alive" /\ outer = "started" /\ outcome = "none"
  /\ outcome' \in Completions
  /\ IF kind = "detached" /\ outcome' # "error" THEN Release ELSE UNCHANGED <<refs, inner>>
  /\ UNCHANGED <<fixed, boxVars, handle, outer, owners, engaged, starter, asked>>

Terminated == kind = "detached" /\ outcome = "error"

(* The inner start() returns, and start() lets go. *)
leave_start ==
  /\ starter = "inside" /\ ~Terminated
  /\ starter' = "left"
  /\ IF inner = "alive" /\ (kind = "detached" \/ "op" \in Holds) THEN Release ELSE UNCHANGED <<refs, inner>>
  /\ owners' = owners \ {"start"}
  /\ UNCHANGED <<fixed, boxVars, handle, outer, engaged, asked, outcome>>

(* The operation is destroyed, once completed or before it is started. *)
destroy ==
  /\ kind # "detached"
  /\ outer = "connected" \/ (outer = "started" /\ outcome # "none")
  /\ outer' = "gone"
  /\ IF full THEN Release ELSE UNCHANGED <<refs, inner>>
  /\ owners' = owners \ {"outer"}
  /\ UNCHANGED <<fixed, boxVars, handle, engaged, starter, asked, outcome>>

(* The handle goes at any time, moved into connect() or dropped after it. *)
drop_handle ==
  /\ kind \in {"sender", "scheduler"} /\ handle /\ outer # "none"
  /\ handle' = FALSE /\ owners' = owners \ {"handle"}
  /\ UNCHANGED <<fixed, boxVars, outer, refs, inner, engaged, starter, asked, outcome>>

request_stop ==
  /\ kind \in Operations /\ possible /\ ~asked /\ asked' = TRUE
  /\ UNCHANGED <<fixed, boxVars, handle, outer, refs, owners, inner, engaged, starter, outcome>>

-----------------------------------------------------------------------------
(* Boxes.  An object that is small enough is kept in the box's buffer. *)

Free(b) == mem[<<"heap", b>>] = 0

(* The constructor puts the object in place, then fills in the rest: a     *)
(* receiver's stop token is erased too, which may throw.                   *)
emplace(b) ==
  /\ kind \notin Operations /\ made < MaxMade /\ box[b].life = "gone"
  /\ \E heap \in BOOLEAN, h \in {c \in Boxes : Free(c)} :
       LET place == IF heap THEN <<"heap", h>> ELSE <<"buf", b>>
       IN  /\ mem' = [mem EXCEPT ![place] = made + 1]
           /\ box' = [box EXCEPT ![b] = [life |-> "made", ptr |-> place, heap |-> heap, vt |-> FALSE]]
  /\ made' = made + 1
  /\ UNCHANGED <<fixed, opVars, want>>

construct(b) ==
  /\ box[b].life = "made"
  /\ box' = [box EXCEPT ![b].life = "alive", ![b].vt = TRUE]
  /\ want' = [want EXCEPT ![b] = mem[box[b].ptr]]
  /\ UNCHANGED <<fixed, opVars, mem, made>>

construct_throws(b) ==
  /\ kind = "any_receiver" /\ box[b].life = "made"
  /\ mem' = [mem EXCEPT ![box[b].ptr] = 0]
  /\ box' = [box EXCEPT ![b] = Gone]
  /\ UNCHANGED <<fixed, opVars, want, made>>

construct_empty(b) ==
  /\ kind \notin Operations /\ box[b].life = "gone"
  /\ box' = [box EXCEPT ![b] = [Gone EXCEPT !.life = "alive"]]
  /\ UNCHANGED <<fixed, opVars, mem, want, made>>

(* Memory without what the box holds. *)
Reset(m, x) == IF x.ptr # Null /\ x.vt THEN [m EXCEPT ![x.ptr] = 0] ELSE m

Cleared(x) == [Gone EXCEPT !.life = x.life]

(* move_from: the object in a's buffer is moved into b's and destroyed; an *)
(* object on the heap changes hands.                                       *)
move_from(m, b, a) ==
  LET x == box[a]
      place == IF x.heap THEN x.ptr ELSE <<"buf", b>>
  IN  IF x.ptr = Null
      THEN mem' = m /\ box' = [box EXCEPT ![b] = [Gone EXCEPT !.life = "alive"]]
      ELSE /\ mem' = [p \in Places |-> IF p = place THEN m[x.ptr]
                                       ELSE IF p = x.ptr THEN 0 ELSE m[p]]
           /\ box' = [box EXCEPT ![b] = [x EXCEPT !.ptr = place], ![a] = Cleared(x)]

move_construct(b, a) ==
  /\ box[b].life = "gone" /\ box[a].life = "alive"
  /\ move_from(mem, b, a)
  /\ want' = [want EXCEPT ![b] = want[a], ![a] = 0]
  /\ UNCHANGED <<fixed, opVars, made>>

(* Assignment resets the box first, unless it is assigned to itself. *)
ResetFirst(m, x) == Reset(m, x)

assign(b, a) ==
  /\ kind = "any_sender" /\ box[b].life = "alive" /\ box[a].life = "alive"
  /\ IF a = b THEN UNCHANGED <<mem, box, want>>
     ELSE /\ move_from(ResetFirst(mem, box[b]), b, a)
          /\ want' = [want EXCEPT ![b] = want[a], ![a] = 0]
  /\ UNCHANGED <<fixed, opVars, made>>

reset(b) ==
  /\ kind = "any_sender" /\ box[b].life = "alive"
  /\ mem' = Reset(mem, box[b]) /\ box' = [box EXCEPT ![b] = Cleared(box[b])]
  /\ want' = [want EXCEPT ![b] = 0]
  /\ UNCHANGED <<fixed, opVars, made>>

destroy_box(b) ==
  /\ box[b].life = "alive"
  /\ mem' = Reset(mem, box[b]) /\ box' = [box EXCEPT ![b] = Gone]
  /\ want' = [want EXCEPT ![b] = 0]
  /\ UNCHANGED <<fixed, opVars, made>>

-----------------------------------------------------------------------------
Next ==
  \/ connect \/ connect_throws \/ start \/ start_detached \/ complete
  \/ leave_start \/ destroy \/ drop_handle \/ request_stop
  \/ \E b \in Boxes : emplace(b) \/ construct(b) \/ construct_throws(b) \/ construct_empty(b)
                      \/ reset(b) \/ destroy_box(b)
                      \/ \E a \in Boxes : move_construct(b, a) \/ assign(b, a)

(* What was started goes on: the inner start() returns, and an operation   *)
(* that can complete does.                                                 *)
Fairness == WF_vars(complete) /\ WF_vars(leave_start)

Spec == Init /\ [][Next]_vars /\ Fairness

-----------------------------------------------------------------------------
(* While start() runs through the inner operation it is not freed, and     *)
(* nor, for an erased sender, is the sender it was made from, although the *)
(* receiver may already have destroyed the operation and the handle is     *)
(* gone; and when everyone has let go, it is freed.                        *)
OperationOutlivesStart ==
  kind \in Operations =>
    /\ (starter = "inside" /\ full /\ ~Terminated) =>
          inner = "alive" /\ (kind = "sender" => owners # {})
    /\ (outer = "started" /\ full /\ outcome = "none") =>
          inner = "alive" /\ (kind # "detached" => owners # {})
    /\ (inner = "alive") <=> (refs > 0)
    /\ LET left == IF kind = "detached" THEN outcome # "none" /\ ~Terminated ELSE outer = "gone"
       IN  left /\ starter # "inside" => inner # "alive" /\ owners \subseteq {"handle"}

(* Whatever is moved, assigned and destroyed, each box holds the object    *)
(* that was put into it, in its own buffer or in a block no other box has, *)
(* and no object is left behind.                                           *)
BoxesHoldTheirs ==
  /\ \A b \in Boxes :
       LET x == box[b]
       IN  IF x.ptr = Null THEN want[b] = 0 /\ ~x.vt
           ELSE /\ mem[x.ptr] # 0
                /\ ~x.heap => x.ptr = <<"buf", b>>
                /\ x.life = "alive" => x.vt /\ mem[x.ptr] = want[b]
  /\ \A p \in Places : mem[p] # 0 => Cardinality({b \in Boxes : box[b].ptr = p}) = 1

(* A started operation ends: by itself, or because the receiver's stop     *)
(* request reaches the erased operation through the erased token.          *)
Ends ==
  [](outer = "started" /\ inner = "alive" /\ outcome = "none"
        /\ (~sleeper \/ (asked /\ kind # "detached"))
     => <>(outcome # "none"))
=============================================================================
