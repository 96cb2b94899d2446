----------------------------- MODULE AsyncStream -----------------------------
(***************************************************************************)
(* The type-erased asynchronous streams                                    *)
(* (include/forge/io/async_stream.hpp): a wrapper owns a stream object and *)
(* one erased_awaitable_slot, so that one operation is under way at a      *)
(* time.  The wrapper's owner calls its operations one at a time; the      *)
(* coroutines that await an operation run on threads of their own.         *)
(* Reading and writing differ in nothing that is modelled.                 *)
(***************************************************************************)
EXTENDS Naturals, FiniteSets

CONSTANTS Wrappers,   \* the owning_any_async_*_stream objects
          Awaiters,   \* the coroutines that await
          MaxObjects  \* how many stream objects are ever created

VARIABLES wrapper,  \* each wrapper: its object (0: none), the slot's flag and content
          await,    \* each awaiter's erased_io_awaitable
          objects   \* stream objects allocated so far, and those destroyed

vars == <<wrapper, await, objects>>

NoSlot == "no slot"
Idle == [pc |-> "idle", slot |-> NoSlot, result |-> "none"]
Empty == [active |-> FALSE, holds |-> 0]

Init ==
  /\ wrapper = [w \in Wrappers |-> [object |-> 0, slot |-> Empty]]
  /\ await = [a \in Awaiters |-> Idle]
  /\ objects = [made |-> 0, freed |-> {}]

Owns(w) == wrapper[w].object # 0
Frees(o) == IF o = 0 THEN objects ELSE [objects EXCEPT !.freed = @ \cup {o}]

-----------------------------------------------------------------------------
(* The owner's calls.  A construction that throws gives its memory back.   *)
construct(w) ==
  /\ ~Owns(w) /\ ~wrapper[w].slot.active /\ objects.made < MaxObjects /\ UNCHANGED await
  /\ \/ /\ wrapper' = [wrapper EXCEPT ![w].object = objects.made + 1]
        /\ objects' = [objects EXCEPT !.made = @ + 1]
     \/ /\ objects' = [objects EXCEPT !.made = @ + 1, !.freed = @ \cup {objects.made + 1}] /\ UNCHANGED wrapper

require_inactive(w) == ~wrapper[w].slot.active

take_from(to, from) ==
  /\ wrapper' = [wrapper EXCEPT ![to].object = wrapper[from].object, ![from].object = 0]
  /\ objects' = Frees(wrapper[to].object) /\ UNCHANGED await
assign(to, from) == to # from /\ require_inactive(to) /\ require_inactive(from) /\ take_from(to, from)

(* reset() and the destructor; with an operation under way the one throws  *)
(* and the other terminates the program.                                   *)
reset_object(w) ==
  /\ Owns(w) /\ require_inactive(w) /\ objects' = Frees(wrapper[w].object)
  /\ wrapper' = [wrapper EXCEPT ![w].object = 0] /\ UNCHANGED await

-----------------------------------------------------------------------------
(* read_some / write_some: an empty wrapper and a slot in use answer at    *)
(* once; the stream's own awaitable is made in the slot, or throws.        *)
Answer(a, how) == await' = [await EXCEPT ![a] = [pc |-> "made", slot |-> NoSlot, result |-> how]] /\ UNCHANGED <<wrapper, objects>>
read_some(a, w) ==
  /\ await[a].pc = "idle"
  /\ \/ ~Owns(w) /\ Answer(a, "bad_address")
     \/ Owns(w) /\ wrapper[w].slot.active /\ Answer(a, "operation_in_progress")
     \/ /\ Owns(w) /\ ~wrapper[w].slot.active /\ UNCHANGED objects
        /\ wrapper' = [wrapper EXCEPT ![w].slot.active = TRUE]
        /\ await' = [await EXCEPT ![a] = [pc |-> "emplace", slot |-> w, result |-> "none"]]

emplace(a) ==
  /\ await[a].pc = "emplace" /\ UNCHANGED objects
  /\ LET w == await[a].slot IN
     \/ /\ wrapper' = [wrapper EXCEPT ![w].slot.holds = wrapper[w].object]
        /\ await' = [await EXCEPT ![a].pc = "made"]
     \/ /\ wrapper' = [wrapper EXCEPT ![w].slot.active = FALSE] /\ await' = [await EXCEPT ![a] = Idle]

(* erased_awaitable_slot::reset: the awaitable is destroyed, then the slot *)
(* is given back.                                                          *)
reset(a) ==
  /\ UNCHANGED objects
  /\ \/ /\ await[a].pc = "reset1" /\ await' = [await EXCEPT ![a].pc = "reset2"]
        /\ wrapper' = [wrapper EXCEPT ![await[a].slot].slot.holds = 0]
     \/ /\ await[a].pc = "reset2" /\ await' = [await EXCEPT ![a] = Idle]
        /\ wrapper' = [wrapper EXCEPT ![await[a].slot].slot.active = FALSE]

At(a, from, to) == await[a].pc = from /\ await' = [await EXCEPT ![a].pc = to] /\ UNCHANGED <<wrapper, objects>>

(* An awaitable dropped before it was awaited gives the slot back; one     *)
(* dropped while its operation is under way terminates the program.        *)
abandon_unstarted(a) ==
  \/ await[a].slot # NoSlot /\ At(a, "made", "reset1")
  \/ await[a].pc = "made" /\ await[a].slot = NoSlot /\ await' = [await EXCEPT ![a] = Idle] /\ UNCHANGED <<wrapper, objects>>

await_ready(a) ==
  \/ /\ await[a].pc = "made" /\ await[a].slot = NoSlot
     /\ await' = [await EXCEPT ![a] = Idle] /\ UNCHANGED <<wrapper, objects>>
  \/ await[a].slot # NoSlot /\ (At(a, "made", "resume") \/ At(a, "made", "suspend") \/ At(a, "made", "reset1"))
await_suspend(a) == At(a, "suspend", "pending") \/ At(a, "suspend", "resume") \/ At(a, "suspend", "reset1")
Completion(a) == At(a, "pending", "resume")
await_resume(a) == At(a, "resume", "reset1")

-----------------------------------------------------------------------------
OwnerStep ==
  \/ \E w \in Wrappers : construct(w) \/ reset_object(w) \/ \E from \in Wrappers : assign(w, from)
  \/ \E a \in Awaiters, w \in Wrappers : read_some(a, w)
Started(a) == emplace(a) \/ await_suspend(a) \/ Completion(a) \/ await_resume(a) \/ reset(a)
Next == OwnerStep \/ \E a \in Awaiters : Started(a) \/ abandon_unstarted(a) \/ await_ready(a)

(* A started operation goes on; an awaitable may be kept unawaited.        *)
Fairness == \A a \in Awaiters : WF_vars(Started(a))

Spec == Init /\ [][Next]_vars /\ Fairness

-----------------------------------------------------------------------------
(* The awaitable in a slot refers to the stream object that its wrapper    *)
(* still owns and that has not been destroyed, through every move and      *)
(* reset; one awaiter at a time uses the slot's storage; and every object  *)
(* is owned by one wrapper until it is destroyed, so none leaks.           *)
Uses(a, w) == await[a].slot = w /\ await[a].pc # "idle"
OperationKeepsStream ==
  /\ \A w \in Wrappers :
       /\ wrapper[w].slot.holds # 0 => wrapper[w].slot.active /\ wrapper[w].slot.holds = wrapper[w].object
       /\ Cardinality({a \in Awaiters : Uses(a, w)}) <= 1
       /\ Owns(w) => wrapper[w].object \notin objects.freed
  /\ \A a \in Awaiters, w \in Wrappers :
       Uses(a, w) /\ await[a].pc \in {"made", "suspend", "pending", "resume"} => wrapper[w].slot.holds # 0
  /\ {wrapper[w].object : w \in Wrappers} \ {0} = (1..objects.made) \ objects.freed

(* A slot whose operation was started becomes free again.                  *)
SlotIsFreed == \A a \in Awaiters : []<>(await[a].pc \in {"idle", "made"})
=============================================================================
