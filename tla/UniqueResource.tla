--------------------------- MODULE UniqueResource ---------------------------
(***************************************************************************)
(* std::unique_resource (backport/experimental/unique_resource.hpp): a     *)
(* resource, its deleter and whether the one is to be called on the other. *)
(*                                                                         *)
(* nothrow says which of the two members have moves that cannot throw; a   *)
(* member that may throw is copied instead, and each copy may fail.  What  *)
(* is moved from becomes "moved": to call a moved deleter, or any deleter  *)
(* on a moved resource, is an error that shows in freed.  An operation is  *)
(* one step, with an outcome for every place where it can throw.           *)
(***************************************************************************)
EXTENDS Naturals, Sequences, FiniteSets

CONSTANTS Holders,  \* unique_resource objects
          Handles,  \* resources, each acquired once by the program
          Deleters

VARIABLES nothrow,  \* members with moves that cannot throw
          held,     \* the objects
          freed,    \* the deleters called on each resource
          owner     \* what is to become of each resource

urvars == <<nothrow, held, freed, owner>>

Invalid == "invalid"
Dead == [live |-> FALSE, resource |-> Invalid, deleter |-> "moved", armed |-> FALSE]

Init ==
  /\ nothrow \in SUBSET {"resource", "deleter"}
  /\ held = [u \in Holders |-> Dead]
  /\ freed = [h \in Handles \cup {Invalid, "moved"} |-> <<>>]
  /\ owner = [h \in Handles |-> "program"]

-----------------------------------------------------------------------------
(* The steps of an operation, on the objects and the calls made so far.    *)
Now == [held |-> held, freed |-> freed]
Becomes(s) == held' = s.held /\ freed' = s.freed /\ UNCHANGED nothrow

Invoke(s, d, h) == [s EXCEPT !.freed[h] = Append(@, d)]

release(s, u) == [s EXCEPT !.held[u].armed = FALSE]

reset(s, u) ==
  IF s.held[u].armed
  THEN Invoke(release(s, u), s.held[u].deleter, s.held[u].resource)
  ELSE s

(* A member of one object is moved into another, or copied if moving it    *)
(* may throw.                                                              *)
Transfer(s, part, from, to) ==
  LET left == IF part \in nothrow THEN [s EXCEPT !.held[from][part] = "moved"] ELSE s
  IN  [left EXCEPT !.held[to][part] = s.held[from][part]]

(* armed = std::exchange(other.armed, false) *)
HandOver(s, from, to) == [release(s, from) EXCEPT !.held[to].armed = s.held[from].armed]

-----------------------------------------------------------------------------
default_construct(u, d) ==
  /\ ~held[u].live
  /\ Becomes([Now EXCEPT !.held[u] = [live |-> TRUE, resource |-> Invalid, deleter |-> d, armed |-> FALSE]])
  /\ UNCHANGED owner

(* The constructor from a resource and a deleter: if the copy of either    *)
(* fails, the deleter that was passed in is called on the resource.        *)
construct(u, h, d, armed) ==
  /\ ~held[u].live
  /\ \/ Becomes([Now EXCEPT !.held[u] = [live |-> TRUE, resource |-> h, deleter |-> d, armed |-> armed]])
     \/ nothrow # {"resource", "deleter"} /\ Becomes(IF armed THEN Invoke(Now, d, h) ELSE Now)

Construct(u, h, d) ==
  /\ owner[h] = "program" /\ owner' = [owner EXCEPT ![h] = d]
  /\ construct(u, h, d, TRUE)

make_unique_resource_checked(u, h, d) ==
  /\ h # Invalid => owner[h] = "program"
  /\ owner' = IF h = Invalid THEN owner ELSE [owner EXCEPT ![h] = d]
  /\ construct(u, h, d, h # Invalid)

(* The move constructor.  When the copy of the deleter fails after the     *)
(* resource has been moved out, the resource is deleted on the spot.       *)
construct_deleter_from_other(s, from, h) ==
  IF "resource" \in nothrow /\ s.held[from].armed
  THEN release(Invoke(s, s.held[from].deleter, h), from)
  ELSE s

move_construct(u, from) ==
  LET s1 == Transfer(Now, "resource", from, u)
      s2 == Transfer(s1, "deleter", from, u)
      failed == construct_deleter_from_other(s1, from, s1.held[u].resource)
  IN  /\ ~held[u].live /\ held[from].live
      /\ \/ Becomes([HandOver(s2, from, u) EXCEPT !.held[u].live = TRUE])
         \/ "resource" \notin nothrow /\ Becomes(Now)
         \/ "deleter" \notin nothrow /\ Becomes([failed EXCEPT !.held[u] = Dead])
      /\ UNCHANGED owner

(* operator=: reset, then the member that may throw is assigned first.     *)
ResourceFirst == <<"resource", "deleter">>
AssignOrder == IF nothrow = {"resource"} THEN <<"deleter", "resource">> ELSE <<"resource", "deleter">>

move_assign(u, from) ==
  LET s0 == reset(Now, u)
      s1 == Transfer(s0, AssignOrder[1], from, u)
      s2 == Transfer(s1, AssignOrder[2], from, u)
  IN  /\ held[u].live /\ held[from].live
      /\ \/ Becomes(HandOver(s2, from, u))
         \/ AssignOrder[1] \notin nothrow /\ Becomes(s0)
         \/ AssignOrder[2] \notin nothrow /\ Becomes(s1)
      /\ UNCHANGED owner

(* reset(r), on an object that has a deleter. *)
reset_to(u, h) ==
  LET s == reset(Now, u)
      d == held[u].deleter
  IN  /\ held[u].live /\ d # "moved" /\ owner[h] = "program"
      /\ owner' = [owner EXCEPT ![h] = d]
      /\ \/ Becomes([s EXCEPT !.held[u].resource = h, !.held[u].armed = TRUE])
         \/ "resource" \notin nothrow /\ Becomes(Invoke(s, d, h))

swap(u, v) ==
  /\ u # v /\ held[u].live /\ held[v].live /\ nothrow = {"resource", "deleter"}
  /\ Becomes([Now EXCEPT !.held[u] = held[v], !.held[v] = held[u]])
  /\ UNCHANGED owner

Reset(u) == held[u].live /\ Becomes(reset(Now, u)) /\ UNCHANGED owner

Release(u) ==
  /\ held[u].live /\ Becomes(release(Now, u))
  /\ owner' = IF held[u].armed THEN [owner EXCEPT ![held[u].resource] = "released"] ELSE owner

destroy(u) ==
  /\ held[u].live /\ Becomes([reset(Now, u) EXCEPT !.held[u] = Dead])
  /\ UNCHANGED owner

Next ==
  \E u \in Holders :
    \/ Reset(u) \/ Release(u) \/ destroy(u)
    \/ \E v \in Holders : move_construct(u, v) \/ move_assign(u, v) \/ swap(u, v)
    \/ \E h \in Handles : reset_to(u, h)
    \/ \E d \in Deleters :
         \/ default_construct(u, d)
         \/ \E h \in Handles : Construct(u, h, d)
         \/ \E h \in Handles \cup {Invalid} : make_unique_resource_checked(u, h, d)

Spec == Init /\ [][Next]_urvars

-----------------------------------------------------------------------------
Armed(h) == {u \in Holders : held[u].live /\ held[u].armed /\ held[u].resource = h}

(* Whatever throws: a resource that was handed over is either armed in     *)
(* exactly one object, beside its own deleter, or that deleter has been    *)
(* called on it exactly once; a released or invalid one is never deleted,  *)
(* and nothing moved from is ever used.                                    *)
DeletedOnce ==
  /\ \A h \in Handles :
       \/ owner[h] \in {"program", "released"} /\ Armed(h) = {} /\ freed[h] = <<>>
       \/ /\ owner[h] \in Deleters
          /\ \/ Armed(h) = {} /\ freed[h] = <<owner[h]>>
             \/ /\ Cardinality(Armed(h)) = 1 /\ freed[h] = <<>>
                /\ \A u \in Armed(h) : held[u].deleter = owner[h]
  /\ freed[Invalid] = <<>> /\ freed["moved"] = <<>>
=============================================================================
