---------------------------- MODULE ChannelFifo ----------------------------
(***************************************************************************)
(* What bounded_channel promises about values: they are received in the    *)
(* order in which they entered the channel.  q holds the values inside the *)
(* channel, buffered or carried by a waiting sender; got the values        *)
(* received, in order.                                                     *)
(***************************************************************************)
EXTENDS LinkedList

CONSTANT Values

VARIABLES q, got, open
vars == <<q, got, open>>

Init == q = <<>> /\ got = <<>> /\ open = TRUE

(* A value enters, or goes straight to a waiting receiver. *)
Accept(v) == open /\ q' = Append(q, v) /\ UNCHANGED <<got, open>>
Pass(v)   == open /\ q = <<>> /\ got' = Append(got, v) /\ UNCHANGED <<q, open>>

(* The oldest value is received; the sender behind it may fail meanwhile.  *)
Take == /\ q # <<>> /\ got' = Append(got, Head(q)) /\ UNCHANGED open
        /\ \/ q' = Tail(q)
           \/ \E v \in Elems(Tail(q)) : q' = Unlink(Tail(q), v)

(* A waiting sender gives up. *)
Withdraw(v) == v \in Elems(q) /\ q' = Unlink(q, v) /\ UNCHANGED <<got, open>>

(* close() keeps the buffered prefix, request_stop() nothing. *)
Shut == /\ open' = FALSE /\ UNCHANGED got
        /\ \E n \in 0..Len(q) : q' = SubSeq(q, 1, n)

Next == \/ Take \/ Shut
        \/ \E v \in Values : Accept(v) \/ Pass(v) \/ Withdraw(v)

Spec == Init /\ [][Next]_vars
=============================================================================
