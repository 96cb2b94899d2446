--------------------------- MODULE MCEpollContext ---------------------------
EXTENDS EpollContext

(* Two operations that wait for the two directions of one descriptor.      *)
BothWays == [o \in Ops |-> IF o = CHOOSE x \in Ops : TRUE THEN "read" ELSE "write"]
OneFd == [o \in Ops |-> CHOOSE f \in Fds : TRUE]

(* The kernel watches what the registry holds unless epoll_ctl failed, and *)
(* when ~__op has returned no other thread touches the operation.          *)
RegistryExact == InterestMatches /\ DestroyIsBarrier
=============================================================================
