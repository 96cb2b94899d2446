---------------------------- MODULE MCCompletion ----------------------------
(***************************************************************************)
(* A program that uses one of the two contexts whose transfers are done by *)
(* the system, through a ring or a completion port; which says which one.  *)
(*                                                                         *)
(* On the ring, one frame awaits twice at the same address, or two frames  *)
(* share a submission queue of one entry, and the system refuses one       *)
(* submission.  On the port, two operations use one handle, whose value is *)
(* given to another file once.                                             *)
(***************************************************************************)
EXTENDS Naturals, TLC

CONSTANTS a, b

VARIABLES which, ring, state, frame, poller, iocp, file, record, worker

UR == INSTANCE UringContext WITH
  Frames <- {a, b}, Stoppable <- {a}, Programs <- {a :> 2 @@ b :> 0, a :> 1 @@ b :> 1},
  Entries <- 1, MaxFaults <- 1, HardFails <- TRUE
CP == INSTANCE IocpContext WITH
  Records <- {a, b}, Handles <- {"handle"}, HandleOf <- [r \in {a, b} |-> "handle"], Reopens <- 1

uringV == <<ring, state, frame, poller>>
iocpV == <<iocp, file, record, worker>>

Init ==
  /\ which \in {"uring", "iocp"}
  /\ UR!Init /\ CP!Init
  /\ which = "iocp" => frame[b].left = 0
Next ==
  \/ which = "uring" /\ UR!Next /\ UNCHANGED <<which, iocpV>>
  \/ which = "iocp" /\ CP!Next /\ UNCHANGED <<which, uringV>>
Spec == Init /\ [][Next]_<<which, uringV, iocpV>> /\ UR!Fairness /\ CP!Fairness

-----------------------------------------------------------------------------
(* io_uring_context: the kernel names only frames that wait for it, the    *)
(* coroutine sees what the kernel did, and no published request sleeps.    *)
(* context on a completion port: every packet finds its record, and every  *)
(* receiver is called once, with its stop callback gone.                   *)
CompletionsSound ==
  /\ UR!NoStaleReference /\ UR!OutcomeIsReal /\ UR!NoLostSignal
  /\ CP!PacketsAreOwned /\ CP!CompletesOnce

(* Either context: a stopped operation ends, and after request_stop its    *)
(* thread ends, with nothing left behind.                                  *)
ContextsSettle == []UR!ExitIsDrained /\ UR!Settles /\ CP!Settles
=============================================================================
