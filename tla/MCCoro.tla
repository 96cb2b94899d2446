------------------------------- MODULE MCCoro -------------------------------
(***************************************************************************)
(* A program that uses one of the coroutine facilities, which says which:  *)
(* an io_task chain, when_all, when_any or with_timeout over two io_tasks, *)
(* the synchronous streams, the type-erased asynchronous ones, or          *)
(* forge::task.                                                            *)
(*                                                                         *)
(* The chain is a root that awaits a sender, a task that awaits a sender,  *)
(* and a sender again, on three threads.  The readers put an error at the  *)
(* end of a step's bytes, in an empty step and between steps, and split    *)
(* records over steps.                                                     *)
(***************************************************************************)
EXTENDS Naturals, Sequences, TLC

CONSTANTS a, b, c

VARIABLES which, link, frame, chainOp, agent, owner, body,
          kind, shared, child, op,
          reader, writer, handle, call, log,
          wrapper, awaits, objects,
          thread, coro, await, taskOp

Step(bytes, fails) == [kind |-> "bytes", bytes |-> bytes, fails |-> fails]
End(how) == [kind |-> how, bytes |-> <<>>, fails |-> FALSE]
Scripts ==
  { <<Step(<<"x", "nl">>, TRUE), Step(<<"y">>, FALSE), Step(<<>>, FALSE), Step(<<"x">>, FALSE)>>,
    <<Step(<<>>, TRUE), Step(<<"x", "y">>, FALSE), End("error"), Step(<<"y">>, FALSE), End("eof")>>,
    <<Step(<<"x", "y", "x">>, FALSE), Step(<<"nl">>, TRUE), Step(<<"nl">>, FALSE)>> }
InMemory(max) == [kind |-> "memory", bytes |-> <<"x", "nl", "y", "x">>, max |-> max]

CH == INSTANCE CoroChain WITH
  op <- chainOp, Agents <- {a, b, c}, Depth <- 2, Bodies <- {<< <<"sender", "task", "sender">>, <<"sender">> >>}
CB == INSTANCE IoCombinators
ST == INSTANCE Streams WITH
  Readers <- {[kind |-> "scripted", steps |-> s] : s \in Scripts} \cup {InMemory(max) : max \in {0, 1, 3}},
  Writers <- [capacity : {0, 3}, borrowed : BOOLEAN], Payloads <- {<<>>, <<"x">>, <<"x", "y">>},
  Delimiter <- "nl", MaxWant <- 3, MaxCalls <- 3
AS == INSTANCE AsyncStream WITH
  await <- awaits, Wrappers <- {a, b}, Awaiters <- {a, b}, MaxObjects <- 3
TK == INSTANCE Task WITH op <- taskOp, Threads <- {a, b, c}, Awaits <- 3

chainV == <<link, frame, chainOp, agent, owner, body>>
combV == <<kind, shared, child, op>>
streamV == <<reader, writer, handle, call, log>>
asyncV == <<wrapper, awaits, objects>>
taskV == <<thread, coro, await, taskOp>>

Init ==
  /\ which \in {"chain", "combinators", "streams", "async", "task"}
  /\ CH!Init /\ CB!Init /\ ST!Init /\ AS!Init /\ TK!Init
  /\ which # "combinators" => kind = "all"
  /\ which # "streams" => reader = InMemory(0) /\ writer.capacity = 0 /\ ~writer.borrowed
Next ==
  \/ which = "chain" /\ CH!Next /\ UNCHANGED <<which, combV, streamV, asyncV, taskV>>
  \/ which = "combinators" /\ CB!Next /\ UNCHANGED <<which, chainV, streamV, asyncV, taskV>>
  \/ which = "streams" /\ ST!Next /\ UNCHANGED <<which, chainV, combV, asyncV, taskV>>
  \/ which = "async" /\ AS!Next /\ UNCHANGED <<which, chainV, combV, streamV, taskV>>
  \/ which = "task" /\ TK!Next /\ UNCHANGED <<which, chainV, combV, streamV, asyncV>>
Spec ==
  /\ Init /\ [][Next]_<<which, chainV, combV, streamV, asyncV, taskV>>
  /\ CH!Fairness /\ CB!Fairness /\ AS!Fairness /\ TK!Fairness

-----------------------------------------------------------------------------
(* io_task: no thread touches a frame of a destroyed chain, one thread at  *)
(* a time runs the chain, and no completion of a sender is lost.           *)
ChainSound == CH!FramesOutliveThreads /\ CH!OneThreadRuns /\ CH!NoLostCompletion

(* io when_all, when_any and with_timeout complete once, decided by the    *)
(* children in the order in which they ended; the streams conserve bytes   *)
(* and keep to their contracts, an erased operation keeps its stream, and  *)
(* a forge::task resumes once per sender.                                  *)
OutcomesExact == CB!OutcomeOfChildren /\ ST!BytesConserved /\ AS!OperationKeepsStream /\ TK!TaskSound

(* Whatever was started ends: the destruction of a chain, a combinator     *)
(* that is decided, an erased operation, a task.                           *)
CoroutinesEnd == CH!DestructionEnds /\ CB!Settles /\ AS!SlotIsFreed /\ TK!TaskCompletes
=============================================================================
