---------------------------- MODULE StopCallback ----------------------------
(***************************************************************************)
(* What a stop callback promises to the code that registers it: its body   *)
(* runs at most once, only after stop was requested, never in an object    *)
(* that has been destroyed, and a destructor does not return while another *)
(* thread is inside the body.  StopToken implements this module; the       *)
(* components that register callbacks are modelled against it.             *)
(***************************************************************************)
CONSTANTS Callbacks, Threads, NoThread

VARIABLES requested,  \* stop has been requested
          state,      \* "absent", "alive" or "destroyed"
          runner,     \* the thread inside the body
          ran         \* the body has been entered

vars == <<requested, state, runner, ran>>

Init == /\ requested = FALSE
        /\ state = [c \in Callbacks |-> "absent"]
        /\ runner = [c \in Callbacks |-> NoThread]
        /\ ran = [c \in Callbacks |-> FALSE]

Enter(t, c) == /\ runner' = [runner EXCEPT ![c] = t]
               /\ ran' = [ran EXCEPT ![c] = TRUE]

Register(t, c) == /\ state[c] = "absent"
                  /\ state' = [state EXCEPT ![c] = "alive"]
                  /\ IF requested THEN Enter(t, c) ELSE UNCHANGED <<runner, ran>>
                  /\ UNCHANGED requested

Request == ~requested /\ requested' = TRUE /\ UNCHANGED <<state, runner, ran>>

Invoke(t, c) == /\ requested /\ state[c] = "alive" /\ ~ran[c]
                /\ Enter(t, c)
                /\ UNCHANGED <<requested, state>>

Return(c) == /\ runner[c] # NoThread
             /\ runner' = [runner EXCEPT ![c] = NoThread]
             /\ UNCHANGED <<requested, state, ran>>

Destroy(t, c) == /\ state[c] = "alive" /\ runner[c] \in {NoThread, t}
                 /\ state' = [state EXCEPT ![c] = "destroyed"]
                 /\ UNCHANGED <<requested, runner, ran>>

Next == \/ Request
        \/ \E c \in Callbacks : Return(c)
        \/ \E t \in Threads, c \in Callbacks :
             Register(t, c) \/ Invoke(t, c) \/ Destroy(t, c)

Spec == Init /\ [][Next]_vars
=============================================================================
