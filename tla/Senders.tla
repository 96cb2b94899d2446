------------------------------ MODULE Senders ------------------------------
(***************************************************************************)
(* The sender adaptors of the execution backport.  A sender is the tree of *)
(* calls that built it.  Connecting it to a receiver and starting it is    *)
(* run one completion at a time over a stack of operation states, whose    *)
(* top is the operation that acts now; "at" is the execution context the   *)
(* code runs on.  Values are abstracted to their types, because what the   *)
(* adaptors must agree on is which completions they declare, where they    *)
(* complete and which environment they show to their children.             *)
(***************************************************************************)
EXTENDS Naturals, FiniteSets, Sequences, SequencesExt

CONSTANTS Senders,      \* the sender expressions that are started
          Envs,         \* the environments of the final receiver
          Schedulers    \* scheduler name -> [kind, home]

VARIABLES root,         \* the sender that was started and its environment
          stack,        \* its operation states, innermost last
          doing,        \* "start" the top operation, "complete" it, or "done"
          sig,          \* the completion being delivered
          at,           \* the execution context that runs now
          asked         \* whether a stop was requested on the receiver's token

vars == <<root, stack, doing, sig, at, asked>>

-----------------------------------------------------------------------------
\* Types, completions and sets of completion signatures.
Number == <<"int">>
Heavy == <<"heavy">>          \* a type whose copies may throw
Eptr == <<"exception_ptr">>
Ref(t) == <<"&", t>>
IsRef(t) == t[1] = "&"
decay(t) == IF IsRef(t) THEN t[2] ELSE t
Decayed(args) == [i \in DOMAIN args |-> decay(args[i])]
NothrowStored(args) == Ref(Heavy) \notin ToSet(args)
\* A payload that does not fit the operation's storage is allocated.
PayloadMayThrow(args) == \E i \in DOMAIN args : decay(args[i]) = Heavy

set_value(args) == [ch |-> "value", args |-> args]
set_error(e) == [ch |-> "error", args |-> <<e>>]
set_stopped == [ch |-> "stopped", args |-> <<>>]

eptr_if(b) == IF b THEN {set_error(Eptr)} ELSE {}
of_channel(cs, ch) == {c \in cs : c.ch = ch}
non_value_completion_signatures(cs) == {c \in cs : c.ch # "value"}
concat_unique_cs(css) == UNION css
decayed_completions(cs) == {[c EXCEPT !.args = Decayed(@)] : c \in cs}
value_types(cs) == {Decayed(c.args) : c \in of_channel(cs, "value")}
value_completion_count(cs) == Cardinality(of_channel(cs, "value"))
has_stopped(cs) == set_stopped \in cs

\* What a function returning T, or void, makes of a completion.
value_sig_from_result(gives) == set_value(gives)

-----------------------------------------------------------------------------
\* Environments.  "none" is a query the environment does not answer.
None == [name |-> "none", never |-> FALSE]
Plain(name) == [name |-> name, never |-> FALSE]
prop(over, base) == IF over = None THEN base ELSE over
joined_env(over, base) ==
    [scheduler |-> prop(over.scheduler, base.scheduler),
     start     |-> prop(over.start, base.start),
     token     |-> IF over.token = "none" THEN base.token ELSE over.token]
scheduler_env(sch) == [scheduler |-> sch, start |-> sch, token |-> "none"]
never_env == [scheduler |-> None, start |-> None, token |-> "never"]
\* get_stop_token falls back to never_stop_token.
unstoppable_token(env) == env.token \in {"never", "none"}
stop_requested(env) == asked /\ ~unstoppable_token(env)

-----------------------------------------------------------------------------
\* The expressions.
just(args) == [op |-> "just", args |-> Decayed(args)]
just_error(e) == [op |-> "just_error", error |-> decay(e)]
just_stopped == [op |-> "just_stopped"]
read_env(gives, throws) == [op |-> "read_env", gives |-> gives, throws |-> throws]
then(s, gives, throws) == [op |-> "then", of |-> s, gives |-> gives, throws |-> throws]
upon_error(s, gives, throws) == [op |-> "upon_error", of |-> s, gives |-> gives, throws |-> throws]
upon_stopped(s, gives, throws) == [op |-> "upon_stopped", of |-> s, gives |-> gives, throws |-> throws]
let_value(s, into) == [op |-> "let", of |-> s, which |-> "value", into |-> into]
let_error(s, into) == [op |-> "let", of |-> s, which |-> "error", into |-> into]
let_stopped(s, into) == [op |-> "let", of |-> s, which |-> "stopped", into |-> into]
into_variant(s) == [op |-> "into_variant", of |-> s]
stopped_as_optional(s) == [op |-> "stopped_as_optional", of |-> s]
stopped_as_error(s, e) == [op |-> "stopped_as_error", of |-> s, error |-> decay(e)]
bulk(s, shape, chunked, throws) ==
    [op |-> "bulk", of |-> s, shape |-> shape, chunked |-> chunked, throws |-> throws]
write_env(s, over) == [op |-> "write_env", of |-> s, over |-> over]
unstoppable(s) == write_env(s, never_env)
schedule_from(s) == [op |-> "schedule_from", of |-> s]
schedule(sch) ==
    LET plain == [op |-> "schedule", on |-> sch.name]
    IN  IF sch.never THEN unstoppable(plain) ELSE plain
continues_on(s, sch) == [op |-> "continues_on", of |-> schedule_from(s), sch |-> sch]
starts_on(sch, s) == [op |-> "starts_on", of |-> s, sch |-> sch]
on(sch, s) == [op |-> "on", of |-> s, sch |-> sch]
on_closure(s, sch, closure) == [op |-> "on_closure", of |-> s, sch |-> sch, closure |-> closure]
affine(s) == [op |-> "affine", of |-> s]

transfer_just(sch, args) == continues_on(just(args), sch)
Apply(closure, s) == [closure EXCEPT !.of = s]

-----------------------------------------------------------------------------
\* Sender attributes: the scheduler advertised for a channel.
schedule_attrs(name, ch) ==
    IF ch = "value" \/ (ch = "stopped" /\ Schedulers[name].kind = "run_loop")
    THEN Plain(name) ELSE None
completion_attrs(s, ch) == IF ch \in {"value", "stopped"} THEN s.sch ELSE None

RECURSIVE get_completion_scheduler(_, _)
get_completion_scheduler(s, ch) ==
    CASE s.op = "schedule" -> schedule_attrs(s.on, ch)
      [] s.op = "continues_on" -> completion_attrs(s, ch)
      [] s.op \in {"just", "just_error", "just_stopped", "read_env", "on", "affine"} -> None
      [] OTHER -> get_completion_scheduler(s.of, ch)

\* The sender that on and affine connect to a receiver with environment env.
composed_on(s, env) == continues_on(starts_on(s.sch, s.of), env.start)
StaysAway(s) == continues_on(Apply(s.closure, continues_on(s.of, s.sch)), s.sch)
composed_on_closure(s) ==
    continues_on(Apply(s.closure, continues_on(s.of, s.sch)),
                 get_completion_scheduler(s.of, "value"))
unstoppable_scheduler(sch) == [sch EXCEPT !.never = TRUE]
composed_affine(s, env) == continues_on(s.of, unstoppable_scheduler(env.start))

\* The environment shown to the inner sender of let_*, to the child of
\* starts_on and to the child of write_env.
let_env(s, env) == joined_env(scheduler_env(get_completion_scheduler(s.of, s.which)), env)
starts_on_env(s, env) == joined_env(scheduler_env(s.sch), env)

-----------------------------------------------------------------------------
\* Completion signatures, computed from the sender and the environment.
schedule_cs(name, env) ==
    CASE Schedulers[name].kind = "inline" -> {set_value(<<>>)}
      [] Schedulers[name].kind = "pool" -> {set_value(<<>>), set_stopped}
      [] Schedulers[name].kind = "run_loop" ->
            {set_value(<<>>)} \cup (IF unstoppable_token(env) THEN {} ELSE {set_stopped})
      [] Schedulers[name].kind = "any" -> {set_value(<<>>), set_error(Eptr), set_stopped}

then_cs(s, up) ==
    {IF c.ch = "value" THEN value_sig_from_result(s.gives) ELSE c : c \in up}
    \cup eptr_if(s.throws /\ of_channel(up, "value") # {})

upon_cs(s, up, ch) ==
    {IF c.ch = ch THEN value_sig_from_result(s.gives) ELSE c : c \in up}
    \cup eptr_if(s.throws /\ of_channel(up, ch) # {})

let_cs(s, up, inner) ==
    LET handles_completion == of_channel(up, s.which) # {}
    IN  concat_unique_cs({up \ of_channel(up, s.which),
                          IF handles_completion THEN inner ELSE {},
                          eptr_if(handles_completion)})

variant_of(cs) == <<"variant", value_types(cs)>>
into_variant_cs(up) ==
    LET values == of_channel(up, "value")
    IN  concat_unique_cs({IF values = {} THEN {} ELSE {set_value(<<variant_of(up)>>)},
                          non_value_completion_signatures(up),
                          eptr_if(\E c \in values : ~NothrowStored(c.args))})

optional_of(args) ==
    <<"optional", IF Len(args) = 1 THEN decay(args[1]) ELSE <<"tuple", Decayed(args)>>>>
valid_optional_cs(up) ==
    /\ value_completion_count(up) = 1
    /\ \A c \in of_channel(up, "value") : c.args # <<>>
optional_t(up) == optional_of((CHOOSE c \in up : c.ch = "value").args)
optional_cs(up) ==
    concat_unique_cs({(up \ of_channel(up, "value")) \ {set_stopped},
                      {set_value(<<optional_t(up)>>)},
                      eptr_if(\E c \in of_channel(up, "value") : ~NothrowStored(c.args))})

error_cs(s, up) ==
    (up \ {set_stopped}) \cup (IF has_stopped(up) THEN {set_error(s.error)} ELSE {})

bulk_cs(s, up) == up \cup eptr_if(s.throws /\ of_channel(up, "value") # {})

continues_on_cs(up, sched) ==
    concat_unique_cs({decayed_completions(up), non_value_completion_signatures(sched),
                      {set_error(Eptr)}})

starts_on_cs(child, sched) == child \cup non_value_completion_signatures(sched)

RECURSIVE get_completion_signatures(_, _)
get_completion_signatures(s, env) ==
    LET up == get_completion_signatures(s.of, env)
    IN  CASE s.op = "just" -> {set_value(s.args)}
          [] s.op = "just_error" -> {set_error(s.error)}
          [] s.op = "just_stopped" -> {set_stopped}
          [] s.op = "read_env" -> {set_value(s.gives)} \cup eptr_if(s.throws)
          [] s.op = "schedule" -> schedule_cs(s.on, env)
          [] s.op = "then" -> then_cs(s, up)
          [] s.op = "upon_error" -> upon_cs(s, up, "error")
          [] s.op = "upon_stopped" -> upon_cs(s, up, "stopped")
          [] s.op = "let" ->
                let_cs(s, up, get_completion_signatures(s.into, let_env(s, env)))
          [] s.op = "into_variant" -> into_variant_cs(up)
          [] s.op = "stopped_as_optional" -> optional_cs(up)
          [] s.op = "stopped_as_error" -> error_cs(s, up)
          [] s.op = "bulk" -> bulk_cs(s, up)
          [] s.op = "write_env" -> get_completion_signatures(s.of, joined_env(s.over, env))
          [] s.op = "schedule_from" -> up
          [] s.op = "continues_on" ->
                continues_on_cs(up, get_completion_signatures(schedule(s.sch), env))
          [] s.op = "starts_on" ->
                starts_on_cs(get_completion_signatures(s.of, starts_on_env(s, env)),
                             get_completion_signatures(schedule(s.sch), env))
          [] s.op = "on" -> get_completion_signatures(composed_on(s, env), env)
          [] s.op = "on_closure" -> get_completion_signatures(composed_on_closure(s), env)
          [] s.op = "affine" -> get_completion_signatures(composed_affine(s, env), env)

\* The requirements a program must meet to compile.
RECURSIVE Connectable(_, _)
Connectable(s, env) ==
    CASE s.op \in {"just", "just_error", "just_stopped", "read_env", "schedule"} -> TRUE
      [] s.op = "stopped_as_optional" ->
            Connectable(s.of, env) /\ valid_optional_cs(get_completion_signatures(s.of, env))
      [] s.op = "let" ->
            /\ Connectable(s.of, env)
            /\ Connectable(s.into, let_env(s, env))
      [] s.op = "write_env" -> Connectable(s.of, joined_env(s.over, env))
      [] s.op = "continues_on" ->
            /\ Connectable(s.of, env)
            /\ value_completion_count(get_completion_signatures(s.of, env)) <= 1
      [] s.op = "starts_on" -> Connectable(s.of, starts_on_env(s, env))
      [] s.op = "on" -> env.start # None /\ Connectable(composed_on(s, env), env)
      [] s.op = "on_closure" ->
            /\ get_completion_scheduler(s.of, "value") # None
            /\ Connectable(composed_on_closure(s), env)
      [] s.op = "affine" -> env.start # None /\ Connectable(composed_affine(s, env), env)
      [] OTHER -> Connectable(s.of, env)

-----------------------------------------------------------------------------
\* Operation states.  "step" is which of its children an operation waits for,
\* "held" the completion that continues_on stores while it is scheduling.
Operation(s, env) ==
    [snd |-> s, env |-> env, held |-> set_stopped,
     step |-> IF s.op = "starts_on" THEN "scheduling" ELSE "child"]

Top == Last(stack)

\* An erased scheduler hands on nothing of the environment but the token.
erased_env(env) == [scheduler |-> None, start |-> None, token |-> env.token]
erased_over(s) == Schedulers[s.on].over

\* The child an operation starts and the environment it shows to it.
ChildOf(o) ==
    CASE o.snd.op = "schedule" -> schedule(Plain(erased_over(o.snd)))
      [] o.snd.op = "starts_on" -> schedule(o.snd.sch)
      [] o.snd.op = "on" -> composed_on(o.snd, o.env)
      [] o.snd.op = "on_closure" -> composed_on_closure(o.snd)
      [] o.snd.op = "affine" -> composed_affine(o.snd, o.env)
      [] OTHER -> o.snd.of
ChildEnv(o) ==
    CASE o.snd.op = "schedule" -> erased_env(o.env)
      [] o.snd.op = "write_env" -> joined_env(o.snd.over, o.env)
      [] OTHER -> o.env

\* Senders that complete inside start.
read_env_start(o) == {set_value(o.snd.gives)} \cup eptr_if(o.snd.throws)
any_start(o) == IF erased_over(o.snd) = "none" THEN {set_error(Eptr)} ELSE {}
CompletesInStart(o) ==
    CASE o.snd.op = "just" -> {set_value(o.snd.args)}
      [] o.snd.op = "just_error" -> {set_error(o.snd.error)}
      [] o.snd.op = "just_stopped" -> {set_stopped}
      [] o.snd.op = "read_env" -> read_env_start(o)
      [] o.snd.op = "schedule" ->
            CASE Schedulers[o.snd.on].kind = "inline" -> {set_value(<<>>)}
              [] Schedulers[o.snd.on].kind = "pool" -> {set_stopped}
              [] Schedulers[o.snd.on].kind = "any" -> any_start(o)
              [] OTHER -> {}
      [] OTHER -> {}

\* Schedulers that queue the operation.  A pool looks at the token first, and
\* may still refuse the operation (CompletesInStart), because it is full, shut
\* down or out of memory.
Queues(o) ==
    /\ o.snd.op = "schedule"
    /\ \/ Schedulers[o.snd.on].kind = "pool" /\ ~stop_requested(o.env)
       \/ Schedulers[o.snd.on].kind = "run_loop"

\* What the queued operation completes with when its context reaches it.
Execute(o) ==
    IF Schedulers[o.snd.on].kind = "run_loop" /\ stop_requested(o.env)
    THEN set_stopped ELSE set_value(<<>>)

-----------------------------------------------------------------------------
\* Receivers: what an operation does when its child completes with c, which is
\* to complete itself or to start another child.
Deliver(c) == [start |-> FALSE, sig |-> c]
DeliverAny(cs) == {Deliver(c) : c \in cs}
Launch(o, s, env) == [start |-> TRUE, self |-> o, child |-> Operation(s, env)]

then_receiver(o, c) ==
    IF c.ch = "value"
    THEN DeliverAny({value_sig_from_result(o.snd.gives)} \cup eptr_if(o.snd.throws))
    ELSE {Deliver(c)}

upon_receiver(o, c, ch) ==
    IF c.ch = ch
    THEN DeliverAny({value_sig_from_result(o.snd.gives)} \cup eptr_if(o.snd.throws))
    ELSE {Deliver(c)}

\* start_inner: storing the arguments, the function or the connect may throw.
start_inner(o) ==
    {Launch([o EXCEPT !.step = "inner"], o.snd.into, let_env(o.snd, o.env)),
     Deliver(set_error(Eptr))}
let_receiver(o, c) ==
    IF o.step = "child" /\ c.ch = o.snd.which THEN start_inner(o) ELSE {Deliver(c)}

into_variant_receiver(o, c) ==
    IF c.ch = "value"
    THEN DeliverAny({set_value(<<variant_of(get_completion_signatures(o.snd.of, o.env))>>)}
                    \cup eptr_if(~NothrowStored(c.args)))
    ELSE {Deliver(c)}

optional_receiver(o, c) ==
    CASE c.ch = "value" ->
            DeliverAny({set_value(<<optional_of(c.args)>>)} \cup eptr_if(~NothrowStored(c.args)))
      [] c.ch = "stopped" ->
            {Deliver(set_value(<<optional_t(get_completion_signatures(o.snd.of, o.env))>>))}
      [] OTHER -> {Deliver(c)}

error_receiver(o, c) ==
    {Deliver(IF c.ch = "stopped" THEN set_error(o.snd.error) ELSE c)}

\* The function runs shape times, or once on the whole range when chunked.
bulk_receiver(o, c) ==
    IF c.ch = "value"
    THEN DeliverAny({c} \cup eptr_if(o.snd.throws /\ o.snd.shape > 0))
    ELSE {Deliver(c)}

start_scheduled(o, held) ==
    {Launch([o EXCEPT !.step = "scheduling", !.held = held], schedule(o.snd.sch), o.env),
     Deliver(set_error(Eptr))}
schedule_payload_failure(o) == start_scheduled(o, set_error(Eptr))
continues_on_receiver(o, c) ==
    IF o.step = "child"
    THEN start_scheduled(o, [c EXCEPT !.args = Decayed(@)])
         \cup (IF PayloadMayThrow(c.args) THEN schedule_payload_failure(o) ELSE {})
    ELSE {Deliver(IF c.ch = "value" THEN o.held ELSE c)}

ForgetsRefusal(o, c) ==
    IF o.step = "scheduling"
    THEN {Launch([o EXCEPT !.step = "child"], o.snd.of, starts_on_env(o.snd, o.env)) : x \in
            {c.ch} \cap {"value"}}
    ELSE {Deliver(c)}
starts_on_receiver(o, c) ==
    IF o.step = "scheduling" /\ c.ch = "value"
    THEN {Launch([o EXCEPT !.step = "child"], o.snd.of, starts_on_env(o.snd, o.env))}
    ELSE {Deliver(c)}

Receive(o, c) ==
    CASE o.snd.op = "then" -> then_receiver(o, c)
      [] o.snd.op = "upon_error" -> upon_receiver(o, c, "error")
      [] o.snd.op = "upon_stopped" -> upon_receiver(o, c, "stopped")
      [] o.snd.op = "let" -> let_receiver(o, c)
      [] o.snd.op = "into_variant" -> into_variant_receiver(o, c)
      [] o.snd.op = "stopped_as_optional" -> optional_receiver(o, c)
      [] o.snd.op = "stopped_as_error" -> error_receiver(o, c)
      [] o.snd.op = "bulk" -> bulk_receiver(o, c)
      [] o.snd.op = "continues_on" -> continues_on_receiver(o, c)
      [] o.snd.op = "starts_on" -> starts_on_receiver(o, c)
      [] OTHER -> {Deliver(c)}

-----------------------------------------------------------------------------
Home(sch) == Schedulers[sch.name].home

Init ==
    /\ root \in {r \in [snd : Senders, env : Envs] : Connectable(r.snd, r.env)}
    /\ stack = <<Operation(root.snd, root.env)>>
    /\ doing = "start"
    /\ sig = set_stopped
    /\ at = IF root.env.start = None THEN "main" ELSE Home(root.env.start)
    /\ asked = FALSE

\* start() of an operation that completes at once.
StartCompletes ==
    /\ doing = "start"
    /\ \E c \in CompletesInStart(Top) : sig' = c
    /\ doing' = "complete"
    /\ UNCHANGED <<root, stack, at, asked>>

\* start() of a schedule operation that waits in its context's queue.
StartQueues ==
    /\ doing = "start" /\ Queues(Top)
    /\ doing' = "queued"
    /\ UNCHANGED <<root, stack, sig, at, asked>>

\* start() of an adaptor's operation starts its child's.
StartChild ==
    /\ doing = "start" /\ CompletesInStart(Top) = {} /\ ~Queues(Top)
    /\ stack' = Append(stack, Operation(ChildOf(Top), ChildEnv(Top)))
    /\ UNCHANGED <<root, doing, sig, at, asked>>

\* The context takes the operation from its queue and completes it.
RunQueued ==
    /\ doing = "queued"
    /\ sig' = Execute(Top)
    /\ at' = Home(Plain(Top.snd.on))
    /\ doing' = "complete"
    /\ UNCHANGED <<root, stack, asked>>

\* The completion reaches the receiver of the enclosing operation.
Complete ==
    /\ doing = "complete" /\ Len(stack) > 1
    /\ \E r \in Receive(stack[Len(stack) - 1], sig) :
        IF r.start
        THEN /\ stack' = SubSeq(stack, 1, Len(stack) - 2) \o <<r.self, r.child>>
             /\ doing' = "start" /\ UNCHANGED sig
        ELSE /\ stack' = Front(stack)
             /\ sig' = r.sig /\ UNCHANGED doing
    /\ UNCHANGED <<root, at, asked>>

\* The completion reaches the final receiver.
CompleteRoot ==
    /\ doing = "complete" /\ Len(stack) = 1
    /\ doing' = "done"
    /\ UNCHANGED <<root, stack, sig, at, asked>>

\* Somebody requests a stop on the final receiver's token.
request_stop ==
    /\ ~asked /\ doing # "done" /\ ~unstoppable_token(root.env)
    /\ asked' = TRUE
    /\ UNCHANGED <<root, stack, doing, sig, at>>

Next ==
    \/ StartCompletes \/ StartQueues \/ StartChild \/ RunQueued
    \/ Complete \/ CompleteRoot \/ request_stop

\* Calls return, and the contexts serve their queues.
Fairness ==
    WF_vars(StartCompletes \/ StartQueues \/ StartChild \/ RunQueued \/ Complete \/ CompleteRoot)

Spec == Init /\ [][Next]_vars /\ Fairness

-----------------------------------------------------------------------------
\* Every completion that any operation of the tree delivers is one that its
\* sender declared for the environment it was connected with, whatever threw,
\* was refused or was stopped on the way (get_completion_signatures against
\* the receivers of the adaptors).
OnlyDeclared ==
    doing = "complete" => sig \in get_completion_signatures(Top.snd, Top.env)

\* Adaptors that make a value of another completion, or of another sender's
\* value, and still forward the child's attributes.
RECURSIVE Redirects(_)
Redirects(s) ==
    \/ s.op \in {"let", "upon_error", "upon_stopped", "stopped_as_optional"}
    \/ s.op \in {"then", "bulk", "into_variant", "stopped_as_error", "write_env",
                  "schedule_from", "starts_on"}
       /\ Redirects(s.of)

\* Where a value completion is promised to happen: on the scheduler that on and
\* affine found in the receiver's environment, or on the advertised one.
Promised(o) ==
    IF o.snd.op \in {"on", "affine"} THEN o.env.start
    ELSE IF Redirects(o.snd) THEN None ELSE get_completion_scheduler(o.snd, "value")

\* A sender that advertises a completion scheduler delivers its value there,
\* and on and affine bring the value back to the scheduler they were started
\* on, through any nesting of transfers, overridden environments and late
\* schedule failures.
CompletesWherePromised ==
    (doing = "complete" /\ sig.ch = "value" /\ Promised(Top) # None)
    => Home(Promised(Top)) \in {at, "anywhere"}

\* Every started operation completes, in exactly one way.
Completes == <>(doing = "done")
=============================================================================
