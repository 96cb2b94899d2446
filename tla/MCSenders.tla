----------------------------- MODULE MCSenders -----------------------------
(***************************************************************************)
(* Every expression of two adaptors over every source that compiles, and a *)
(* few deeper ones that send a result through several contexts.            *)
(***************************************************************************)
EXTENDS Senders

TheSchedulers ==
    [now   |-> [kind |-> "inline", home |-> "anywhere", over |-> "none"],
     pool  |-> [kind |-> "pool", home |-> "pool", over |-> "none"],
     loop  |-> [kind |-> "run_loop", home |-> "loop", over |-> "none"],
     any   |-> [kind |-> "any", home |-> "pool", over |-> "pool"],
     empty |-> [kind |-> "any", home |-> "anywhere", over |-> "none"]]

TheEnvs ==
    {[scheduler |-> Plain("loop"), start |-> Plain("loop"), token |-> "live"],
     [scheduler |-> Plain("pool"), start |-> Plain("pool"), token |-> "none"],
     [scheduler |-> None, start |-> None, token |-> "live"]}

Sources ==
    {just(<<>>), just(<<Number, Ref(Heavy)>>), just_error(Number), just_stopped,
     read_env(<<Ref(Heavy)>>, TRUE)}
    \cup {schedule(Plain(n)) : n \in {"pool", "loop", "any"}}

Inner == {just(<<Number>>), schedule(Plain("loop")), on(Plain("pool"), just(<<>>))}

Adapted(s) ==
    {then(s, <<>>, TRUE), then(s, <<Ref(Heavy)>>, FALSE),
     upon_error(s, <<Number>>, TRUE), upon_stopped(s, <<>>, FALSE),
     into_variant(s), stopped_as_optional(s), stopped_as_error(s, Ref(Number)),
     bulk(s, 0, FALSE, TRUE), bulk(s, 2, TRUE, TRUE),
     write_env(s, scheduler_env(Plain("pool"))), unstoppable(s), affine(s),
     starts_on(Plain("loop"), s), on(Plain("any"), s)}
    \cup {continues_on(s, Plain(n)) : n \in {"loop", "pool", "now", "empty"}}
    \cup {let_value(s, i) : i \in Inner}
    \cup {let_error(s, just(<<Number>>)), let_stopped(s, schedule(Plain("pool")))}
    \cup {on_closure(s, Plain("pool"), c) :
            c \in {then(s, <<Number>>, TRUE), let_value(s, schedule(Plain("loop")))}}

One == UNION {Adapted(s) : s \in Sources}
Two == UNION {Adapted(s) : s \in One}

Deep ==
    {stopped_as_optional(transfer_just(Plain("loop"), <<Number>>)),
     affine(into_variant(upon_error(then(just(<<Number>>), <<>>, TRUE), <<Number>>, FALSE))),
     on(Plain("pool"), affine(let_value(on(Plain("loop"), just(<<Ref(Heavy)>>)),
                                        affine(schedule(Plain("pool")))))),
     unstoppable(on_closure(starts_on(Plain("loop"), schedule(Plain("pool"))), Plain("loop"),
                            then(just(<<>>), <<Number>>, TRUE))),
     into_variant(let_error(upon_error(let_value(schedule(Plain("any")), just_error(Number)),
                                       <<Number>>, TRUE), just(<<>>)))}

TheSenders == Sources \cup One \cup Two \cup Deep

(* Every completion an operation delivers is one its sender declared, and  *)
(* a value arrives on the scheduler the sender promised.                   *)
CompletesAsPromised == OnlyDeclared /\ CompletesWherePromised
=============================================================================
