SPECIFICATION Spec
CONSTANTS
    Senders <- TheSenders
    Envs <- TheEnvs
    Schedulers <- TheSchedulers
INVARIANTS
    CompletesAsPromised
PROPERTIES
    Completes
CHECK_DEADLOCK FALSE
