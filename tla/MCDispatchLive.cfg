\* One thread, one slot, two automatic attempts: admission at capacity, the retry
\* budget, and progress of a deployment and a compatible edit.
CONSTANTS
    dep = dep ena = ena dis = dis env = env mig = mig chi = chi
    app = app infra = infra
    Op = {dep, env}
    Scope = {app}
    Thread = {t1}
    NoOp = NoOp
    NoThread = NoThread
    KindOf <- MCKindOf
    ScopeOf <- MCScopeOf
    Capacity = 1
    MaxRetries = 2
    MaxCrashes = 1
    Callers = {{dep, env}}
SPECIFICATION FairSpec
INVARIANTS
    SlotsConserved
    RetriesKept
PROPERTIES
    DispatchSettles
    FinishingResolves
    
