\* One application in every lane, or an instance migration inside its scope; two
\* controller threads.
CONSTANTS
    dep = dep ena = ena dis = dis env = env mig = mig chi = chi
    app = app infra = infra
    Op = {dep, ena, dis, env, mig, chi}
    Scope = {app, infra}
    Thread = {t1, t2}
    NoOp = NoOp
    NoThread = NoThread
    KindOf <- MCKindOf
    ScopeOf <- MCScopeOf
    Capacity = 2
    MaxRetries = 1
    MaxCrashes = 1
    Callers = {{dep, ena, dis}, {dep, ena, env}, {dep, dis, env}, {mig, env}}
SPECIFICATION MCSpec
SYMMETRY ThreadSymmetry
INVARIANTS
    OneOperationPerLane
    
    
    ConflictNeverKillsWorker
    StopLeavesNothingBehind
    MasterOutlivesChild
