\* Every request of an application, with two interruptions.
CONSTANTS
    d1 = d1 d2 = d2 d3 = d3 man = man reu = reu rol = rol
    dis = dis ena = ena rst = rst del = del
    i1 = i1 i2 = i2 i3 = i3
    Op = {d1, d2, d3, man, reu, rol, dis, ena, rst, del}
    Image = {i1, i2, i3}
    Resource = {r1}
    NoOp = NoOp
    NoImage = NoImage
    KindOf <- MCKindOf
    ImageOf <- MCImageOf
    KeepPrior = 1
    MaxInterrupts = 2
    Callers = {{d1, d2, man, dis, ena}, {d1, man, reu, dis, ena},
               {d1, d2, d3, rol, rst}, {d1, d2, rol, rst, del}}
SPECIFICATION Spec
INVARIANTS
 PredecessorKeepsServing
 CutoverNeverOverlaps
 RuntimeReclaimed
 RegistryKeepsReferenced
 LifecycleSafe
CHECK_DEADLOCK FALSE
