\* Progress of deploys, cutovers, disable and enable after an interruption.
CONSTANTS
    d1 = d1 d2 = d2 d3 = d3 man = man reu = reu rol = rol
    dis = dis ena = ena rst = rst del = del
    i1 = i1 i2 = i2 i3 = i3
    Op = {d1, man, reu, dis, ena}
    Image = {i1, i2, i3}
    Resource = {}
    NoOp = NoOp
    NoImage = NoImage
    KindOf <- MCKindOf
    ImageOf <- MCImageOf
    KeepPrior = 1
    MaxInterrupts = 1
    Callers = {{d1, man, reu, dis, ena}}
SPECIFICATION FairSpec
PROPERTIES
    EveryOperationEnds
CHECK_DEADLOCK FALSE
