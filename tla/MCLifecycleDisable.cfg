\* A disable, with a crash.
CONSTANTS
    d1 = d1 d2 = d2 d3 = d3 man = man reu = reu rol = rol
    dis = dis ena = ena rst = rst del = del
    i1 = i1 i2 = i2 i3 = i3
    Op = {d1, dis}
    Image = {i1, i2, i3}
    Resource = {}
    NoOp = NoOp
    NoImage = NoImage
    KindOf <- MCKindOf
    ImageOf <- MCImageOf
    KeepPrior = 1
    MaxInterrupts = 1
    Callers = {{d1, dis}}
SPECIFICATION FairSpec
PROPERTIES
    DisableRecovers
CHECK_DEADLOCK FALSE
