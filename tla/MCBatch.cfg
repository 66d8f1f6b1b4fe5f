SPECIFICATION LiveSpec
CONSTANTS
    k1 = k1
    k2 = k2
    k3 = k3
    fa = fa
    fb = fb
    v = v
    w = w
    f1 = f1
    f2 = f2
    Absent = Absent
    Keep = Keep
    NoOne = NoOne
    Keys = {k1, k2, k3}
    Fields = {f1, f2}
    Values = {v, w}
    Handlers = {h1, h2}
    Features = {fa, fb}
    Refusals = {409}
    MaxFaults = 2
    MaxStops = 1
    Owner <- MCOwner
    Plans <- MCPlans
    Config0 <- MCConfig0
INVARIANTS TypeOK RollbackRestores BatchInv
PROPERTIES AllOrNothing LockGivenBack
