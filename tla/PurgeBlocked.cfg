SPECIFICATION MCSpec
CONSTANTS
    u1 = u1
    u2 = u2
    w1 = w1
    w2 = w2
    ann = ann
    ben = ben
    x1 = x1
    l1 = l1
    k1 = k1
    k2 = k2
    r1 = r1
    r2 = r2
    None = None
    Account = {u1, u2}
    Space = {w1, w2}
    Address = {ann, ben}
    Sub = {x1}
    Link = {l1}
    Code = {k1, k2}
    Request = {r1, r2}
    BetaMode = FALSE
    MaxPassword = 2
    MaxDay = 1
    Window = 0
    MaxAnswers = 1
    Turns = {"closing"}
CHECK_DEADLOCK FALSE
SYMMETRY Symmetric
INVARIANT PurgeNotBlocked
