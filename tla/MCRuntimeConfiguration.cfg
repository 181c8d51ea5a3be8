SPECIFICATION MCSpec
CONSTANTS
    Patchers = {p1, p2}
    Refreshers = {f1}
    Reloaders = {r1}
    KeyLogins = {l1}
    OAuthLogins = {l1, l2}
    Logouts = {x1}
    p1 = p1
    p2 = p2
    f1 = f1
    r1 = r1
    l1 = l1
    l2 = l2
    x1 = x1
    c1 = c1
    c2 = c2
    Configs = {c0, c1, c2}
    FirstConfig = c0
    KeyOf <- OwnKey
    FirstCred = FirstCred
    NoCred = NoCred
    NoTask = NoTask
CHECK_DEADLOCK FALSE
SYMMETRY PatchSymmetry
INVARIANTS
    ServedHasItsReason
    LoginsKeepTheirWord
    UpdatesAreSerial
