SPECIFICATION Spec
CONSTANTS
    gpt = gpt
    slashed = slashed
    NumProviders = 2
    Models = {gpt, slashed}
    Shadowing = {slashed}
    Shadowed <- ReadsLikeSecond
    Unreliable = {1, 2}
    Callers = {c1, c2}
    MaxChanges = 2
SYMMETRY Interchangeable
INVARIANT NamesLeadRight
PROPERTY FailureKeepsModels
