SPECIFICATION FairSpec
CONSTANTS
    Calls = {c1}
    MaxLines = 3
INVARIANTS OutcomeIsTrue NothingIsLeftOpen
PROPERTIES SendsSafely CallsEnd
