SPECIFICATION AuthSpec
CONSTANTS
    Callers = {c1, c2}
    Accounts = {a1}
    MaxRetries = 1
    MaxTokens = 3
    MaxAdmin = 1
PROPERTIES ReturnsUsableToken OneMintPerFoundToken
CHECK_DEADLOCK FALSE
