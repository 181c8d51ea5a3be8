SPECIFICATION FairSpec
CONSTANTS
    Callers = {r1, r2}
    Accounts = {a1}
    MaxRetries = 0
    MaxTokens = 2
    MaxAdmin = 0
    MaxClients = 4
PROPERTIES RetryCarriesNewToken RequestsEnd
CHECK_DEADLOCK FALSE
