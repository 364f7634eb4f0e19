\* The throttle at its limits, and the queue for the one slot: two spellings of
\* one account, a map of one record, and every request is answered.
CONSTANTS
    Username = {"ann", "ANN"}
    Account = {"ann"}
    Fold <- MCFold
    Password = {p1}
    Request = {a, b}
    NoUser = NoUser
    NoRecord = NoRecord
    maxFailures = 2
    failureWindow = 1
    maxThrottleKey = 1
    maxConcurrentVerifications = 1
    CredentialTTL = 1
    maxCredentialEntries = 1
    MaxTime = 1
    MaxSalt = 1
SPECIFICATION FairSpec
INVARIANTS MapsAreBounded AttemptsAreBounded
PROPERTIES WindowStands EveryRequestEnds
