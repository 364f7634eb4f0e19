\* The credential cache and the slots: two requests at a time with one slot
\* and one cache entry; passwords are changed, accounts renamed and deleted.
CONSTANTS
    Username = {"ann", "bob"}
    Account = {"ann", "bob"}
    Fold <- MCFold
    Password = {p1, p2}
    Request = {a, b}
    NoUser = NoUser
    NoRecord = NoRecord
    maxFailures = 1
    failureWindow = 1
    maxThrottleKey = 2
    maxConcurrentVerifications = 1
    CredentialTTL = 1
    maxCredentialEntries = 1
    MaxTime = 1
    MaxSalt = 2
SPECIFICATION Spec
SYMMETRY Symmetry
INVARIANTS TypeOK SlotsAreHeld AdmittedByValidPassword
