\* Two processes that start, update, go back a release and crash, while the
\* forms of the one that serves change the account the other one seeds.
CONSTANTS
    Process = {p1, p2}
    Release = {1, 2, 3}
    Row = {1, 2, 3}
    MaxForms = 2
SPECIFICATION FairSpec
INVARIANTS TypeOK RecordedIffRun ServesOnCompleteSchema
PROPERTIES AppliedInOrder ComesUpAgain
