\* One card with a name of more than two parts, five forms, and the card sent back as it is shown.
CONSTANTS
    Byte <- MCByte
    Word <- MCWord
    FoldLimit = 5
    Lead = {"c3"}
    Continuation = {"a9"}
    Card <- MCNamedCard
    Contact <- MCContact
    TypeOptions <- MCTypeOptions
    NoCard = NoCard
    Now <- MCNow
SPECIFICATION Spec
PROPERTIES TheRestSurvives
