\* Cards with groups, labels and escaped values, five forms, and every card sent back as it is shown.
CONSTANTS
    Byte <- MCByte
    Word <- MCWord
    FoldLimit = 5
    Lead = {"c3"}
    Continuation = {"a9"}
    Card <- MCCard
    Contact <- MCContact
    TypeOptions <- MCTypeOptions
    NoCard = NoCard
    Now <- MCNow
SPECIFICATION Spec
INVARIANTS TypeOK FoldsCleanly
PROPERTIES FormReadsBack OtherLinesStay UnchangedRowsKeepTheirBytes
