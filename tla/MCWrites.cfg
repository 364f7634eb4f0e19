\* Two requests at a time, and two collections, one of which may take over
\* the rowid of the other.
CONSTANTS
    Name = {"work", "home"}
    CollectionType = {"addressbook"}
    Uri = {u1}
    Raw <- MCRaw
    NoRow = NoRow
    MaxId = 2
    MaxSeq = 2
    MaxBirths = 2
    Writer = {w1, w2}
    Shown = {s1}
    Hidden = {h1, h2}
    NoCondition = NoCondition
    IfNoneMatch = IfNoneMatch
    IfMatchAny = IfMatchAny
SPECIFICATION Spec
SYMMETRY Symmetry
INVARIANTS TypeOK ChangeLogSound OnlyOvertakenReadsAreStale AnswerNamesBytes
PROPERTIES SequenceCountsChanges LogNeverForgets ImplementsHistory
