\* Two requests at a time.
CONSTANTS
    Name = {"work"}
    CollectionType = {"addressbook"}
    Uri = {u1}
    Raw <- MCRaw
    NoRow = NoRow
    MaxId = 1
    MaxSeq = 3
    MaxBirths = 1
    Writer = {w1, w2}
    Shown = {s1, s2}
    Hidden = {h1, h2}
    NoCondition = NoCondition
    IfNoneMatch = IfNoneMatch
    IfMatchAny = IfMatchAny
SPECIFICATION Spec
PROPERTY ConditionHeldAtCommit
