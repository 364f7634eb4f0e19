\* The same with overrides in every zone.
CONSTANTS
    Year = 12
    NoRule = NoRule
    Endless = Endless
    Anchor = 0
    MaxYears = 3
    Missing = Missing
    Day = 2
    expansionSlack = 2
    maxOccurrences = 4
    MaxRepeats = 6
    Calendar <- MCZoned
    Form <- MCForm
    Repeat <- MCRepeat
    CompFilter <- MCCompFilter
    NoObject = NoObject
    Epoch = 0
    Century = 20
SPECIFICATION Spec
INVARIANT OverridesReplace
