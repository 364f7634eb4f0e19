\* Events, to-dos and series in four zones, with exceptions and with
\* overrides named in UTC; ranges at and around every boundary.
CONSTANTS
    Year = 12
    NoRule = NoRule
    Endless = Endless
    Anchor = 0
    MaxYears = 3
    Missing = Missing
    Day = 2
    expansionSlack = 2
    maxOccurrences = 4
    MaxRepeats = 6
    Calendar <- MCCalendar
    Form <- MCForm
    Repeat <- MCRepeat
    CompFilter <- MCCompFilter
    NoObject = NoObject
    Epoch = 0
    Century = 20
SPECIFICATION Spec
INVARIANTS TypeOK ExpansionIsExact FoundWhenItOccurs EmbeddedZoneIsExact
PROPERTIES SavedAsShownStays
