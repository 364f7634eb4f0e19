\* A client that asks for one result at a time.
CONSTANTS
    Name = {"work"}
    CollectionType = {"calendar"}
    Uri = {u1, u2}
    Raw = {r1, r2}
    NoRow = NoRow
    MaxId = 1
    MaxSeq = 3
    MaxBirths = 1
    Client = {k1}
    PathOf <- MCPathOf
    Limit = {0, 1}
    NoToken = NoToken
    NotReported = NotReported
SPECIFICATION Spec
INVARIANT LimitLosesNothing
