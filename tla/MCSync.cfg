\* One client that polls with and without a limit, and two collections after
\* one another, of which the second takes over the rowid, and perhaps the name,
\* of the first.
CONSTANTS
    Name = {"work", "home"}
    CollectionType = {"calendar"}
    Uri = {u1, u2}
    Raw = {r1, r2}
    NoRow = NoRow
    MaxId = 1
    MaxSeq = 3
    MaxBirths = 2
    Client = {k1}
    PathOf <- MCPathOf
    Limit = {0, 1}
    NoToken = NoToken
    NotReported = NotReported
SPECIFICATION FairSpec
INVARIANTS TypeOK NoLostChange CurrentTokenMeansEqualCopy IssuedTokenStaysUsable
PROPERTIES Converges
