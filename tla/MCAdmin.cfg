\* Two browsers; the server may go down in the middle of their requests.
CONSTANTS
    Browser = {b1, b2}
    Name = {"root", "eve"}
    AdminUsername = "root"
    Lifetime = 1
    NoUser = NoUser
    MaxId = 2
    MaxHash = 3
    MaxToken = 2
    MaxTime = 1
SYMMETRY Symmetry
SPECIFICATION Spec
INVARIANTS TypeOK SessionsHaveUsers OldSessionsHaveACause
PROPERTIES LastAdministratorStays
