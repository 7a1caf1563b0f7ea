\* Two requests about accounts at a time, up to five in all.
SPECIFICATION Spec
CONSTANTS
    w1 = w1
    w2 = w2
    u1 = u1
    u2 = u2
    u3 = u3
    m1 = m1
    m2 = m2
    d1 = d1
    d2 = d2
    Absent = Absent
    Deleted = Deleted
    NoDocument = NoDocument
    NoApplication = NoApplication
    Unread = Unread
    NoToken = NoToken
    Idle = Idle
    Workers = {w1, w2}
    Users <- TheUsers
    Emails = {m1, m2}
    EmailOf <- TheEmailOf
    Documents = {d1, d2}
    Asks <- TheAsks
    MaxAsks = 5
    MaxClock = 3
    TokenLife = 3
    RowLife = 1
SYMMETRY WorkerSymmetry
INVARIANTS TypeOK GoneAccountsLeaveNothing OrganizersHaveProfiles IdentitiesAreUnique
PROPERTIES RevokedStaysRevoked ApprovesWhatIsPending
CHECK_DEADLOCK FALSE
