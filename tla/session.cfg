\* Three sign-ins or rotations, in two tabs over one set of cookies.  The bound on
\* token pairs leaves a rotation that is past its check with no pair to issue.
SPECIFICATION Spec
CONSTANTS
    t1 = t1
    t2 = t2
    ana = ana
    adm = adm
    NoUser = NoUser
    Tabs = {t1, t2}
    Users = {ana, adm}
    FirstRole <- TheFirstRole
    MaxIssued = 3
SYMMETRY TabSymmetry
CHECK_DEADLOCK FALSE
INVARIANTS TypeOK SessionsAreWhole PagesAreServed
