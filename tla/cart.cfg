\* Two carts filled and three checkout pages in two tabs, three calls.
SPECIFICATION Spec
CONSTANTS
    t1 = t1
    t2 = t2
    Tabs = {t1, t2}
    Capacity = 2
    MaxPages = 3
    MaxPicks = 2
    MaxSends = 3
SYMMETRY TabSymmetry
INVARIANTS TypeOK PageBuysOnce AnsweredAfresh
