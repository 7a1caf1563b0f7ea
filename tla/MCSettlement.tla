----------------------------- MODULE MCSettlement -----------------------------
(* Small instances of Settlement for TLC. *)
EXTENDS Settlement, TLC

CONSTANTS o1, o2, t1, t2, w1, w2, g1, g2

\* Both orders hold two categories, so that their releases cross.
DemandCrossed == [o \in {o1, o2} |-> [c \in {1, 2} |-> 1]]
TicketsOneEach == [t \in {t1, t2} |-> IF t = t1 THEN o1 ELSE o2]
TicketFirst == [t \in {t1} |-> o1]
NoTickets == [t \in {} |-> o1]
CapacityOne == [c \in {1, 2} |-> 1]
CapacityTwo == [c \in {1, 2} |-> 2]
Interchangeable == Permutations({w1, w2}) \cup Permutations({g1, g2})
=============================================================================
