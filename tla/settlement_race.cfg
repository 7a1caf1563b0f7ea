\* Two concurrent settlements, two check-ins, one lost transaction.
SPECIFICATION Spec
CONSTANTS
  o1 = o1  o2 = o2  t1 = t1  t2 = t2  w1 = w1  w2 = w2  g1 = g1  g2 = g2
  Categories = {1, 2}
  Demand <- DemandCrossed
  NoOrder = NoOrder  NoTicket = NoTicket  NoCategory = NoCategory
  Orders = {o1, o2}
  Workers = {w1, w2}
  Tickets = {t1}
  TicketOrder <- TicketFirst
  Gates = {g1, g2}
  Capacity <- CapacityOne
  MaxFailures = 1
SYMMETRY Interchangeable
INVARIANTS TypeOK PaymentAgrees CanceledOrderVoidsTickets AdmittedOnce ReleasedWhole NoOversell DeadlocksAreBetweenReleases
