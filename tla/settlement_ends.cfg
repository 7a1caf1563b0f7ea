\* Liveness: two settlements at a time, one of them or the server lost once.
SPECIFICATION FairSpec
CONSTANTS
  o1 = o1  o2 = o2  t1 = t1  t2 = t2  w1 = w1  w2 = w2  g1 = g1  g2 = g2
  Categories = {1, 2}
  Demand <- DemandCrossed
  NoOrder = NoOrder  NoTicket = NoTicket  NoCategory = NoCategory
  Orders = {o1, o2}
  Workers = {w1, w2}
  Tickets = {}
  TicketOrder <- NoTickets
  Gates = {}
  Capacity <- CapacityTwo
  MaxFailures = 1
PROPERTIES EveryReservationEnds
