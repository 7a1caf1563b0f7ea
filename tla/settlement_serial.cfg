\* One settlement at a time: the documented life of a reservation.
SPECIFICATION Spec
CONSTANTS
  o1 = o1  o2 = o2  t1 = t1  t2 = t2  w1 = w1  w2 = w2  g1 = g1  g2 = g2
  Categories = {1, 2}
  Demand <- DemandCrossed
  NoOrder = NoOrder  NoTicket = NoTicket  NoCategory = NoCategory
  Orders = {o1, o2}
  Workers = {w1}
  Tickets = {t1, t2}
  TicketOrder <- TicketsOneEach
  Gates = {g1, g2}
  Capacity <- CapacityOne
  MaxFailures = 1
PROPERTIES ImplementsReservation
