---------------------------- MODULE CatalogProofs ----------------------------
(***************************************************************************)
(* What holds of Catalog for any rows, requests and number of workers.     *)
(* The last part is about sums over categories: what a capacity check has  *)
(* read of an event is still so when it writes, or the event is disturbed. *)
(***************************************************************************)
EXTENDS Catalog, SumTheorems

\* The rows are typed, and so are the requests under way.
RowsTyped ==
    /\ status \in [Events -> Statuses \cup NoRow]
    /\ venueOf \in [Events -> Venues \cup {NoVenue}]
    /\ capacity \in [Venues -> Nat \cup NoRow]
    /\ stock \in [Categories -> Nat \cup NoRow]
    /\ live \in [Categories -> Nat]
    /\ void \in [Categories -> Nat]
    /\ couponOf \in [Coupons -> Events \cup {NoEvent} \cup NoRow]

TasksTyped ==
    /\ task = [w \in Workers |-> task[w]]
    /\ \A w \in Workers : task[w] # Idle =>
        /\ Ask(w) \in Asks
        /\ task[w].at \in Nat \ {0}
    /\ begun \in Nat

HistoryTyped ==
    /\ checked \subseteq Categories
    /\ redeemed \subseteq Coupons \X Events
    /\ disturbed \subseteq Events
    /\ raced \subseteq Events

\* The events that tickets were sold of, or found on sale, have been published.
NeverADraft ==
    \A c \in Categories :
        HasItems(c) \/ c \in checked => status[EventOf[c]] \notin {"DRAFT", Absent}

\* A coupon's event is its own, and there; or it was deleted.
CouponsKnowTheirEvent ==
    \A k \in Coupons :
        /\ couponOf[k] \in {MadeFor[k], NoEvent} \cup NoRow
        /\ couponOf[k] = MadeFor[k] => IsRow(status[MadeFor[k]])
        /\ couponOf[k] = NoEvent => status[MadeFor[k]] = Deleted

\* The use of a coupon in its own event left an order item there.
UsesLeaveItems ==
    \A k \in Coupons :
        <<k, MadeFor[k]>> \in redeemed =>
            /\ couponOf[k] \in {MadeFor[k], Deleted}
            /\ \E c \in Categories : EventOf[c] = MadeFor[k] /\ HasItems(c)

\* The status that a change of status goes by is the event's, unless another
\* change of it came between, or the event was deleted.
Unraced(w) == Ask(w).id \notin raced /\ IsRow(status[Ask(w).id])
ReadStatusHolds ==
    \A w \in Workers :
        task[w] # Idle /\ Ask(w).op \in DOMAIN StatusAsked /\ task[w].at > 1 =>
            /\ Ask(w).id \in Events
            /\ status[Ask(w).id] # Absent
            /\ Unraced(w) => Allowed(Ask(w).op, status[Ask(w).id])

Related == RowsHaveTheirParents /\ NeverADraft /\ CouponsKnowTheirEvent /\ UsesLeaveItems

CatalogInv ==
    /\ RowsTyped
    /\ TasksTyped
    /\ HistoryTyped
    /\ Related
    /\ ReadStatusHolds

-----------------------------------------------------------------------------
(* Requests and statements.                                                *)

\* The ids and the venue of a request are of the kind its operation needs.
LEMMA AskTypes ==
    ASSUME NEW a \in Asks
    PROVE  /\ a.op \in {"createCategory", "updateCategory", "removeCategory"} =>
                  a.id \in Categories /\ a.size \in Nat
           /\ a.op \in {"createEvent", "moveEvent"} => a.id \in Events /\ a.venue \in Venues
           /\ a.op \in {"deleteEvent", "publish", "finish", "cancel"} => a.id \in Events
           /\ a.op \in {"createVenue", "resizeVenue", "deleteVenue"} =>
                  a.id \in Venues /\ a.size \in Nat
           /\ a.op \in {"createCoupon", "deleteCoupon"} => a.id \in Coupons
BY CatalogAssumption DEF Requests

\* A change of status begins by reading the event.
LEMMA StatusFirst ==
    ASSUME NEW op \in DOMAIN StatusAsked
    PROVE  /\ op \in {"publish", "finish", "cancel"}
           /\ Statements[op][1] = "event"
           /\ StatusAsked[op] \in Statuses \ {"DRAFT"}
BY DEF StatusAsked, Statements, Statuses

\* A request about an event has that event in its scope, and only that one.
LEMMA EventScope ==
    ASSUME NEW a, a.id \in Events
    PROVE  Scope(a) = {a.id} /\ EventAsked(a) = a.id
BY CatalogAssumption DEF Scope, EventAsked

LEMMA RowFacts ==
    /\ \A n \in Nat : IsRow(n)
    /\ \A s \in Statuses : IsRow(s)
    /\ \A e \in Events : IsRow(e)
    /\ ~IsRow(Absent) /\ ~IsRow(Deleted)
    /\ Absent # Deleted
BY CatalogAssumption DEF IsRow, NoRow

-----------------------------------------------------------------------------
(* Steps that write no row.                                                *)

\* A request that ends leaves the others where they are, whatever event it deletes.
LEMMA TaskEnds ==
    ASSUME TasksTyped, ReadStatusHolds, NEW w \in Workers,
           task' = [task EXCEPT ![w] = Idle],
           begun' = begun, \A d \in Events : status'[d] \in {status[d], Deleted}, raced' = raced
    PROVE  TasksTyped' /\ ReadStatusHolds'
<1>1. \A x \in Workers : task'[x] # Idle => x # w /\ task'[x] = task[x]
    BY DEF TasksTyped
<1>2. TasksTyped'
    BY <1>1 DEF TasksTyped, Ask
<1>3. ReadStatusHolds'
    BY <1>1, RowFacts DEF ReadStatusHolds, Unraced, Ask, Allowed
<1> QED BY <1>2, <1>3

\* One that writes the status of event e races with the others that have read it.
LEMMA TaskEndsRacing ==
    ASSUME TasksTyped, ReadStatusHolds, NEW w \in Workers, NEW e \in Events,
           task' = [task EXCEPT ![w] = Idle], begun' = begun,
           \A d \in Events \ {e} : status'[d] = status[d],
           status'[e] # Absent,
           Race(w, e)
    PROVE  TasksTyped' /\ ReadStatusHolds'
<1>1. \A x \in Workers : task'[x] # Idle => x # w /\ task'[x] = task[x]
    BY DEF TasksTyped
<1>2. TasksTyped'
    BY <1>1 DEF TasksTyped, Ask
<1>3. ASSUME NEW x \in Workers, task'[x] # Idle,
             Ask(x)'.op \in DOMAIN StatusAsked, task'[x].at > 1
      PROVE  /\ Ask(x)'.id \in Events
             /\ status'[Ask(x)'.id] # Absent
             /\ Unraced(x)' => Allowed(Ask(x)'.op, status'[Ask(x)'.id])
    <2>1. x # w /\ task'[x] = task[x] /\ Ask(x)' = Ask(x) /\ task[x] # Idle /\ task[x].at > 1
        BY <1>1, <1>3 DEF Ask
    <2>2. /\ Ask(x).id \in Events
          /\ status[Ask(x).id] # Absent
          /\ Unraced(x) => Allowed(Ask(x).op, status[Ask(x).id])
        BY <2>1, <1>3 DEF ReadStatusHolds
    <2>3. Ask(x).id = e => e \in raced'
        BY <2>1, <1>3 DEF Race, Switching
    <2>4. Ask(x).id # e => status'[Ask(x).id] = status[Ask(x).id]
        BY <2>2
    <2>5. raced \subseteq raced'
        BY DEF Race
    <2> QED BY <2>1, <2>2, <2>3, <2>4, <2>5 DEF Unraced
<1>4. ReadStatusHolds'
    BY <1>3 DEF ReadStatusHolds
<1> QED BY <1>2, <1>4

\* While no row, no cart and no history changes, neither does what relates them.
LEMMA RowsStay ==
    ASSUME RowsTyped, HistoryTyped, Related, UNCHANGED <<rows, checked, redeemed, disturbed, raced>>
    PROVE  RowsTyped' /\ HistoryTyped' /\ Related'
BY DEF RowsTyped, HistoryTyped, Related, rows, RowsHaveTheirParents, NeverADraft,
       CouponsKnowTheirEvent, UsesLeaveItems, HasItems, IsRow

LEMMA BeginPreserves ==
    ASSUME CatalogInv, NEW w \in Workers, Begin(w)
    PROVE  CatalogInv'
<1>1. RowsTyped' /\ HistoryTyped' /\ Related'
    BY RowsStay DEF CatalogInv, Begin
<1>2. PICK a \in Asks : task' = [task EXCEPT ![w] = [ask |-> a, at |-> 1, seen |-> Unread]]
    BY DEF Begin
<1>3. /\ \A x \in Workers \ {w} : task'[x] = task[x]
      /\ task'[w].ask = a /\ task'[w].at = 1
    BY <1>2 DEF CatalogInv, TasksTyped
<1>4. TasksTyped'
    BY <1>2, <1>3 DEF CatalogInv, TasksTyped, Begin, Ask
<1>5. status' = status /\ raced' = raced
    BY DEF Begin, rows
<1>6. ReadStatusHolds'
    BY <1>3, <1>5 DEF CatalogInv, ReadStatusHolds, Unraced, Ask, Allowed
<1> QED BY <1>1, <1>4, <1>6 DEF CatalogInv

\* A read moves its request on or ends it; a change of status has by then
\* compared the status, if what it read was the event.
LEMMA ReadPreserves ==
    ASSUME CatalogInv, NEW w \in Workers, NEW ok, NEW seen, Read(w, ok, seen), task[w] # Idle,
           ok /\ Ask(w).op \in DOMAIN StatusAsked =>
               \/ task[w].at > 1
               \/ /\ status[Ask(w).id] # Absent
                  /\ Allowed(Ask(w).op, status[Ask(w).id])
    PROVE  CatalogInv'
<1>1. RowsTyped' /\ HistoryTyped' /\ Related'
    BY RowsStay DEF CatalogInv, Read
<1>2. UNCHANGED <<status, raced, begun>>
    BY DEF Read, rows
<1>3. CASE ~ok
    <2>1. task' = [task EXCEPT ![w] = Idle]
        BY <1>3 DEF Read
    <2> QED BY <1>1, <1>2, <2>1, TaskEnds DEF CatalogInv
<1>4. CASE ok
    <2>1. task' = [task EXCEPT ![w] = [ask |-> Ask(w), at |-> task[w].at + 1, seen |-> seen]]
        BY <1>4 DEF Read
    <2>2. /\ \A x \in Workers \ {w} : task'[x] = task[x]
          /\ task'[w].ask = Ask(w) /\ task'[w].at = task[w].at + 1
        BY <2>1 DEF CatalogInv, TasksTyped
    <2>3. Ask(w) \in Asks /\ task[w].at \in Nat \ {0}
        BY DEF CatalogInv, TasksTyped
    <2>4. TasksTyped'
        BY <1>2, <2>1, <2>2, <2>3 DEF CatalogInv, TasksTyped, Ask
    <2>5. Ask(w).op \in DOMAIN StatusAsked => Ask(w).id \in Events
        BY <2>3, StatusFirst, AskTypes
    <2>6. ReadStatusHolds'
        <3>1. ASSUME NEW x \in Workers, x # w
              PROVE  (task[x] # Idle /\ Ask(x).op \in DOMAIN StatusAsked /\ task[x].at > 1 =>
                        /\ Ask(x).id \in Events
                        /\ status[Ask(x).id] # Absent
                        /\ Unraced(x) => Allowed(Ask(x).op, status[Ask(x).id]))'
            BY <3>1, <1>2, <2>2 DEF CatalogInv, ReadStatusHolds, Unraced, Ask, Allowed
        <3>2. (task[w] # Idle /\ Ask(w).op \in DOMAIN StatusAsked /\ task[w].at > 1 =>
                        /\ Ask(w).id \in Events
                        /\ status[Ask(w).id] # Absent
                        /\ Unraced(w) => Allowed(Ask(w).op, status[Ask(w).id]))'
            BY <1>2, <1>4, <2>2, <2>5 DEF CatalogInv, ReadStatusHolds, Unraced, Ask, Allowed
        <3> QED BY <3>1, <3>2 DEF ReadStatusHolds
    <2> QED BY <1>1, <2>4, <2>6 DEF CatalogInv
<1> QED BY <1>3, <1>4

LEMMA ReadStepPreserves ==
    ASSUME CatalogInv, NEW w \in Workers, ReadStep(w)
    PROVE  CatalogInv'
<1>1. \A statement : At(w, statement) => task[w] # Idle
    BY DEF At
<1>2. \A statement : At(w, statement) /\ statement # "event"
                     /\ Ask(w).op \in DOMAIN StatusAsked => task[w].at > 1
    BY StatusFirst DEF At, Ask, CatalogInv, TasksTyped
<1>3. CASE ReadEvent(w)
    <2> DEFINE e == EventAsked(Ask(w))
               there == IsRow(status[e])
    <2>1. At(w, "event")
        BY <1>3 DEF ReadEvent
    <2>2. Read(w, there /\ Allowed(Ask(w).op, status[e]),
               [Seen(w) EXCEPT !.capacity = IF there THEN capacity[venueOf[e]] ELSE 0])
        BY <1>3 DEF ReadEvent
    <2>3. Ask(w).op \in DOMAIN StatusAsked => e = Ask(w).id
        BY <1>1, <2>1, StatusFirst, AskTypes, EventScope DEF CatalogInv, TasksTyped
    <2>4. there => status[e] # Absent
        BY RowFacts
    <2> HIDE DEF e, there
    <2> QED BY <1>1, <2>1, <2>2, <2>3, <2>4, ReadPreserves
<1>4. CASE ReadCategory(w)
    BY <1>1, <1>2, <1>4, ReadPreserves DEF ReadCategory
<1>5. CASE ReadVenue(w)
    BY <1>1, <1>2, <1>5, ReadPreserves DEF ReadVenue
<1>6. CASE SumStock(w)
    BY <1>1, <1>2, <1>6, ReadPreserves DEF SumStock
<1>7. CASE SumSold(w)
    BY <1>1, <1>2, <1>7, ReadPreserves DEF SumSold
<1>8. CASE CountItems(w)
    BY <1>1, <1>2, <1>8, ReadPreserves DEF CountItems
<1>9. CASE CountCategories(w)
    BY <1>1, <1>2, <1>9, ReadPreserves DEF CountCategories
<1>10. CASE CountEvents(w)
    BY <1>1, <1>2, <1>10, ReadPreserves DEF CountEvents
<1>11. CASE ReadCoupon(w)
    BY <1>1, <1>2, <1>11, ReadPreserves DEF ReadCoupon
<1> QED BY <1>3, <1>4, <1>5, <1>6, <1>7, <1>8, <1>9, <1>10, <1>11 DEF ReadStep

-----------------------------------------------------------------------------
(* Steps that write rows.                                                  *)

\* A write that is refused ends its request and changes nothing else.
LEMMA RefusedPreserves ==
    ASSUME CatalogInv, NEW w \in Workers, task' = [task EXCEPT ![w] = Idle],
           UNCHANGED <<rows, begun, checked, redeemed, disturbed, raced>>
    PROVE  CatalogInv'
<1>1. RowsTyped' /\ HistoryTyped' /\ Related'
    BY RowsStay DEF CatalogInv
<1>2. TasksTyped' /\ ReadStatusHolds'
    BY TaskEnds DEF CatalogInv, rows
<1> QED BY <1>1, <1>2 DEF CatalogInv

LEMMA DisturbTyped ==
    ASSUME HistoryTyped, NEW w, NEW S \in SUBSET Events, Disturb(w, S)
    PROVE  disturbed' \subseteq Events /\ disturbed \subseteq disturbed'
BY DEF HistoryTyped, Disturb

\* A category is written while its event is there, or deleted while it has no item.
LEMMA WriteStockPreserves ==
    ASSUME CatalogInv, NEW w \in Workers, NEW c \in Categories, NEW x,
           task' = [task EXCEPT ![w] = Idle], UNCHANGED <<begun, checked, redeemed>>,
           WriteStock(w, c, x),
           \/ x \in Nat /\ IsRow(status[EventOf[c]])
           \/ x = Deleted /\ ~HasItems(c)
    PROVE  CatalogInv'
<1>1. EventOf[c] \in Events
    BY CatalogAssumption
<1>2. UNCHANGED <<status, venueOf, capacity, live, void, couponOf, raced>> /\ Disturb(w, {EventOf[c]})
    BY DEF WriteStock
<1>3. disturbed' \subseteq Events /\ disturbed \subseteq disturbed'
    BY <1>1, <1>2, DisturbTyped DEF CatalogInv
<1>4. x \in Nat \cup NoRow /\ stock' = [stock EXCEPT ![c] = x]
    BY DEF WriteStock, NoRow
<1>5. RowsTyped'
    BY <1>2, <1>4 DEF CatalogInv, RowsTyped
<1>6. HistoryTyped'
    BY <1>2, <1>3 DEF CatalogInv, HistoryTyped
<1>7. TasksTyped' /\ ReadStatusHolds'
    BY <1>2, <1>3, TaskEnds DEF CatalogInv
<1>8. \A d \in Categories : d # c => stock'[d] = stock[d]
    BY <1>4 DEF CatalogInv, RowsTyped
<1>9. stock'[c] = x
    BY <1>4 DEF CatalogInv, RowsTyped
<1>10. \A d \in Categories : HasItems(d)' <=> HasItems(d)
    BY <1>2 DEF HasItems
<1>11. RowsHaveTheirParents'
    <2>1. \A d \in Categories : HasItems(d)' => IsRow(stock'[d])
        BY <1>8, <1>9, <1>10, RowFacts DEF CatalogInv, Related, RowsHaveTheirParents
    <2>2. \A d \in Categories : IsRow(stock'[d]) => IsRow(status'[EventOf[d]])
        BY <1>2, <1>8, <1>9, RowFacts DEF CatalogInv, Related, RowsHaveTheirParents
    <2> QED BY <1>2, <2>1, <2>2 DEF CatalogInv, Related, RowsHaveTheirParents
<1>12. NeverADraft'
    BY <1>2, <1>10 DEF CatalogInv, Related, NeverADraft
<1>13. CouponsKnowTheirEvent' /\ UsesLeaveItems'
    BY <1>2, <1>10 DEF CatalogInv, Related, CouponsKnowTheirEvent, UsesLeaveItems
<1> QED BY <1>5, <1>6, <1>7, <1>11, <1>12, <1>13 DEF CatalogInv, Related

LEMMA CategoryWritesPreserve ==
    ASSUME CatalogInv, NEW w \in Workers,
           CreateCategory(w) \/ UpdateCategory(w) \/ RemoveCategory(w)
    PROVE  CatalogInv'
<1> DEFINE c == Ask(w).id
<1>0. /\ task[w] # Idle
      /\ Ask(w).op \in {"createCategory", "updateCategory", "removeCategory"}
    BY DEF CreateCategory, UpdateCategory, RemoveCategory, Running, Ask
<1>1. c \in Categories /\ Ask(w).size \in Nat
    BY <1>0, AskTypes DEF CatalogInv, TasksTyped
<1>2. CASE CreateCategory(w)
    <2>1. /\ task' = [task EXCEPT ![w] = Idle]
          /\ UNCHANGED <<begun, checked, redeemed>>
          /\ \/ IsRow(status[EventOf[c]]) /\ WriteStock(w, c, Ask(w).size)
             \/ UNCHANGED <<rows, disturbed, raced>>
        BY <1>2 DEF CreateCategory, Write
    <2> QED BY <1>1, <2>1, WriteStockPreserves, RefusedPreserves
<1>3. CASE UpdateCategory(w)
    <2>1. /\ task' = [task EXCEPT ![w] = Idle]
          /\ UNCHANGED <<begun, checked, redeemed>>
          /\ \/ IsRow(stock[c]) /\ WriteStock(w, c, Ask(w).size)
             \/ UNCHANGED <<rows, disturbed, raced>>
        BY <1>3 DEF UpdateCategory, Write
    <2>2. IsRow(stock[c]) => IsRow(status[EventOf[c]])
        BY <1>1 DEF CatalogInv, Related, RowsHaveTheirParents
    <2> QED BY <1>1, <2>1, <2>2, WriteStockPreserves, RefusedPreserves
<1>4. CASE RemoveCategory(w)
    <2>1. /\ task' = [task EXCEPT ![w] = Idle]
          /\ UNCHANGED <<begun, checked, redeemed>>
          /\ \/ ~HasItems(c) /\ WriteStock(w, c, Deleted)
             \/ UNCHANGED <<rows, disturbed, raced>>
        BY <1>4 DEF RemoveCategory, Write, RemovableCategory
    <2> QED BY <1>1, <2>1, WriteStockPreserves, RefusedPreserves
<1> QED BY <1>2, <1>3, <1>4

\* A capacity is written while its venue is there or is created, or deleted with no event.
LEMMA WriteCapacityPreserves ==
    ASSUME CatalogInv, NEW w \in Workers, NEW v \in Venues, NEW x \in Nat \cup {Deleted},
           task' = [task EXCEPT ![w] = Idle], UNCHANGED <<begun, checked, redeemed>>,
           WriteCapacity(w, v, x),
           IsRow(x) \/ EventsAt(v) = {}
    PROVE  CatalogInv'
<1>1. UNCHANGED <<status, venueOf, stock, live, void, couponOf, raced>> /\ Disturb(w, EventsAt(v))
    BY DEF WriteCapacity
<1>2. disturbed' \subseteq Events /\ disturbed \subseteq disturbed'
    BY <1>1, DisturbTyped DEF CatalogInv, EventsAt
<1>3. x \in Nat \cup NoRow /\ capacity' = [capacity EXCEPT ![v] = x]
    BY DEF WriteCapacity, NoRow
<1>4. RowsTyped' /\ HistoryTyped'
    BY <1>1, <1>2, <1>3 DEF CatalogInv, RowsTyped, HistoryTyped
<1>5. TasksTyped' /\ ReadStatusHolds'
    BY <1>1, <1>2, TaskEnds DEF CatalogInv
<1>6. \A u \in Venues : capacity'[u] = IF u = v THEN x ELSE capacity[u]
    BY <1>3 DEF CatalogInv, RowsTyped
<1>7. \A e \in Events : IsRow(status[e]) => venueOf[e] \in Venues /\ IsRow(capacity'[venueOf[e]])
    <2> SUFFICES ASSUME NEW e \in Events, IsRow(status[e])
                 PROVE  venueOf[e] \in Venues /\ IsRow(capacity'[venueOf[e]])
        OBVIOUS
    <2>1. venueOf[e] \in Venues /\ IsRow(capacity[venueOf[e]])
        BY DEF CatalogInv, Related, RowsHaveTheirParents
    <2>2. venueOf[e] = v => e \in EventsAt(v)
        BY DEF EventsAt
    <2>3. venueOf[e] = v => IsRow(x)
        BY <2>2
    <2> QED BY <1>6, <2>1, <2>3, RowFacts
<1>8. Related'
    BY <1>1, <1>7 DEF CatalogInv, Related, RowsHaveTheirParents, NeverADraft,
       CouponsKnowTheirEvent, UsesLeaveItems, HasItems, IsRow
<1> QED BY <1>4, <1>5, <1>8 DEF CatalogInv

LEMMA VenueWritesPreserve ==
    ASSUME CatalogInv, NEW w \in Workers,
           CreateVenue(w) \/ ResizeVenue(w) \/ DeleteVenue(w)
    PROVE  CatalogInv'
<1> DEFINE v == Ask(w).id
<1>0. /\ task[w] # Idle
      /\ Ask(w).op \in {"createVenue", "resizeVenue", "deleteVenue"}
    BY DEF CreateVenue, ResizeVenue, DeleteVenue, Running, Ask
<1> DEFINE n == Ask(w).size
<1>1. v \in Venues /\ n \in Nat \cup {Deleted} /\ IsRow(n)
    BY <1>0, AskTypes, RowFacts DEF CatalogInv, TasksTyped
<1> HIDE DEF v, n
<1>2. CASE CreateVenue(w)
    <2>1. /\ task' = [task EXCEPT ![w] = Idle]
          /\ UNCHANGED <<begun, checked, redeemed>>
          /\ WriteCapacity(w, v, n) \/ UNCHANGED <<rows, disturbed, raced>>
        BY <1>2 DEF CreateVenue, Write, v, n
    <2>2. CASE WriteCapacity(w, v, n)
        BY <1>1, <2>1, <2>2, WriteCapacityPreserves
    <2>3. CASE UNCHANGED <<rows, disturbed, raced>>
        BY <2>1, <2>3, RefusedPreserves
    <2> QED BY <2>1, <2>2, <2>3
<1>3. CASE ResizeVenue(w)
    <2>1. /\ task' = [task EXCEPT ![w] = Idle]
          /\ UNCHANGED <<begun, checked, redeemed>>
          /\ WriteCapacity(w, v, n) \/ UNCHANGED <<rows, disturbed, raced>>
        BY <1>3 DEF ResizeVenue, Write, v, n
    <2>2. CASE WriteCapacity(w, v, n)
        BY <1>1, <2>1, <2>2, WriteCapacityPreserves
    <2>3. CASE UNCHANGED <<rows, disturbed, raced>>
        BY <2>1, <2>3, RefusedPreserves
    <2> QED BY <2>1, <2>2, <2>3
<1>4. CASE DeleteVenue(w)
    <2>1. /\ task' = [task EXCEPT ![w] = Idle]
          /\ UNCHANGED <<begun, checked, redeemed>>
          /\ \/ EventsAt(v) = {} /\ WriteCapacity(w, v, Deleted)
             \/ UNCHANGED <<rows, disturbed, raced>>
        BY <1>4 DEF DeleteVenue, Write, v, RemovableVenue
    <2> QED BY <1>1, <2>1, WriteCapacityPreserves, RefusedPreserves
<1> QED BY <1>2, <1>3, <1>4

\* A coupon is made for an event that is there, or deleted.
LEMMA CouponWritesPreserve ==
    ASSUME CatalogInv, NEW w \in Workers, CreateCoupon(w) \/ DeleteCoupon(w)
    PROVE  CatalogInv'
<1> DEFINE k == Ask(w).id
<1>1. k \in Coupons
    <2>1. task[w] # Idle /\ Ask(w).op \in {"createCoupon", "deleteCoupon"}
        BY DEF CreateCoupon, DeleteCoupon, Running, Ask
    <2> QED BY <2>1, AskTypes DEF CatalogInv, TasksTyped
<1>2. PICK x : /\ task' = [task EXCEPT ![w] = Idle]
               /\ UNCHANGED <<begun, checked, redeemed>>
               /\ \/ UNCHANGED <<rows, disturbed, raced>>
                  \/ /\ WriteCoupon(k, x)
                     /\ \/ x = Deleted
                        \/ x = MadeFor[k] /\ couponOf[k] = Absent /\ IsRow(status[x])
    <2>1. CASE CreateCoupon(w)
        BY <2>1 DEF CreateCoupon, Write
    <2>2. CASE DeleteCoupon(w)
        BY <2>2 DEF DeleteCoupon, Write
    <2> QED BY <2>1, <2>2
<1>3. CASE UNCHANGED <<rows, disturbed, raced>>
    BY <1>2, <1>3, RefusedPreserves
<1>4. CASE /\ WriteCoupon(k, x)
           /\ \/ x = Deleted
              \/ x = MadeFor[k] /\ couponOf[k] = Absent /\ IsRow(status[x])
    <2>1. /\ UNCHANGED <<status, venueOf, capacity, stock, live, void, disturbed, raced>>
          /\ couponOf' = [couponOf EXCEPT ![k] = x]
        BY <1>4 DEF WriteCoupon
    <2>2. x \in Events \cup NoRow
        BY <1>1, <1>4, CatalogAssumption DEF NoRow
    <2>3. RowsTyped' /\ HistoryTyped'
        BY <1>2, <2>1, <2>2 DEF CatalogInv, RowsTyped, HistoryTyped
    <2>4. TasksTyped' /\ ReadStatusHolds'
        BY <1>2, <2>1, TaskEnds DEF CatalogInv
    <2>5. RowsHaveTheirParents' /\ NeverADraft'
        BY <1>2, <2>1 DEF CatalogInv, Related, RowsHaveTheirParents, NeverADraft, HasItems, IsRow
    <2>6. \A j \in Coupons : couponOf'[j] = IF j = k THEN x ELSE couponOf[j]
        BY <2>1 DEF CatalogInv, RowsTyped
    <2>7. CouponsKnowTheirEvent'
        BY <1>1, <1>4, <2>1, <2>6, CatalogAssumption
        DEF CatalogInv, Related, CouponsKnowTheirEvent, IsRow, NoRow
    <2>8. UsesLeaveItems'
        BY <1>1, <1>2, <1>4, <2>1, <2>6, CatalogAssumption
        DEF CatalogInv, Related, UsesLeaveItems, HasItems, NoRow
    <2> QED BY <2>3, <2>4, <2>5, <2>7, <2>8 DEF CatalogInv, Related
<1> QED BY <1>2, <1>3, <1>4

\* An event is created in DRAFT, at a venue that is there, with nothing of its own yet.
LEMMA CreateEventPreserves ==
    ASSUME CatalogInv, NEW w \in Workers, CreateEvent(w)
    PROVE  CatalogInv'
<1> DEFINE e == Ask(w).id
           v == Ask(w).venue
<1>1. e \in Events /\ v \in Venues
    <2>1. task[w] # Idle /\ Ask(w).op = "createEvent"
        BY DEF CreateEvent, Running, Ask
    <2> QED BY <2>1, AskTypes DEF CatalogInv, TasksTyped
<1>2. /\ task' = [task EXCEPT ![w] = Idle]
      /\ UNCHANGED <<begun, checked, redeemed, disturbed, raced>>
      /\ \/ UNCHANGED rows
         \/ /\ status[e] = Absent /\ IsRow(capacity[v])
            /\ status' = [status EXCEPT ![e] = "DRAFT"]
            /\ venueOf' = [venueOf EXCEPT ![e] = v]
            /\ UNCHANGED <<capacity, stock, live, void, couponOf>>
    BY DEF CreateEvent, Write
<1> HIDE DEF e, v
<1>3. CASE UNCHANGED rows
    BY <1>2, <1>3, RefusedPreserves
<1>4. CASE /\ status[e] = Absent /\ IsRow(capacity[v])
           /\ status' = [status EXCEPT ![e] = "DRAFT"]
           /\ venueOf' = [venueOf EXCEPT ![e] = v]
           /\ UNCHANGED <<capacity, stock, live, void, couponOf>>
    <2>1. RowsTyped' /\ HistoryTyped'
        BY <1>1, <1>2, <1>4 DEF CatalogInv, RowsTyped, HistoryTyped, Statuses
    <2>2. /\ \A d \in Events : status'[d] = IF d = e THEN "DRAFT" ELSE status[d]
          /\ \A d \in Events : venueOf'[d] = IF d = e THEN v ELSE venueOf[d]
        BY <1>1, <1>4 DEF CatalogInv, RowsTyped
    <2>3. ~IsRow(status[e]) /\ status[e] # Deleted /\ IsRow("DRAFT")
        BY <1>4, RowFacts DEF Statuses
    <2>4. \A c \in Categories : EventOf[c] = e => ~IsRow(stock[c]) /\ ~HasItems(c) /\ c \notin checked
        BY <1>4, <2>3 DEF CatalogInv, Related, RowsHaveTheirParents, NeverADraft
    <2>5. \A k \in Coupons : MadeFor[k] = e =>
              couponOf[k] \notin {MadeFor[k], NoEvent} /\ <<k, MadeFor[k]>> \notin redeemed
        BY <2>3, <2>4 DEF CatalogInv, Related, CouponsKnowTheirEvent, UsesLeaveItems
    <2>6. RowsHaveTheirParents'
        BY <1>1, <1>4, <2>2, <2>3, CatalogAssumption DEF CatalogInv, Related, RowsHaveTheirParents, HasItems
    <2>7. NeverADraft'
        <3>1. ASSUME NEW c \in Categories, HasItems(c) \/ c \in checked
              PROVE  status'[EventOf[c]] \notin {"DRAFT", Absent}
            <4>1. EventOf[c] \in Events /\ EventOf[c] # e
                BY <2>4, <3>1, CatalogAssumption
            <4>2. status[EventOf[c]] \notin {"DRAFT", Absent}
                BY <3>1 DEF CatalogInv, Related, NeverADraft
            <4> QED BY <2>2, <4>1, <4>2
        <3>2. checked' = checked /\ \A c \in Categories : HasItems(c)' <=> HasItems(c)
            BY <1>2, <1>4 DEF HasItems
        <3> QED BY <3>1, <3>2 DEF NeverADraft
    <2>8. CouponsKnowTheirEvent'
        <3>1. couponOf' = couponOf
            BY <1>4
        <3>2. \A k \in Coupons : MadeFor[k] \in Events
            BY CatalogAssumption
        <3>3. \A k \in Coupons : MadeFor[k] # e => status'[MadeFor[k]] = status[MadeFor[k]]
            BY <2>2, <3>2
        <3> QED BY <2>5, <3>1, <3>3 DEF CatalogInv, Related, CouponsKnowTheirEvent
    <2>9. UsesLeaveItems'
        BY <1>2, <1>4 DEF CatalogInv, Related, UsesLeaveItems, HasItems
    <2>10. TasksTyped'
        BY <1>2 DEF CatalogInv, TasksTyped, Ask
    <2>11. ReadStatusHolds'
        <3>1. \A x \in Workers : task'[x] # Idle => x # w /\ task'[x] = task[x]
            BY <1>2 DEF CatalogInv, TasksTyped
        <3>2. \A x \in Workers :
                  task'[x] # Idle /\ Ask(x).op \in DOMAIN StatusAsked /\ task[x].at > 1 =>
                      /\ Ask(x).id \in Events /\ status'[Ask(x).id] = status[Ask(x).id]
                      /\ status[Ask(x).id] # Absent
                      /\ Unraced(x) => Allowed(Ask(x).op, status[Ask(x).id])
            BY <1>4, <2>2, <3>1 DEF CatalogInv, ReadStatusHolds
        <3> QED BY <1>2, <3>1, <3>2 DEF ReadStatusHolds, Unraced, Ask, Allowed
    <2> QED BY <2>1, <2>6, <2>7, <2>8, <2>9, <2>10, <2>11 DEF CatalogInv, Related
<1> QED BY <1>2, <1>3, <1>4

LEMMA MoveEventPreserves ==
    ASSUME CatalogInv, NEW w \in Workers, MoveEvent(w)
    PROVE  CatalogInv'
<1> DEFINE e == Ask(w).id
           v == Ask(w).venue
<1>1. e \in Events /\ v \in Venues
    <2>1. task[w] # Idle /\ Ask(w).op = "moveEvent"
        BY DEF MoveEvent, Running, Ask
    <2> QED BY <2>1, AskTypes DEF CatalogInv, TasksTyped
<1>2. /\ task' = [task EXCEPT ![w] = Idle]
      /\ UNCHANGED <<begun, checked, redeemed>>
      /\ \/ UNCHANGED <<rows, disturbed, raced>>
         \/ /\ IsRow(status[e]) /\ IsRow(capacity[v])
            /\ venueOf' = [venueOf EXCEPT ![e] = v]
            /\ disturbed' = disturbed \cup {e}
            /\ UNCHANGED <<status, capacity, stock, live, void, couponOf, raced>>
    BY DEF MoveEvent, Write
<1> HIDE DEF e, v
<1>3. CASE UNCHANGED <<rows, disturbed, raced>>
    BY <1>2, <1>3, RefusedPreserves
<1>4. CASE /\ IsRow(status[e]) /\ IsRow(capacity[v])
           /\ venueOf' = [venueOf EXCEPT ![e] = v]
           /\ disturbed' = disturbed \cup {e}
           /\ UNCHANGED <<status, capacity, stock, live, void, couponOf, raced>>
    <2>1. RowsTyped' /\ HistoryTyped'
        BY <1>1, <1>2, <1>4 DEF CatalogInv, RowsTyped, HistoryTyped
    <2>2. \A d \in Events : venueOf'[d] = IF d = e THEN v ELSE venueOf[d]
        BY <1>1, <1>4 DEF CatalogInv, RowsTyped
    <2>3. RowsHaveTheirParents'
        BY <1>1, <1>4, <2>2 DEF CatalogInv, Related, RowsHaveTheirParents, HasItems, IsRow
    <2>4. NeverADraft' /\ CouponsKnowTheirEvent' /\ UsesLeaveItems'
        BY <1>2, <1>4 DEF CatalogInv, Related, NeverADraft, CouponsKnowTheirEvent,
           UsesLeaveItems, HasItems, IsRow
    <2>5. TasksTyped' /\ ReadStatusHolds'
        BY <1>2, <1>4, TaskEnds DEF CatalogInv
    <2> QED BY <2>1, <2>3, <2>4, <2>5 DEF CatalogInv, Related
<1> QED BY <1>2, <1>3, <1>4

\* No item holds the categories that go with a deleted event, so no coupon that
\* was used for it loses it.
LEMMA DeleteEventPreserves ==
    ASSUME CatalogInv, NEW w \in Workers, DeleteEvent(w)
    PROVE  CatalogInv'
<1> DEFINE e == Ask(w).id
<1>1. e \in Events
    <2>1. task[w] # Idle /\ Ask(w).op = "deleteEvent"
        BY DEF DeleteEvent, Running, Ask
    <2> QED BY <2>1, AskTypes DEF CatalogInv, TasksTyped
<1> DEFINE Gone ==
        /\ RemovableEvent(e)
        /\ status' = [status EXCEPT ![e] = Deleted]
        /\ stock' = [c \in Categories |-> IF c \in CategoriesOf(e) THEN Deleted ELSE stock[c]]
        /\ couponOf' = [k \in Coupons |-> IF couponOf[k] = e THEN NoEvent ELSE couponOf[k]]
        /\ Disturb(w, {e})
        /\ UNCHANGED <<venueOf, capacity, live, void, raced>>
<1>2. /\ task' = [task EXCEPT ![w] = Idle]
      /\ UNCHANGED <<begun, checked, redeemed>>
      /\ Gone \/ UNCHANGED <<rows, disturbed, raced>>
    BY DEF DeleteEvent, Write
<1> HIDE DEF e
<1>3. CASE UNCHANGED <<rows, disturbed, raced>>
    BY <1>2, <1>3, RefusedPreserves
<1>4. CASE Gone
    <2>1. disturbed' \subseteq Events /\ disturbed \subseteq disturbed'
        BY <1>1, <1>4, DisturbTyped DEF CatalogInv
    <2>2. RowsTyped' /\ HistoryTyped'
        BY <1>1, <1>2, <1>4, <2>1 DEF CatalogInv, RowsTyped, HistoryTyped, NoRow
    <2>3. \A d \in Events : status'[d] = IF d = e THEN Deleted ELSE status[d]
        BY <1>1, <1>4 DEF CatalogInv, RowsTyped
    <2>4. \A c \in Categories : EventOf[c] = e => ~IsRow(stock'[c]) /\ ~HasItems(c)
        BY <1>4, RowFacts DEF RemovableEvent, CategoriesOf, CatalogInv, Related, RowsHaveTheirParents
    <2>5. \A c \in Categories : EventOf[c] # e => stock'[c] = stock[c]
        BY <1>4 DEF CategoriesOf
    <2>6. \A c \in Categories : HasItems(c)' <=> HasItems(c)
        BY <1>4 DEF HasItems
    <2>7. RowsHaveTheirParents'
        <3>1. \A c \in Categories : HasItems(c)' => IsRow(stock'[c])
            BY <2>4, <2>5, <2>6 DEF CatalogInv, Related, RowsHaveTheirParents
        <3>2. \A c \in Categories : IsRow(stock'[c]) => IsRow(status'[EventOf[c]])
            BY <2>3, <2>4, <2>5, CatalogAssumption DEF CatalogInv, Related, RowsHaveTheirParents
        <3>3. \A d \in Events : IsRow(status'[d]) =>
                  venueOf'[d] \in Venues /\ IsRow(capacity'[venueOf'[d]])
            BY <1>4, <2>3, RowFacts DEF CatalogInv, Related, RowsHaveTheirParents
        <3> QED BY <3>1, <3>2, <3>3 DEF RowsHaveTheirParents, HasItems
    <2>8. NeverADraft'
        <3>1. Deleted \notin {"DRAFT", Absent}
            BY RowFacts DEF Statuses
        <3> QED BY <1>2, <2>3, <2>6, <3>1, CatalogAssumption DEF CatalogInv, Related, NeverADraft
    <2>9. CouponsKnowTheirEvent'
        <3> SUFFICES ASSUME NEW k \in Coupons
                     PROVE  /\ couponOf'[k] \in {MadeFor[k], NoEvent} \cup NoRow
                            /\ couponOf'[k] = MadeFor[k] => IsRow(status'[MadeFor[k]])
                            /\ couponOf'[k] = NoEvent => status'[MadeFor[k]] = Deleted
            BY DEF CouponsKnowTheirEvent
        <3>1. couponOf'[k] = IF couponOf[k] = e THEN NoEvent ELSE couponOf[k]
            BY <1>4
        <3>2. MadeFor[k] \in Events /\ MadeFor[k] # NoEvent /\ MadeFor[k] \notin NoRow
            BY CatalogAssumption
        <3>3. couponOf[k] \in Events => couponOf[k] = MadeFor[k]
            BY CatalogAssumption DEF CatalogInv, Related, CouponsKnowTheirEvent
        <3>4. CASE couponOf[k] = e
            BY <1>1, <2>3, <3>1, <3>2, <3>3, <3>4
        <3>5. CASE couponOf[k] # e
            BY <1>1, <2>3, <3>1, <3>2, <3>3, <3>5 DEF CatalogInv, Related, CouponsKnowTheirEvent
        <3> QED BY <3>4, <3>5
    <2>10. UsesLeaveItems'
        <3>1. \A k \in Coupons : <<k, MadeFor[k]>> \in redeemed => MadeFor[k] # e
            BY <2>4 DEF CatalogInv, Related, UsesLeaveItems
        <3>2. \A k \in Coupons : <<k, MadeFor[k]>> \in redeemed => couponOf'[k] = couponOf[k]
            BY <1>1, <1>4, <3>1, CatalogAssumption DEF CatalogInv, Related, UsesLeaveItems, NoRow
        <3> QED BY <1>2, <2>6, <3>2 DEF CatalogInv, Related, UsesLeaveItems
    <2>11. TasksTyped' /\ ReadStatusHolds'
        BY <1>2, <1>4, <2>3, TaskEnds DEF CatalogInv
    <2> QED BY <2>2, <2>7, <2>8, <2>9, <2>10, <2>11 DEF CatalogInv, Related
<1> QED BY <1>2, <1>3, <1>4

LEMMA UpdateStatusPreserves ==
    ASSUME CatalogInv, NEW w \in Workers, UpdateStatus(w)
    PROVE  CatalogInv'
<1> DEFINE e == Ask(w).id
           s == StatusAsked[Ask(w).op]
<1>1. e \in Events /\ s \in Statuses \ {"DRAFT"}
    <2>1. task[w] # Idle /\ Ask(w).op \in DOMAIN StatusAsked
        BY DEF UpdateStatus, Switching
    <2>2. e \in Events
        BY <2>1, StatusFirst, AskTypes DEF CatalogInv, TasksTyped
    <2> QED BY <2>1, <2>2, StatusFirst
<1>2. /\ task' = [task EXCEPT ![w] = Idle]
      /\ UNCHANGED <<begun, checked, redeemed>>
      /\ \/ UNCHANGED <<rows, disturbed, raced>>
         \/ /\ IsRow(status[e])
            /\ status' = [status EXCEPT ![e] = s]
            /\ Race(w, e)
            /\ UNCHANGED <<venueOf, capacity, stock, live, void, couponOf, disturbed>>
    BY DEF UpdateStatus, Write
<1> HIDE DEF e, s
<1>3. CASE UNCHANGED <<rows, disturbed, raced>>
    BY <1>2, <1>3, RefusedPreserves
<1>4. CASE /\ IsRow(status[e])
           /\ status' = [status EXCEPT ![e] = s]
           /\ Race(w, e)
           /\ UNCHANGED <<venueOf, capacity, stock, live, void, couponOf, disturbed>>
    <2>1. raced' \subseteq Events
        BY <1>1, <1>4 DEF CatalogInv, HistoryTyped, Race
    <2>2. RowsTyped' /\ HistoryTyped'
        BY <1>1, <1>2, <1>4, <2>1 DEF CatalogInv, RowsTyped, HistoryTyped
    <2>3. \A d \in Events : status'[d] = IF d = e THEN s ELSE status[d]
        BY <1>1, <1>4 DEF CatalogInv, RowsTyped
    <2>4. IsRow(s) /\ s # "DRAFT" /\ s # Absent /\ status[e] # Deleted
        BY <1>1, <1>4, RowFacts
    <2>5. RowsHaveTheirParents'
        BY <1>1, <1>4, <2>3, <2>4, CatalogAssumption
        DEF CatalogInv, Related, RowsHaveTheirParents, HasItems, IsRow
    <2>6. NeverADraft'
        BY <1>2, <1>4, <2>3, <2>4, CatalogAssumption DEF CatalogInv, Related, NeverADraft, HasItems
    <2>7. CouponsKnowTheirEvent'
        BY <1>4, <2>3, <2>4, CatalogAssumption DEF CatalogInv, Related, CouponsKnowTheirEvent, IsRow
    <2>8. UsesLeaveItems'
        BY <1>2, <1>4 DEF CatalogInv, Related, UsesLeaveItems, HasItems
    <2>9. TasksTyped' /\ ReadStatusHolds'
        BY <1>1, <1>2, <1>4, <2>3, <2>4, TaskEndsRacing DEF CatalogInv
    <2> QED BY <2>2, <2>5, <2>6, <2>7, <2>8, <2>9 DEF CatalogInv, Related
<1> QED BY <1>2, <1>3, <1>4

-----------------------------------------------------------------------------
(* Sales.                                                                  *)

LEMMA CheckPreserves ==
    ASSUME CatalogInv, NEW c \in Categories, Check(c)
    PROVE  CatalogInv'
<1>1. /\ OnSale(c) /\ checked' = checked \cup {c}
      /\ UNCHANGED <<rows, task, begun, redeemed, disturbed, raced>>
    BY DEF Check
<1>2. RowsTyped' /\ HistoryTyped' /\ TasksTyped'
    BY <1>1 DEF CatalogInv, RowsTyped, HistoryTyped, TasksTyped, Ask, rows
<1>3. "PUBLISHED" \notin {"DRAFT", Absent}
    BY RowFacts DEF Statuses
<1>4. NeverADraft'
    BY <1>1, <1>3 DEF CatalogInv, Related, NeverADraft, HasItems, rows, OnSale
<1>5. RowsHaveTheirParents' /\ CouponsKnowTheirEvent' /\ UsesLeaveItems'
    BY <1>1 DEF CatalogInv, Related, RowsHaveTheirParents, CouponsKnowTheirEvent,
       UsesLeaveItems, HasItems, IsRow, rows
<1>6. ReadStatusHolds'
    BY <1>1 DEF CatalogInv, ReadStatusHolds, Unraced, Ask, Allowed, rows
<1> QED BY <1>2, <1>4, <1>5, <1>6 DEF CatalogInv, Related

\* A sale or a release moves tickets of a category that is there, and leaves an item.
LEMMA TicketsMovePreserves ==
    ASSUME CatalogInv, NEW c \in Categories, Sell(c) \/ Release(c)
    PROVE  /\ RowsTyped' /\ TasksTyped' /\ ReadStatusHolds'
           /\ disturbed' \subseteq Events /\ raced' = raced
           /\ IsRow(stock[c]) /\ HasItems(c)'
           /\ \A d \in Categories : d # c => (HasItems(d)' <=> HasItems(d)) /\ stock'[d] = stock[d]
           /\ IsRow(stock'[c])
           /\ UNCHANGED <<status, venueOf, capacity, couponOf>>
<1>1. UNCHANGED <<status, venueOf, capacity, couponOf, task, begun, raced>> /\ Disturb(Idle, {EventOf[c]})
    BY DEF Sell, Release
<1>2. live[c] \in Nat /\ void[c] \in Nat
    BY DEF CatalogInv, RowsTyped
<1>3. IsRow(stock[c]) /\ stock[c] \in Nat
    <2>1. IsRow(stock[c])
        BY <1>2 DEF Sell, Enough, Release, CatalogInv, Related, RowsHaveTheirParents, HasItems
    <2> QED BY <2>1 DEF CatalogInv, RowsTyped, IsRow
<1>4. PICK n \in Nat, l \in Nat, u \in Nat :
          /\ stock' = [stock EXCEPT ![c] = n]
          /\ live' = [live EXCEPT ![c] = l]
          /\ void' = [void EXCEPT ![c] = u]
          /\ l + u > 0
    <2>1. CASE Sell(c)
        <3>1. /\ stock[c] - 1 \in Nat /\ live[c] + 1 \in Nat /\ live[c] + 1 + void[c] > 0
            BY <1>2, <1>3, <2>1 DEF Sell, Enough
        <3>2. void' = [void EXCEPT ![c] = void[c]]
            BY <2>1 DEF Sell, CatalogInv, RowsTyped
        <3> QED BY <1>2, <2>1, <3>1, <3>2 DEF Sell
    <2>2. CASE Release(c)
        <3>1. /\ stock[c] + 1 \in Nat /\ live[c] - 1 \in Nat /\ void[c] + 1 \in Nat
              /\ live[c] - 1 + (void[c] + 1) > 0
            BY <1>2, <1>3, <2>2 DEF Release
        <3> QED BY <2>2, <3>1 DEF Release
    <2> QED BY <2>1, <2>2
<1>5. RowsTyped'
    BY <1>1, <1>4 DEF CatalogInv, RowsTyped
<1>6. /\ \A d \in Categories : d # c =>
             stock'[d] = stock[d] /\ live'[d] = live[d] /\ void'[d] = void[d]
      /\ stock'[c] = n /\ live'[c] = l /\ void'[c] = u
    BY <1>4 DEF CatalogInv, RowsTyped
<1>7. IsRow(stock'[c]) /\ HasItems(c)'
    BY <1>4, <1>6, RowFacts DEF HasItems
<1>8. TasksTyped' /\ disturbed' \subseteq Events /\ disturbed \subseteq disturbed'
    BY <1>1, CatalogAssumption, DisturbTyped DEF CatalogInv, TasksTyped, Ask
<1>9. ReadStatusHolds'
    BY <1>1 DEF CatalogInv, ReadStatusHolds, Unraced, Ask, Allowed
<1> QED BY <1>1, <1>3, <1>5, <1>6, <1>7, <1>8, <1>9 DEF HasItems

LEMMA ReleasePreserves ==
    ASSUME CatalogInv, NEW c \in Categories, Release(c)
    PROVE  CatalogInv'
<1>1. UNCHANGED <<checked, redeemed>> /\ HasItems(c)
    <2>1. live[c] \in Nat /\ void[c] \in Nat
        BY DEF CatalogInv, RowsTyped
    <2> QED BY <2>1 DEF Release, HasItems
<1>2. /\ RowsTyped' /\ TasksTyped' /\ ReadStatusHolds' /\ disturbed' \subseteq Events /\ raced' = raced
      /\ UNCHANGED <<status, venueOf, capacity, couponOf>>
      /\ IsRow(stock[c]) /\ IsRow(stock'[c])
      /\ \A d \in Categories : d # c => stock'[d] = stock[d]
      /\ \A d \in Categories : HasItems(d)' <=> HasItems(d)
    BY <1>1, TicketsMovePreserves
<1>3. RowsHaveTheirParents'
    BY <1>2 DEF CatalogInv, Related, RowsHaveTheirParents, IsRow
<1>4. NeverADraft' /\ CouponsKnowTheirEvent' /\ UsesLeaveItems'
    BY <1>1, <1>2 DEF CatalogInv, Related, NeverADraft, CouponsKnowTheirEvent, UsesLeaveItems, IsRow
<1>5. HistoryTyped'
    BY <1>1, <1>2 DEF CatalogInv, HistoryTyped
<1> QED BY <1>2, <1>3, <1>4, <1>5 DEF CatalogInv, Related

LEMMA SellPreserves ==
    ASSUME CatalogInv, NEW c \in Categories, Sell(c)
    PROVE  CatalogInv'
<1>1. PICK k \in Coupons \cup {NoCoupon} :
          /\ k # NoCoupon => Redeemable(k, EventOf[c])
          /\ redeemed' = redeemed \cup {<<k, EventOf[c]>> : x \in {k} \ {NoCoupon}}
    BY DEF Sell
<1>2. c \in checked /\ checked' = checked \ {c}
    BY DEF Sell
<1>3. EventOf[c] \in Events
    BY CatalogAssumption
<1>4. /\ RowsTyped' /\ TasksTyped' /\ ReadStatusHolds' /\ disturbed' \subseteq Events /\ raced' = raced
      /\ UNCHANGED <<status, venueOf, capacity, couponOf>>
      /\ IsRow(stock[c]) /\ IsRow(stock'[c]) /\ HasItems(c)'
      /\ \A d \in Categories : d # c => stock'[d] = stock[d]
      /\ \A d \in Categories : d # c => (HasItems(d)' <=> HasItems(d))
    BY TicketsMovePreserves
<1>5. HistoryTyped'
    BY <1>1, <1>2, <1>3, <1>4 DEF CatalogInv, HistoryTyped
<1>6. RowsHaveTheirParents'
    BY <1>4 DEF CatalogInv, Related, RowsHaveTheirParents, IsRow
<1>7. NeverADraft' /\ CouponsKnowTheirEvent'
    BY <1>2, <1>4 DEF CatalogInv, Related, NeverADraft, CouponsKnowTheirEvent, IsRow
<1>8. UsesLeaveItems'
    <2> SUFFICES ASSUME NEW j \in Coupons, <<j, MadeFor[j]>> \in redeemed'
                 PROVE  /\ couponOf'[j] \in {MadeFor[j], Deleted}
                        /\ \E d \in Categories : EventOf[d] = MadeFor[j] /\ HasItems(d)'
        BY DEF UsesLeaveItems
    <2>1. CASE <<j, MadeFor[j]>> \in redeemed
        BY <1>4, <2>1 DEF CatalogInv, Related, UsesLeaveItems
    <2>2. CASE <<j, MadeFor[j]>> \notin redeemed
        <3>1. j = k /\ j # NoCoupon /\ MadeFor[j] = EventOf[c]
            BY <1>1, <2>2
        <3>2. couponOf[j] \in {MadeFor[j], NoEvent}
            BY <1>1, <3>1 DEF Redeemable
        <3>3. IsRow(status[MadeFor[j]])
            BY <1>4, <3>1 DEF CatalogInv, Related, RowsHaveTheirParents
        <3>4. couponOf[j] # NoEvent
            BY <3>3, RowFacts DEF CatalogInv, Related, CouponsKnowTheirEvent
        <3> QED BY <1>4, <3>1, <3>2, <3>4
    <2> QED BY <2>1, <2>2
<1> QED BY <1>4, <1>5, <1>6, <1>7, <1>8 DEF CatalogInv, Related

-----------------------------------------------------------------------------
(* The theorems.                                                           *)

LEMMA InitCatalogInv == Init => CatalogInv
<1> SUFFICES ASSUME Init PROVE CatalogInv
    OBVIOUS
<1>1. RowsTyped /\ HistoryTyped
    BY SetupAssumption DEF Init, RowsTyped, HistoryTyped
<1>2. TasksTyped /\ ReadStatusHolds
    BY DEF Init, TasksTyped, ReadStatusHolds
<1>3. \A c \in Categories : ~HasItems(c)
    BY DEF Init, HasItems
<1>4. RowsHaveTheirParents
    BY <1>3, SetupAssumption DEF Init, RowsHaveTheirParents, IsRow
<1>5. CouponsKnowTheirEvent
    BY SetupAssumption DEF Init, CouponsKnowTheirEvent, IsRow
<1>6. NeverADraft /\ UsesLeaveItems
    BY <1>3 DEF Init, NeverADraft, UsesLeaveItems
<1> QED BY <1>1, <1>2, <1>4, <1>5, <1>6 DEF CatalogInv, Related

LEMMA NextCatalogInv == CatalogInv /\ [Next]_vars => CatalogInv'
<1> SUFFICES ASSUME CatalogInv, [Next]_vars PROVE CatalogInv'
    OBVIOUS
<1>1. ASSUME NEW w \in Workers, Begin(w) \/ ReadStep(w) \/ WriteStep(w)
      PROVE  CatalogInv'
    BY <1>1, BeginPreserves, ReadStepPreserves, CategoryWritesPreserve, VenueWritesPreserve,
       CouponWritesPreserve, CreateEventPreserves, MoveEventPreserves, DeleteEventPreserves,
       UpdateStatusPreserves
    DEF WriteStep
<1>2. ASSUME NEW c \in Categories, Sale(c) PROVE CatalogInv'
    BY <1>2, CheckPreserves, SellPreserves, ReleasePreserves DEF Sale
<1>3. CASE UNCHANGED vars
    <2>1. RowsTyped' /\ HistoryTyped' /\ Related'
        BY <1>3, RowsStay DEF CatalogInv, vars
    <2>2. TasksTyped' /\ ReadStatusHolds'
        BY <1>3 DEF CatalogInv, TasksTyped, ReadStatusHolds, Unraced, Ask, Allowed, vars, rows
    <2> QED BY <2>1, <2>2 DEF CatalogInv
<1> QED BY <1>1, <1>2, <1>3 DEF Next

\* The inductive invariant.
THEOREM CatalogInductive == Spec => []CatalogInv
<1> QED BY InitCatalogInv, NextCatalogInv, PTL DEF Spec

\* Every row and every request stays typed; in particular no stock goes below zero.
THEOREM CatalogTypeCorrect == Spec => []TypeOK
<1>1. CatalogInv => TypeOK
    BY DEF CatalogInv, RowsTyped, TasksTyped, HistoryTyped, TypeOK
<1> QED BY <1>1, CatalogInductive, PTL

\* Tickets keep their category, categories their event, events their venue.
THEOREM ParentsStay == Spec => []RowsHaveTheirParents
<1>1. CatalogInv => RowsHaveTheirParents
    BY DEF CatalogInv, Related
<1> QED BY <1>1, CatalogInductive, PTL

\* An event that tickets were sold of is never a draft again.
THEOREM SoldWerePublished == Spec => []SoldEventsWerePublished
<1>1. CatalogInv => SoldEventsWerePublished
    BY DEF CatalogInv, Related, NeverADraft, SoldEventsWerePublished
<1> QED BY <1>1, CatalogInductive, PTL

\* A coupon used for its own event keeps that event, or is deleted.
THEOREM UsedCouponScoped == Spec => []UsedCouponKeepsItsEvent
<1>1. CatalogInv => UsedCouponKeepsItsEvent
    BY DEF CatalogInv, Related, UsesLeaveItems, UsedCouponKeepsItsEvent
<1> QED BY <1>1, CatalogInductive, PTL

\* Only a status change that overlapped another one brings a canceled event back.
LEMMA CanceledStep ==
    ASSUME CatalogInv, [Next]_vars, NEW e \in Events, status[e] = "CANCELED", e \notin raced
    PROVE  status'[e] \in {"CANCELED", Deleted}
<1>0. "CANCELED" # Absent
    BY RowFacts DEF Statuses
<1>1. CASE status' = status
    BY <1>1
<1>2. ASSUME NEW w \in Workers, CreateEvent(w)
      PROVE  status'[e] = "CANCELED"
    BY <1>0, <1>2 DEF CreateEvent, Write, rows, CatalogInv, RowsTyped
<1>3. ASSUME NEW w \in Workers, DeleteEvent(w)
      PROVE  status'[e] \in {"CANCELED", Deleted}
    BY <1>3 DEF DeleteEvent, Write, rows, CatalogInv, RowsTyped
<1>4. ASSUME NEW w \in Workers, UpdateStatus(w)
      PROVE  status'[e] = "CANCELED"
    <2>1. /\ task[w] # Idle /\ Ask(w).op \in DOMAIN StatusAsked /\ At(w, "write")
          /\ status' = status \/ status' = [status EXCEPT ![Ask(w).id] = StatusAsked[Ask(w).op]]
        BY <1>4 DEF UpdateStatus, Switching, Write, rows
    <2>2. task[w].at > 1
        <3>1. task[w].at \in Nat \ {0}
            BY <2>1 DEF CatalogInv, TasksTyped
        <3>2. task[w].at # 1
            BY <2>1, StatusFirst DEF At, Ask
        <3> QED BY <3>1, <3>2
    <2>3. Unraced(w) => Allowed(Ask(w).op, status[Ask(w).id])
        BY <2>1, <2>2 DEF CatalogInv, ReadStatusHolds
    <2>4. Ask(w).id # e
        <3> SUFFICES ASSUME Ask(w).id = e PROVE FALSE
            OBVIOUS
        <3>1. StatusAsked[Ask(w).op] \in AllowedTransitions["CANCELED"]
            BY <2>1, <2>3, RowFacts DEF Allowed, Unraced, Statuses
        <3> QED BY <3>1 DEF AllowedTransitions
    <2> QED BY <2>1, <2>4 DEF CatalogInv, RowsTyped
<1>5. \/ status' = status
      \/ \E w \in Workers : CreateEvent(w) \/ DeleteEvent(w) \/ UpdateStatus(w)
    <2>1. ASSUME NEW w \in Workers, Begin(w) \/ ReadStep(w) PROVE status' = status
        BY <2>1 DEF Begin, ReadStep, ReadCategory, ReadEvent, ReadVenue, SumStock, SumSold,
           CountItems, CountCategories, CountEvents, ReadCoupon, Read, rows
    <2>2. ASSUME NEW w \in Workers, CreateCategory(w) \/ UpdateCategory(w) \/ RemoveCategory(w)
          PROVE  status' = status
        BY <2>2 DEF CreateCategory, UpdateCategory, RemoveCategory, Write, WriteStock, rows
    <2>3. ASSUME NEW w \in Workers, CreateVenue(w) \/ ResizeVenue(w) \/ DeleteVenue(w)
          PROVE  status' = status
        BY <2>3 DEF CreateVenue, ResizeVenue, DeleteVenue, Write, WriteCapacity, rows
    <2>4. ASSUME NEW w \in Workers, MoveEvent(w) \/ CreateCoupon(w) \/ DeleteCoupon(w)
          PROVE  status' = status
        BY <2>4 DEF MoveEvent, CreateCoupon, DeleteCoupon, Write, WriteCoupon, rows
    <2>5. ASSUME NEW c \in Categories, Sale(c) PROVE status' = status
        BY <2>5 DEF Sale, Check, Sell, Release, rows
    <2>6. CASE UNCHANGED vars
        BY <2>6 DEF vars, rows
    <2> QED BY <2>1, <2>2, <2>3, <2>4, <2>5, <2>6 DEF Next, WriteStep
<1> QED BY <1>1, <1>2, <1>3, <1>4, <1>5

\* A canceled event stays canceled, whatever overlaps but two changes of its status.
THEOREM CanceledStays == Spec => CanceledIsFinal
<1> DEFINE Final ==
        \A e \in Events :
            status[e] = "CANCELED" /\ e \notin raced => status'[e] \in {"CANCELED", Deleted}
<1>1. CatalogInv /\ [Next]_vars => [Final]_vars
    BY CanceledStep
<1>2. CanceledIsFinal <=> [][Final]_vars
    BY DEF CanceledIsFinal
<1> HIDE DEF Final
<1> QED BY <1>1, <1>2, CatalogInductive, PTL DEF Spec

-----------------------------------------------------------------------------
(* Totals over categories.                                                 *)

RowTyped(row) == row \in [Categories -> Nat \cup NoRow]
Terms(row, S) == [c \in S |-> IF IsRow(row[c]) THEN row[c] ELSE 0]

LEMMA TermsNatural ==
    ASSUME NEW row, NEW S \in SUBSET Categories, RowTyped(row)
    PROVE  /\ Natural(Terms(row, S), S)
           /\ Total(row, S) = SumFunctionOnSet(Terms(row, S), S)
<1>1. \A c \in S : Terms(row, S)[c] \in Nat
    BY DEF Terms, RowTyped, IsRow
<1> QED BY <1>1 DEF Natural, Total, Terms

\* A total is a number, and that of nothing is nought.
LEMMA TotalType ==
    ASSUME NEW row, NEW S \in SUBSET Categories, RowTyped(row), IsFiniteSet(S)
    PROVE  Total(row, S) \in Nat /\ (S = {} => Total(row, S) = 0)
BY TermsNatural, SumType, SumEmpty

\* A total depends on the rows it runs over.
LEMMA TotalSame ==
    ASSUME NEW row, NEW now, NEW S, \A c \in S : now[c] = row[c]
    PROVE  Total(now, S) = Total(row, S)
<1>1. Terms(now, S) = Terms(row, S)
    BY DEF Terms
<1> QED BY <1>1 DEF Total, Terms

\* One category more.
LEMMA TotalAdd ==
    ASSUME NEW row, NEW S \in SUBSET Categories, NEW c \in Categories \ S,
           RowTyped(row), IsFiniteSet(S), IsRow(row[c])
    PROVE  Total(row, S \cup {c}) = row[c] + Total(row, S)
<1> DEFINE T == S \cup {c}
           f == Terms(row, T)
           g == Terms(row, S)
<1>1. T \in SUBSET Categories
    OBVIOUS
<1>2. Natural(f, T) /\ Total(row, T) = SumFunctionOnSet(f, T)
    BY <1>1, TermsNatural
<1>3. Natural(g, S) /\ Total(row, S) = SumFunctionOnSet(g, S)
    BY TermsNatural
<1>4. f[c] = row[c] /\ \A x \in S : f[x] = g[x]
    BY DEF Terms
<1> HIDE DEF f, g
<1>5. SumFunctionOnSet(f, S) = SumFunctionOnSet(g, S)
    BY <1>3, <1>4, SumAgree
<1>6. SumFunctionOnSet(f, S \cup {c}) = f[c] + SumFunctionOnSet(f, S)
    BY <1>2, SumAdd
<1> QED BY <1>2, <1>3, <1>4, <1>5, <1>6

\* One category less, if it is a row.
LEMMA TotalDrop ==
    ASSUME NEW row, NEW S \in SUBSET Categories, NEW c \in S,
           RowTyped(row), IsFiniteSet(S), IsRow(row[c])
    PROVE  Total(row, S) = row[c] + Total(row, S \ {c})
<1> DEFINE T == S \ {c}
<1>1. T \in SUBSET Categories /\ c \in Categories \ T /\ IsFiniteSet(T) /\ S = T \cup {c}
    BY FS_Subset
<1> HIDE DEF T
<1>2. Total(row, T \cup {c}) = row[c] + Total(row, T)
    BY <1>1, TotalAdd
<1> QED BY <1>1, <1>2 DEF T

\* One category replaced.
LEMMA TotalReplace ==
    ASSUME NEW row, NEW now, NEW S \in SUBSET Categories, NEW c \in S, IsFiniteSet(S),
           RowTyped(row), RowTyped(now), IsRow(row[c]), IsRow(now[c]),
           \A d \in S : d # c => now[d] = row[d]
    PROVE  Total(now, S) = Total(row, S) - row[c] + now[c]
<1> DEFINE T == S \ {c}
<1>1. Total(row, S) = row[c] + Total(row, T) /\ Total(now, S) = now[c] + Total(now, T)
    BY TotalDrop
<1>2. Total(now, T) = Total(row, T)
    BY TotalSame
<1>3. T \in SUBSET Categories /\ IsFiniteSet(T)
    BY FS_Subset
<1>4. Total(row, T) \in Nat
    BY <1>3, TotalType
<1>5. row[c] \in Nat /\ now[c] \in Nat
    BY DEF RowTyped, IsRow
<1> HIDE DEF T
<1> QED BY <1>1, <1>2, <1>4, <1>5

\* A part of the categories.
LEMMA TotalPart ==
    ASSUME NEW row, NEW S \in SUBSET Categories, NEW T \in SUBSET S,
           RowTyped(row), IsFiniteSet(S)
    PROVE  Total(row, T) <= Total(row, S)
<1>1. T \in SUBSET Categories
    OBVIOUS
<1>2. Natural(Terms(row, S), S) /\ Natural(Terms(row, T), T)
    BY <1>1, TermsNatural
<1>3. \A x \in T : Terms(row, T)[x] <= Terms(row, S)[x]
    <2>1. \A x \in T : Terms(row, T)[x] = Terms(row, S)[x] /\ Terms(row, T)[x] \in Nat
        BY <1>2 DEF Terms, Natural
    <2> QED BY <2>1
<1>4. SumFunctionOnSet(Terms(row, T), T) <= SumFunctionOnSet(Terms(row, S), S)
    BY <1>2, <1>3, SumMonotone
<1> QED BY <1>1, <1>4, TermsNatural

-----------------------------------------------------------------------------
(* What the capacity checks go by.                                         *)

Rowed == {c \in Categories : IsRow(stock[c])}
ForSale(e) == Total(stock, CategoriesOf(e))
Taken(e) == Total(live, CategoriesOf(e))

HasRead(w, s) == \E i \in 1..(task[w].at - 1) : Statements[Ask(w).op][i] = s

\* The statements and what they have read are typed.
ReadsTyped(w) ==
    Sizing(w) =>
        /\ task[w].at \in DOMAIN Statements[Ask(w).op]
        /\ Seen(w) \in [quantity : Nat, capacity : Nat, stock : Nat, sold : Nat]

\* What the request of a category has read of its event e is still so.
EventSeen(w, e) ==
    /\ HasRead(w, "category") => IsRow(stock[Ask(w).id]) /\ Seen(w).quantity = stock[Ask(w).id]
    /\ HasRead(w, "event") => IsRow(status[e]) /\ Seen(w).capacity = capacity[venueOf[e]]
    /\ HasRead(w, "stock") => Seen(w).stock = ForSale(e)
    /\ HasRead(w, "sold") => Seen(w).sold = Taken(e)

CategoryReads(w) ==
    Sizing(w) /\ Ask(w).op # "resizeVenue" =>
        /\ Ask(w).op = "createCategory" => Seen(w).quantity = 0
        /\ EventOf[Ask(w).id] \notin disturbed => EventSeen(w, EventOf[Ask(w).id])

\* What a request of a venue has counted covers each of its events.
VenueReads(w) ==
    Sizing(w) /\ Ask(w).op = "resizeVenue" =>
        \A e \in EventsAt(Ask(w).id) \ disturbed :
            /\ HasRead(w, "stock") => ForSale(e) <= Seen(w).stock
            /\ HasRead(w, "sold") => Taken(e) <= Seen(w).sold

ReadsHold(w) == ReadsTyped(w) /\ CategoryReads(w) /\ VenueReads(w)

Fits(e) == IsRow(status[e]) /\ e \notin disturbed => WithinCapacity(e)

CapacityInv ==
    /\ IsFiniteSet(Rowed)
    /\ \A w \in Workers : ReadsHold(w)
    /\ \A e \in Events : Fits(e)

\* Nothing that a capacity check of event e goes by changes.
SameEvent(e) ==
    /\ IsRow(status'[e]) <=> IsRow(status[e])
    /\ IsRow(status[e]) =>
          venueOf'[e] = venueOf[e] /\ capacity'[venueOf[e]] = capacity[venueOf[e]]
    /\ \A c \in Categories : EventOf[c] = e => stock'[c] = stock[c] /\ live'[c] = live[c]

\* Event e is written to, and what other requests have read of it counts no more.
Touched(e) ==
    /\ IsRow(status'[e]) => IsRow(status[e])
    /\ venueOf'[e] = venueOf[e]
    /\ \A x \in Workers :
          Sizing(x) /\ task'[x] = task[x] /\ task[x].at > 1 /\ e \in Scope(Ask(x)) =>
              e \in disturbed'

\* A step keeps, makes, or disturbs event e.
Seemly(e) ==
    \/ SameEvent(e)
    \/ Touched(e)
    \/ ~IsRow(status[e]) /\ CategoriesOf(e)' = {}
    \/ e \in disturbed'

\* The effect of a step on the events.
Effect ==
    /\ IsFiniteSet(Rowed')
    /\ disturbed \subseteq disturbed'
    /\ \A e \in Events : Seemly(e) /\ Fits(e)'

\* The statements of the requests that check a capacity.
LEMMA SizingStatements ==
    /\ Statements["createCategory"] = <<"event", "stock", "sold", "write">>
    /\ Statements["updateCategory"] = <<"category", "event", "stock", "sold", "write">>
    /\ Statements["resizeVenue"] = <<"venue", "stock", "sold", "write">>
BY DEF Statements

\* By its write a request has read everything.
LEMMA AllRead ==
    ASSUME NEW w \in Workers, Sizing(w), ReadsTyped(w), At(w, "write")
    PROVE  /\ HasRead(w, "stock") /\ HasRead(w, "sold")
           /\ Ask(w).op # "resizeVenue" => HasRead(w, "event")
           /\ Ask(w).op = "updateCategory" => HasRead(w, "category")
<1>1. CASE Ask(w).op = "createCategory"
    <2>1. task[w].at = 4
        BY <1>1, SizingStatements DEF Sizing, ReadsTyped, At, Ask
    <2> QED BY <1>1, <2>1, SizingStatements DEF HasRead
<1>2. CASE Ask(w).op = "updateCategory"
    <2>1. task[w].at = 5
        BY <1>2, SizingStatements DEF Sizing, ReadsTyped, At, Ask
    <2> QED BY <1>2, <2>1, SizingStatements DEF HasRead
<1>3. CASE Ask(w).op = "resizeVenue"
    <2>1. task[w].at = 4
        BY <1>3, SizingStatements DEF Sizing, ReadsTyped, At, Ask
    <2> QED BY <1>3, <2>1, SizingStatements DEF HasRead
<1> QED BY <1>1, <1>2, <1>3 DEF Sizing

\* Past its first statement, a request has read the row it is about.
LEMMA FirstRead ==
    ASSUME NEW w \in Workers, Sizing(w), ReadsTyped(w), task[w].at > 1
    PROVE  /\ Ask(w).op = "createCategory" => HasRead(w, "event")
           /\ Ask(w).op = "updateCategory" => HasRead(w, "category")
<1>1. task[w].at \in 1..5
    BY SizingStatements DEF Sizing, ReadsTyped
<1>2. 1 \in 1..(task[w].at - 1)
    BY <1>1
<1> QED BY <1>2, SizingStatements DEF HasRead

\* Before it, none.
LEMMA NothingRead ==
    ASSUME NEW w, task[w].at = 1, NEW s
    PROVE  ~HasRead(w, s)
BY DEF HasRead

\* A read adds its statement to those that have been read.
LEMMA ReadAdds ==
    ASSUME CatalogInv, NEW w \in Workers, NEW s, At(w, s), NEW seen, Read(w, TRUE, seen), NEW t
    PROVE  HasRead(w, t)' <=> HasRead(w, t) \/ t = s
<1>1. task[w] # Idle /\ task[w].at \in Nat \ {0}
    BY DEF At, CatalogInv, TasksTyped
<1>2. task'[w] = [ask |-> Ask(w), at |-> task[w].at + 1, seen |-> seen]
    BY DEF Read, CatalogInv, TasksTyped
<1>3. Ask(w)' = Ask(w) /\ task'[w].at = task[w].at + 1
    BY <1>2 DEF Ask
<1>4. s = Statements[Ask(w).op][task[w].at]
    BY DEF At, Ask
<1>5. (1..task[w].at) = (1..(task[w].at - 1)) \cup {task[w].at} /\ task'[w].at - 1 = task[w].at
    BY <1>1, <1>3
<1> QED BY <1>3, <1>4, <1>5 DEF HasRead

\* The categories of an event that is kept, and their tickets, are the same.
LEMMA SameSums ==
    ASSUME NEW e, SameEvent(e)
    PROVE  CategoriesOf(e)' = CategoriesOf(e) /\ ForSale(e)' = ForSale(e) /\ Taken(e)' = Taken(e)
<1>1. CategoriesOf(e)' = CategoriesOf(e)
    BY DEF CategoriesOf, SameEvent
<1>2. \A c \in CategoriesOf(e) : stock'[c] = stock[c] /\ live'[c] = live[c]
    BY DEF CategoriesOf, SameEvent
<1>3. /\ Total(stock', CategoriesOf(e)) = Total(stock, CategoriesOf(e))
      /\ Total(live', CategoriesOf(e)) = Total(live, CategoriesOf(e))
    BY <1>2, TotalSame
<1>4. ForSale(e)' = Total(stock', CategoriesOf(e)) /\ Taken(e)' = Total(live', CategoriesOf(e))
    BY <1>1 DEF ForSale, Taken, Total
<1> QED BY <1>1, <1>3, <1>4 DEF ForSale, Taken

\* Event e fits as it did.
LEMMA SameFits ==
    ASSUME NEW e \in Events, SameEvent(e), Fits(e), disturbed \subseteq disturbed'
    PROVE  Fits(e)'
<1>1. ASSUME IsRow(status'[e]), e \notin disturbed' PROVE WithinCapacity(e)'
    <2>1. IsRow(status[e]) /\ WithinCapacity(e) /\ capacity'[venueOf'[e]] = capacity[venueOf[e]]
        BY <1>1 DEF SameEvent, Fits
    <2>2. ForSale(e) + Taken(e) <= capacity[venueOf[e]]
        BY <2>1 DEF WithinCapacity, ForSale, Taken
    <2>3. ForSale(e)' + Taken(e)' <= capacity'[venueOf'[e]]
        BY <2>1, <2>2, SameSums
    <2> QED BY <2>3 DEF WithinCapacity, ForSale, Taken
<1> QED BY <1>1 DEF Fits

\* The categories of an event are finitely many, and so its totals are numbers.
LEMMA EventTotals ==
    ASSUME RowsTyped, IsFiniteSet(Rowed), NEW e
    PROVE  /\ IsFiniteSet(CategoriesOf(e)) /\ CategoriesOf(e) \in SUBSET Categories
           /\ RowTyped(stock) /\ RowTyped(live)
           /\ ForSale(e) \in Nat /\ Taken(e) \in Nat
<1>1. CategoriesOf(e) \subseteq Rowed /\ CategoriesOf(e) \in SUBSET Categories
    BY DEF CategoriesOf, Rowed
<1>2. IsFiniteSet(CategoriesOf(e))
    BY <1>1, FS_Subset
<1>3. RowTyped(stock) /\ RowTyped(live)
    BY DEF RowsTyped, RowTyped
<1> QED BY <1>1, <1>2, <1>3, TotalType DEF ForSale, Taken

-----------------------------------------------------------------------------
(* What the writes do to the events.                                       *)

\* A step that keeps every event.
LEMMA SameEffect ==
    ASSUME CapacityInv, \A e \in Events : SameEvent(e), stock' = stock, disturbed \subseteq disturbed'
    PROVE  Effect
<1>1. Rowed' = Rowed
    BY DEF Rowed
<1>2. IsFiniteSet(Rowed')
    BY <1>1, Zenon DEF CapacityInv
<1> QED BY <1>2, SameFits DEF Effect, Seemly, CapacityInv

LEMMA QuietEffect ==
    ASSUME CapacityInv, UNCHANGED <<rows, disturbed, raced>>
    PROVE  Effect
BY SameEffect DEF SameEvent, rows, IsRow

\* A change of status from one to another.
LEMMA StatusEffect ==
    ASSUME CatalogInv, CapacityInv, NEW w \in Workers, UpdateStatus(w)
    PROVE  Effect
<1>1. CASE UNCHANGED <<rows, disturbed, raced>>
    BY <1>1, QuietEffect
<1>2. CASE ~UNCHANGED <<rows, disturbed, raced>>
    <2>1. Ask(w).op \in DOMAIN StatusAsked
        BY DEF UpdateStatus, Switching
    <2>2. /\ IsRow(status[Ask(w).id])
          /\ status' = [status EXCEPT ![Ask(w).id] = StatusAsked[Ask(w).op]]
          /\ UNCHANGED <<venueOf, capacity, stock, live, void, couponOf, disturbed>>
        BY <1>2 DEF UpdateStatus, Write
    <2>3. IsRow(StatusAsked[Ask(w).op])
        BY <2>1, StatusFirst, RowFacts
    <2>4. \A e \in Events : SameEvent(e)
        BY <2>2, <2>3 DEF SameEvent, CatalogInv, RowsTyped
    <2> QED BY <2>2, <2>4, SameEffect
<1> QED BY <1>1, <1>2

LEMMA CouponEffect ==
    ASSUME CapacityInv, NEW w \in Workers, CreateCoupon(w) \/ DeleteCoupon(w)
    PROVE  Effect
<1>1. UNCHANGED <<status, venueOf, capacity, stock, live, void, disturbed>>
    BY DEF CreateCoupon, DeleteCoupon, Write, WriteCoupon, rows
<1> QED BY <1>1, SameEffect DEF SameEvent, IsRow

\* A venue without events is no event's.
LEMMA EmptyVenueEffect ==
    ASSUME CatalogInv, CapacityInv, NEW w \in Workers, CreateVenue(w) \/ DeleteVenue(w)
    PROVE  Effect
<1> DEFINE v == Ask(w).id
<1>1. CASE UNCHANGED <<rows, disturbed, raced>>
    BY <1>1, QuietEffect
<1>2. CASE ~UNCHANGED <<rows, disturbed, raced>>
    <2>1. PICK x :
              /\ WriteCapacity(w, v, x)
              /\ capacity[v] = Absent \/ EventsAt(v) = {}
        BY <1>2 DEF CreateVenue, DeleteVenue, Write, RemovableVenue
    <2>2. \A e \in Events : IsRow(status[e]) =>
              venueOf[e] \in Venues /\ venueOf[e] # v
        BY <2>1, RowFacts DEF CatalogInv, Related, RowsHaveTheirParents, EventsAt
    <2>3. /\ UNCHANGED <<status, venueOf, stock, live>>
          /\ capacity' = [capacity EXCEPT ![v] = x]
          /\ disturbed \subseteq disturbed'
        BY <2>1 DEF WriteCapacity, Disturb
    <2>4. \A u \in Venues : u # v => capacity'[u] = capacity[u]
        BY <2>3 DEF CatalogInv, RowsTyped
    <2>5. \A e \in Events : SameEvent(e)
        BY <2>2, <2>3, <2>4 DEF SameEvent
    <2> QED BY <2>3, <2>5, SameEffect
<1> QED BY <1>1, <1>2

\* A venue's new capacity has room for each of its events that nothing disturbed.
LEMMA ResizeEffect ==
    ASSUME CatalogInv, CapacityInv, NEW w \in Workers, ResizeVenue(w)
    PROVE  Effect
<1> DEFINE v == Ask(w).id
           n == Ask(w).size
<1>1. /\ Sizing(w) /\ Ask(w).op = "resizeVenue"
      /\ At(w, "write") /\ task' = [task EXCEPT ![w] = Idle]
    BY DEF ResizeVenue, Running, Sizing, Ask, Write
<1>2. v \in Venues /\ n \in Nat
    BY <1>1, AskTypes DEF CatalogInv, TasksTyped, Sizing
<1>3. CASE UNCHANGED <<rows, disturbed, raced>>
    BY <1>3, QuietEffect
<1>4. CASE ~UNCHANGED <<rows, disturbed, raced>>
    <2>1. WriteCapacity(w, v, n) /\ Seen(w).stock + Seen(w).sold <= n
        BY <1>4 DEF ResizeVenue, Write
    <2>2. /\ UNCHANGED <<status, venueOf, stock, live>>
          /\ capacity' = [capacity EXCEPT ![v] = n]
          /\ Disturb(w, EventsAt(v))
          /\ disturbed \subseteq disturbed'
        BY <2>1 DEF WriteCapacity, Disturb
    <2>3. ReadsTyped(w) /\ VenueReads(w)
        BY DEF CapacityInv, ReadsHold
    <2>4. Seen(w).stock \in Nat /\ Seen(w).sold \in Nat
        BY <1>1, <2>3 DEF ReadsTyped
    <2>5. \A e \in EventsAt(v) \ disturbed : ForSale(e) <= Seen(w).stock /\ Taken(e) <= Seen(w).sold
        BY <1>1, <2>3, AllRead DEF VenueReads
    <2>6. ASSUME NEW e \in EventsAt(v) PROVE Seemly(e) /\ Fits(e)'
        <3>1. e \in Events /\ IsRow(status[e]) /\ venueOf[e] = v
            BY DEF EventsAt
        <3>2. Touched(e)
            BY <1>1, <2>2, <2>6, <3>1 DEF Touched, Disturb, Sizing, CatalogInv, TasksTyped, Ask
        <3>3. ASSUME e \notin disturbed' PROVE WithinCapacity(e)'
            <4>1. capacity'[venueOf'[e]] = n
                BY <1>2, <2>2, <3>1 DEF CatalogInv, RowsTyped
            <4>2. CategoriesOf(e)' = CategoriesOf(e)
                BY <2>2 DEF CategoriesOf
            <4>3. ForSale(e)' = ForSale(e) /\ Taken(e)' = Taken(e)
                BY <2>2, <4>2 DEF ForSale, Taken, Total
            <4>4. ForSale(e) <= Seen(w).stock /\ Taken(e) <= Seen(w).sold
                BY <2>2, <2>5, <2>6, <3>3
            <4>5. ForSale(e) \in Nat /\ Taken(e) \in Nat
                BY EventTotals DEF CatalogInv, CapacityInv
            <4>6. ForSale(e) + Taken(e) <= n
                BY <1>2, <2>1, <2>4, <4>4, <4>5
            <4>7. ForSale(e)' + Taken(e)' <= capacity'[venueOf'[e]]
                BY <4>1, <4>3, <4>6
            <4> QED BY <4>7 DEF WithinCapacity, ForSale, Taken
        <3> QED BY <3>2, <3>3 DEF Seemly, Fits
    <2>7. ASSUME NEW e \in Events \ EventsAt(v) PROVE Seemly(e) /\ Fits(e)'
        <3>1. IsRow(status[e]) => venueOf[e] \in Venues /\ venueOf[e] # v
            BY <2>7 DEF EventsAt, CatalogInv, Related, RowsHaveTheirParents
        <3>2. SameEvent(e)
            BY <2>2, <3>1 DEF SameEvent, CatalogInv, RowsTyped
        <3> QED BY <2>2, <3>2, SameFits DEF Seemly, CapacityInv
    <2>8. Rowed' = Rowed
        BY <2>2 DEF Rowed
    <2>9. IsFiniteSet(Rowed')
        BY <2>8, Zenon DEF CapacityInv
    <2> QED BY <2>2, <2>6, <2>7, <2>9 DEF Effect
<1> QED BY <1>3, <1>4

\* A new event has no category.
LEMMA CreateEventEffect ==
    ASSUME CatalogInv, CatalogInv', CapacityInv, NEW w \in Workers, CreateEvent(w)
    PROVE  Effect
<1>0. PICK d : d = Ask(w).id
    OBVIOUS
<1>1. CASE UNCHANGED <<rows, disturbed, raced>>
    BY <1>1, QuietEffect
<1>2. CASE ~UNCHANGED <<rows, disturbed, raced>>
    <2>1. /\ status[d] = Absent
          /\ status' = [status EXCEPT ![d] = "DRAFT"]
          /\ venueOf' = [venueOf EXCEPT ![d] = Ask(w).venue]
          /\ UNCHANGED <<capacity, stock, live, void, couponOf, disturbed>>
        BY <1>0, <1>2 DEF CreateEvent, Write
    <2>2. Rowed' = Rowed
        BY <2>1 DEF Rowed
    <2>3. IsFiniteSet(Rowed')
        BY <2>2, Zenon DEF CapacityInv
    <2>4. ASSUME NEW e \in Events, e # d PROVE Seemly(e) /\ Fits(e)'
        <3>1. SameEvent(e)
            BY <2>1, <2>4 DEF SameEvent, CatalogInv, RowsTyped
        <3> QED BY <2>1, <3>1, SameFits DEF Seemly, CapacityInv
    <2>5. ASSUME d \in Events PROVE Seemly(d) /\ Fits(d)'
        <3>1. ~IsRow(status[d])
            BY <2>1, RowFacts
        <3>2. CategoriesOf(d)' = {}
            BY <2>1, <3>1 DEF CategoriesOf, CatalogInv, Related, RowsHaveTheirParents
        <3>3. ASSUME IsRow(status'[d]) PROVE WithinCapacity(d)'
            <4>1. capacity'[venueOf'[d]] \in Nat
                BY <2>5, <3>3 DEF CatalogInv, RowsTyped, Related, RowsHaveTheirParents, IsRow
            <4>2. RowTyped(stock') /\ RowTyped(live')
                BY DEF CatalogInv, RowsTyped, RowTyped
            <4>3. Total(stock', {}) = 0 /\ Total(live', {}) = 0
                BY <4>2, TotalType, FS_EmptySet
            <4>4. ForSale(d)' = 0 /\ Taken(d)' = 0
                BY <3>2, <4>3, Zenon DEF ForSale, Taken, Total
            <4>5. ForSale(d)' + Taken(d)' <= capacity'[venueOf'[d]]
                BY <4>1, <4>4
            <4> QED BY <4>5 DEF WithinCapacity, ForSale, Taken
        <3> QED BY <3>1, <3>2, <3>3 DEF Seemly, Fits
    <2> QED BY <2>1, <2>3, <2>4, <2>5 DEF Effect
<1> QED BY <1>1, <1>2

\* A move is never checked, and always counts as a disturbance.
LEMMA MoveEventEffect ==
    ASSUME CatalogInv, CapacityInv, NEW w \in Workers, MoveEvent(w)
    PROVE  Effect
<1>0. PICK d : d = Ask(w).id
    OBVIOUS
<1>1. CASE UNCHANGED <<rows, disturbed, raced>>
    BY <1>1, QuietEffect
<1>2. CASE ~UNCHANGED <<rows, disturbed, raced>>
    <2>1. /\ venueOf' = [venueOf EXCEPT ![d] = Ask(w).venue]
          /\ disturbed' = disturbed \cup {d}
          /\ UNCHANGED <<status, capacity, stock, live, void, couponOf>>
        BY <1>0, <1>2 DEF MoveEvent, Write
    <2>2. Rowed' = Rowed
        BY <2>1 DEF Rowed
    <2>3. IsFiniteSet(Rowed')
        BY <2>2, Zenon DEF CapacityInv
    <2>4. ASSUME NEW e \in Events, e # d PROVE Seemly(e) /\ Fits(e)'
        <3>1. SameEvent(e)
            BY <2>1, <2>4 DEF SameEvent, CatalogInv, RowsTyped
        <3> QED BY <2>1, <3>1, SameFits DEF Seemly, CapacityInv
    <2>5. Seemly(d) /\ Fits(d)'
        BY <2>1 DEF Seemly, Fits
    <2> QED BY <2>1, <2>3, <2>4, <2>5 DEF Effect
<1> QED BY <1>1, <1>2

\* A deleted event leaves the others as they are.
LEMMA DeleteEventEffect ==
    ASSUME CatalogInv, CapacityInv, NEW w \in Workers, DeleteEvent(w)
    PROVE  Effect
<1>0. PICK d : d = Ask(w).id
    OBVIOUS
<1>1. CASE UNCHANGED <<rows, disturbed, raced>>
    BY <1>1, QuietEffect
<1>2. CASE ~UNCHANGED <<rows, disturbed, raced>>
    <2>1. /\ status' = [status EXCEPT ![d] = Deleted]
          /\ stock' = [c \in Categories |-> IF c \in CategoriesOf(d) THEN Deleted ELSE stock[c]]
          /\ Disturb(w, {d})
          /\ UNCHANGED <<venueOf, capacity, live, void>>
          /\ task' = [task EXCEPT ![w] = Idle]
        BY <1>0, <1>2 DEF DeleteEvent, Write
    <2>2. disturbed \subseteq disturbed'
        BY <2>1 DEF Disturb
    <2>3. Rowed' \subseteq Rowed
        BY <2>1, RowFacts DEF Rowed
    <2>4. IsFiniteSet(Rowed')
        BY <2>3, FS_Subset DEF CapacityInv
    <2>5. ASSUME NEW e \in Events, e # d PROVE Seemly(e) /\ Fits(e)'
        <3>1. SameEvent(e)
            BY <2>1, <2>5 DEF SameEvent, CatalogInv, RowsTyped, CategoriesOf
        <3> QED BY <2>2, <3>1, SameFits DEF Seemly, CapacityInv
    <2>6. ASSUME d \in Events PROVE Seemly(d) /\ Fits(d)'
        <3>1. status'[d] = Deleted
            BY <2>1, <2>6 DEF CatalogInv, RowsTyped
        <3>2. ~IsRow(status'[d])
            BY <3>1, RowFacts
        <3>3. Touched(d)
            BY <2>1, <3>2 DEF Touched, Disturb, Sizing, CatalogInv, TasksTyped, Ask
        <3> QED BY <3>2, <3>3 DEF Seemly, Fits
    <2> QED BY <2>2, <2>4, <2>5, <2>6 DEF Effect
<1> QED BY <1>1, <1>2

\* A step that touches one category and its tickets touches its event, and no other.
LEMMA OneCategory ==
    ASSUME CatalogInv, CapacityInv, NEW c \in Categories, NEW w,
           UNCHANGED <<status, venueOf, capacity>>,
           \A x \in Categories \ {c} : stock'[x] = stock[x] /\ live'[x] = live[x],
           Disturb(w, {EventOf[c]}),
           w \in Workers => task'[w] = Idle,
           WithinCapacity(EventOf[c])'
               \/ EventOf[c] \in disturbed' \/ ~IsRow(status[EventOf[c]])
    PROVE  Effect
<1> DEFINE d == EventOf[c]
<1>1. Rowed' \subseteq Rowed \cup {c}
    BY DEF Rowed
<1>2. IsFiniteSet(Rowed')
    BY <1>1, FS_AddElement, FS_Subset DEF CapacityInv
<1>3. disturbed \subseteq disturbed'
    BY DEF Disturb
<1>4. ASSUME NEW e \in Events, e # d PROVE Seemly(e) /\ Fits(e)'
    <2>1. SameEvent(e)
        BY <1>4 DEF SameEvent
    <2> QED BY <1>3, <2>1, SameFits DEF Seemly, CapacityInv
<1>5. Seemly(d) /\ Fits(d)'
    <2>1. Touched(d)
        BY DEF Touched, Disturb, Sizing, CatalogInv, TasksTyped, Ask
    <2> QED BY <2>1 DEF Seemly, Fits
<1> QED BY <1>2, <1>3, <1>4, <1>5 DEF Effect

\* What a category's request goes by at its write, when nothing disturbed the event.
LEMMA CheckedCategory ==
    ASSUME CatalogInv, CapacityInv, NEW w \in Workers, Sizing(w), Ask(w).op # "resizeVenue",
           At(w, "write"), EventOf[Ask(w).id] \notin disturbed,
           Allocated(w) <= Seen(w).capacity
    PROVE  LET c == Ask(w).id
               e == EventOf[c]
               now == IF Ask(w).op = "updateCategory" THEN stock[c] ELSE 0
           IN /\ now \in Nat /\ (Ask(w).op = "updateCategory" => IsRow(stock[c]))
              /\ ForSale(e) + Taken(e) - now + Ask(w).size <= capacity[venueOf[e]]
<1> DEFINE c == Ask(w).id
           e == EventOf[c]
<1>1. ReadsTyped(w) /\ CategoryReads(w)
    BY DEF CapacityInv, ReadsHold
<1>2. EventSeen(w, e) /\ (Ask(w).op = "createCategory" => Seen(w).quantity = 0)
    BY <1>1 DEF CategoryReads
<1>3. /\ Seen(w).capacity = capacity[venueOf[e]]
      /\ Seen(w).stock = ForSale(e) /\ Seen(w).sold = Taken(e)
      /\ Ask(w).op = "updateCategory" => IsRow(stock[c]) /\ Seen(w).quantity = stock[c]
    BY <1>1, <1>2, AllRead DEF EventSeen
<1>4. Seen(w).quantity \in Nat
    BY <1>1 DEF ReadsTyped
<1>5. Ask(w).op \in {"createCategory", "updateCategory"}
    BY DEF Sizing
<1>6. Seen(w).quantity = IF Ask(w).op = "updateCategory" THEN stock[c] ELSE 0
    BY <1>2, <1>3, <1>5
<1>7. Seen(w).stock + Seen(w).sold - Seen(w).quantity + Ask(w).size <= Seen(w).capacity
    BY DEF Allocated
<1> QED BY <1>3, <1>4, <1>6, <1>7

\* There is no ticket of a category that is not there.
LEMMA NoRowNoTicket ==
    ASSUME CatalogInv, NEW c \in Categories, ~IsRow(stock[c])
    PROVE  live[c] = 0
<1>1. live[c] \in Nat /\ void[c] \in Nat
    BY DEF CatalogInv, RowsTyped
<1>2. ~HasItems(c)
    BY DEF CatalogInv, Related, RowsHaveTheirParents
<1> QED BY <1>1, <1>2 DEF HasItems

\* A request that has written is gone.
LEMMA TaskGone ==
    ASSUME CatalogInv, NEW w \in Workers, task' = [task EXCEPT ![w] = Idle]
    PROVE  task'[w] = Idle
BY DEF CatalogInv, TasksTyped

\* A category is created or resized within what the check found free.
LEMMA SizedCategoryEffect ==
    ASSUME CatalogInv, CatalogInv', CapacityInv, NEW w \in Workers,
           CreateCategory(w) \/ UpdateCategory(w)
    PROVE  Effect
<1>0. PICK c, n : c = Ask(w).id /\ n = Ask(w).size
    OBVIOUS
<1>1. /\ Sizing(w) /\ Ask(w).op \in {"createCategory", "updateCategory"}
      /\ At(w, "write") /\ task' = [task EXCEPT ![w] = Idle]
    BY DEF CreateCategory, UpdateCategory, Running, Sizing, Ask, Write
<1>2. c \in Categories /\ n \in Nat
    BY <1>0, <1>1, AskTypes DEF CatalogInv, TasksTyped, Sizing
<1>3. CASE UNCHANGED <<rows, disturbed, raced>>
    BY <1>3, QuietEffect
<1>4. CASE ~UNCHANGED <<rows, disturbed, raced>>
    <2> DEFINE e == EventOf[c]
               S == CategoriesOf(e)
    <2>1. /\ Allocated(w) <= Seen(w).capacity
          /\ WriteStock(w, c, n)
          /\ \/ Ask(w).op = "createCategory" /\ stock[c] = Absent
             \/ Ask(w).op = "updateCategory" /\ IsRow(stock[c])
        BY <1>0, <1>4 DEF CreateCategory, UpdateCategory, Write, Running, Ask
    <2>2. /\ stock' = [stock EXCEPT ![c] = n] /\ Disturb(w, {e})
          /\ UNCHANGED <<status, venueOf, capacity, live, void>>
        BY <2>1 DEF WriteStock
    <2>3. stock'[c] = n /\ \A x \in Categories \ {c} : stock'[x] = stock[x] /\ live'[x] = live[x]
        BY <1>2, <2>2 DEF CatalogInv, RowsTyped
    <2>4. ASSUME e \notin disturbed' PROVE WithinCapacity(e)'
        <3> DEFINE now == IF Ask(w).op = "updateCategory" THEN stock[c] ELSE 0
        <3>1. e \notin disturbed
            BY <2>2, <2>4 DEF Disturb
        <3>2. /\ now \in Nat
              /\ ForSale(e) + Taken(e) - now + n <= capacity[venueOf[e]]
            BY <1>0, <1>1, <2>1, <3>1, CheckedCategory
        <3>3. /\ IsFiniteSet(S) /\ S \in SUBSET Categories
              /\ RowTyped(stock) /\ RowTyped(live) /\ ForSale(e) \in Nat /\ Taken(e) \in Nat
            BY EventTotals DEF CatalogInv, CapacityInv
        <3>4. RowTyped(stock') /\ IsRow(n)
            BY <1>2, RowFacts DEF CatalogInv, RowsTyped, RowTyped
        <3>5. ForSale(e)' = ForSale(e) - now + n /\ Taken(e)' = Taken(e)
            <4>1. CASE Ask(w).op = "updateCategory"
                <5>1. c \in S /\ IsRow(stock[c]) /\ now = stock[c]
                    BY <1>2, <2>1, <4>1 DEF CategoriesOf
                <5>2. CategoriesOf(e)' = S
                    BY <1>2, <2>3, <3>4, <5>1 DEF CategoriesOf
                <5>3. ForSale(e)' = Total(stock', S) /\ Taken(e)' = Total(live, S)
                    BY <2>2, <5>2, Zenon DEF ForSale, Taken, Total
                <5> HIDE DEF S
                <5>4. Total(stock', S) = Total(stock, S) - stock[c] + stock'[c]
                    BY <2>3, <3>3, <3>4, <5>1, TotalReplace
                <5> QED BY <2>3, <5>1, <5>3, <5>4 DEF ForSale, Taken, S
            <4>2. CASE Ask(w).op = "createCategory"
                <5>1. ~IsRow(stock[c]) /\ c \in Categories \ S /\ now = 0
                    BY <1>2, <2>1, <4>2, RowFacts DEF CategoriesOf
                <5>2. CategoriesOf(e)' = S \cup {c}
                    BY <1>2, <2>3, <3>4 DEF CategoriesOf
                <5>3. live[c] = 0
                    BY <1>2, <5>1, NoRowNoTicket
                <5>4. IsRow(0)
                    BY RowFacts
                <5>5. ForSale(e)' = Total(stock', S \cup {c}) /\ Taken(e)' = Total(live, S \cup {c})
                    BY <2>2, <5>2, Zenon DEF ForSale, Taken, Total
                <5>6. Total(stock', S) = Total(stock, S)
                    BY <2>3, <3>3, <5>1, TotalSame
                <5> HIDE DEF S
                <5>7. Total(stock', S \cup {c}) = stock'[c] + Total(stock', S)
                    BY <2>3, <3>3, <3>4, <5>1, TotalAdd
                <5>8. Total(live, S \cup {c}) = live[c] + Total(live, S)
                    BY <3>3, <5>1, <5>3, <5>4, TotalAdd
                <5>9. Total(stock, S) = ForSale(e) /\ Total(live, S) = Taken(e)
                    BY DEF ForSale, Taken, S
                <5> HIDE DEF now, e
                <5> QED BY <1>2, <2>3, <3>3, <5>1, <5>3, <5>5, <5>6, <5>7, <5>8, <5>9
            <4> QED BY <1>1, <4>1, <4>2
        <3> HIDE DEF now, e
        <3>6. ForSale(e)' + Taken(e)' = ForSale(e) + Taken(e) - now + n
            BY <1>2, <3>2, <3>3, <3>5
        <3>7. ForSale(e)' + Taken(e)' <= capacity[venueOf[e]]
            BY <3>2, <3>6
        <3> QED BY <2>2, <3>7 DEF WithinCapacity, ForSale, Taken, e
    <2> QED BY <1>1, <1>2, <2>2, <2>3, <2>4, OneCategory, TaskGone
<1> QED BY <1>3, <1>4

\* A removed category leaves the others of its event, and no ticket.
LEMMA RemoveCategoryEffect ==
    ASSUME CatalogInv, CatalogInv', CapacityInv, NEW w \in Workers, RemoveCategory(w)
    PROVE  Effect
<1>0. PICK c : c = Ask(w).id
    OBVIOUS
<1>1. task[w] # Idle /\ Ask(w).op = "removeCategory" /\ task' = [task EXCEPT ![w] = Idle]
    BY DEF RemoveCategory, Running, Ask, Write
<1>2. c \in Categories
    BY <1>0, <1>1, AskTypes DEF CatalogInv, TasksTyped
<1>3. CASE UNCHANGED <<rows, disturbed, raced>>
    BY <1>3, QuietEffect
<1>4. CASE ~UNCHANGED <<rows, disturbed, raced>>
    <2> DEFINE e == EventOf[c]
               S == CategoriesOf(e)
               T == S \ {c}
    <2>1. IsRow(stock[c]) /\ WriteStock(w, c, Deleted)
        BY <1>0, <1>4 DEF RemoveCategory, Write, RemovableCategory
    <2>2. /\ stock' = [stock EXCEPT ![c] = Deleted] /\ Disturb(w, {e})
          /\ UNCHANGED <<status, venueOf, capacity, live, void>>
        BY <2>1 DEF WriteStock
    <2>3. /\ stock'[c] = Deleted
          /\ \A x \in Categories \ {c} : stock'[x] = stock[x] /\ live'[x] = live[x]
        BY <1>2, <2>2 DEF CatalogInv, RowsTyped
    <2>4. ASSUME e \notin disturbed', IsRow(status[e]) PROVE WithinCapacity(e)'
        <3>1. e \notin disturbed /\ e \in Events
            BY <1>2, <2>2, <2>4, CatalogAssumption DEF Disturb
        <3>2. ForSale(e) + Taken(e) <= capacity[venueOf[e]] /\ capacity[venueOf[e]] \in Nat
            BY <2>4, <3>1 DEF CapacityInv, Fits, WithinCapacity, ForSale, Taken,
               CatalogInv, RowsTyped, Related, RowsHaveTheirParents, IsRow
        <3>3. /\ IsFiniteSet(S) /\ S \in SUBSET Categories /\ c \in S
              /\ RowTyped(stock) /\ RowTyped(live) /\ ForSale(e) \in Nat /\ Taken(e) \in Nat
            BY <1>2, <2>1, EventTotals DEF CatalogInv, CapacityInv, CategoriesOf
        <3>4. CategoriesOf(e)' = T
            BY <1>2, <2>3, RowFacts DEF CategoriesOf
        <3>5. ForSale(e)' = Total(stock', T) /\ Taken(e)' = Total(live, T)
            BY <2>2, <3>4, Zenon DEF ForSale, Taken, Total
        <3>6. Total(stock', T) = Total(stock, T)
            BY <2>3, <3>3, TotalSame
        <3>7. Total(stock, T) <= Total(stock, S) /\ Total(live, T) <= Total(live, S)
            BY <3>3, TotalPart
        <3>8. T \in SUBSET Categories /\ IsFiniteSet(T)
            BY <3>3, FS_Subset
        <3>9. Total(stock, T) \in Nat /\ Total(live, T) \in Nat
            BY <3>3, <3>8, TotalType
        <3>10. Total(stock, S) = ForSale(e) /\ Total(live, S) = Taken(e)
            BY DEF ForSale, Taken
        <3> HIDE DEF T, S, e
        <3>11. ForSale(e)' + Taken(e)' <= capacity[venueOf[e]]
            BY <3>2, <3>3, <3>5, <3>6, <3>7, <3>9, <3>10
        <3> QED BY <2>2, <3>11 DEF WithinCapacity, ForSale, Taken, e
    <2> QED BY <1>1, <1>2, <2>2, <2>3, <2>4, OneCategory, TaskGone
<1> QED BY <1>3, <1>4

\* A ticket moves between the stock and the orders of its category.
LEMMA SaleEffect ==
    ASSUME CatalogInv, CatalogInv', CapacityInv, NEW c \in Categories, Sell(c) \/ Release(c)
    PROVE  Effect
<1> DEFINE e == EventOf[c]
           S == CategoriesOf(e)
<1>1. UNCHANGED <<status, venueOf, capacity>> /\ Disturb(Idle, {e})
    BY DEF Sell, Release
<1>2. IsRow(stock[c]) /\ IsRow(stock'[c])
    BY TicketsMovePreserves
<1>3. /\ stock[c] \in Nat /\ live[c] \in Nat /\ stock'[c] \in Nat /\ live'[c] \in Nat
      /\ stock'[c] + live'[c] = stock[c] + live[c]
      /\ \A x \in Categories \ {c} : stock'[x] = stock[x] /\ live'[x] = live[x]
    <2>1. stock[c] \in Nat /\ live[c] \in Nat /\ stock'[c] \in Nat /\ live'[c] \in Nat
        BY <1>2 DEF CatalogInv, RowsTyped, IsRow
    <2>2. /\ \A x \in Categories \ {c} : stock'[x] = stock[x] /\ live'[x] = live[x]
          /\ \/ stock'[c] = stock[c] - 1 /\ live'[c] = live[c] + 1
             \/ stock'[c] = stock[c] + 1 /\ live'[c] = live[c] - 1
        BY DEF Sell, Release, CatalogInv, RowsTyped
    <2> QED BY <2>1, <2>2
<1>4. ASSUME e \notin disturbed', IsRow(status[e]) PROVE WithinCapacity(e)'
    <2>1. e \notin disturbed /\ e \in Events
        BY <1>1, <1>4, CatalogAssumption DEF Disturb
    <2>2. ForSale(e) + Taken(e) <= capacity[venueOf[e]]
        BY <1>4, <2>1 DEF CapacityInv, Fits, WithinCapacity, ForSale, Taken
    <2>3. /\ IsFiniteSet(S) /\ S \in SUBSET Categories /\ c \in S
          /\ RowTyped(stock) /\ RowTyped(live) /\ ForSale(e) \in Nat /\ Taken(e) \in Nat
        BY <1>2, EventTotals DEF CatalogInv, CapacityInv, CategoriesOf
    <2>4. RowTyped(stock') /\ RowTyped(live') /\ IsRow(live[c]) /\ IsRow(live'[c])
        BY <1>3, RowFacts DEF CatalogInv, RowsTyped, RowTyped
    <2>5. CategoriesOf(e)' = S
        BY <1>2, <1>3 DEF CategoriesOf
    <2>6. ForSale(e)' = Total(stock', S) /\ Taken(e)' = Total(live', S)
        BY <2>5, Zenon DEF ForSale, Taken, Total
    <2>7. Total(stock, S) = ForSale(e) /\ Total(live, S) = Taken(e)
        BY DEF ForSale, Taken
    <2> HIDE DEF S, e
    <2>8. Total(stock', S) = Total(stock, S) - stock[c] + stock'[c]
        BY <1>2, <1>3, <2>3, <2>4, TotalReplace
    <2>9. Total(live', S) = Total(live, S) - live[c] + live'[c]
        BY <1>2, <1>3, <2>3, <2>4, TotalReplace
    <2>10. ForSale(e)' + Taken(e)' = ForSale(e) + Taken(e)
        BY <1>3, <2>3, <2>6, <2>7, <2>8, <2>9
    <2>11. ForSale(e)' + Taken(e)' <= capacity[venueOf[e]]
        BY <2>2, <2>10
    <2> QED BY <1>1, <2>11 DEF WithinCapacity, ForSale, Taken, e
<1> QED BY <1>1, <1>3, <1>4, OneCategory, CatalogAssumption

-----------------------------------------------------------------------------
(* What the requests under way have read.                                  *)

\* A request that a step leaves where it is goes by what is still so.
LEMMA TaskStays ==
    ASSUME CatalogInv, CatalogInv', CapacityInv, Effect, NEW x \in Workers, task'[x] = task[x]
    PROVE  ReadsHold(x)'
<1>1. /\ Ask(x)' = Ask(x) /\ Seen(x)' = Seen(x) /\ (Sizing(x)' <=> Sizing(x))
      /\ \A s : HasRead(x, s)' <=> HasRead(x, s)
    BY DEF Ask, Seen, Sizing, HasRead
<1>2. ReadsTyped(x) /\ CategoryReads(x) /\ VenueReads(x)
    BY DEF CapacityInv, ReadsHold
<1>3. ReadsTyped(x)'
    BY <1>1, <1>2 DEF ReadsTyped
<1>4. ASSUME Sizing(x) PROVE Ask(x) \in Asks /\ task[x].at \in Nat \ {0}
    BY <1>4 DEF CatalogInv, TasksTyped, Sizing
<1>5. CategoryReads(x)'
    <2>1. SUFFICES ASSUME Sizing(x), Ask(x).op # "resizeVenue"
                   PROVE  /\ Ask(x).op = "createCategory" => Seen(x).quantity = 0
                          /\ EventOf[Ask(x).id] \notin disturbed' =>
                                EventSeen(x, EventOf[Ask(x).id])'
        BY <1>1 DEF CategoryReads, EventSeen
    <2>2. Ask(x).op = "createCategory" => Seen(x).quantity = 0
        BY <1>2, <2>1 DEF CategoryReads
    <2>3. PICK c, e : c = Ask(x).id /\ e = EventOf[c]
        OBVIOUS
    <2>4. ASSUME e \notin disturbed' PROVE EventSeen(x, EventOf[Ask(x).id])'
        <3>1. CASE task[x].at = 1
            <4>1. \A s : ~HasRead(x, s)'
                BY <1>1, <3>1, NothingRead
            <4> QED BY <4>1 DEF EventSeen
        <3>2. CASE task[x].at > 1
            <4>1. Ask(x).op \in {"createCategory", "updateCategory"}
                BY <2>1 DEF Sizing
            <4>2. c \in Categories /\ e \in Events
                BY <1>4, <2>1, <2>3, <4>1, AskTypes, CatalogAssumption
            <4>3. e \notin disturbed
                BY <2>4 DEF Effect
            <4>4. EventSeen(x, e)
                BY <1>2, <2>1, <2>3, <4>3 DEF CategoryReads
            <4>5. IsRow(status[e])
                <5>1. \/ HasRead(x, "event")
                      \/ HasRead(x, "category")
                    BY <1>2, <2>1, <3>2, <4>1, FirstRead
                <5>2. HasRead(x, "event") => IsRow(status[e])
                    BY <4>4 DEF EventSeen
                <5>3. HasRead(x, "category") => IsRow(stock[c])
                    BY <2>3, <4>4 DEF EventSeen
                <5> QED BY <2>3, <4>2, <5>1, <5>2, <5>3
                    DEF CatalogInv, Related, RowsHaveTheirParents
            <4>6. Scope(Ask(x)) = {e}
                BY <2>3, <4>2, CatalogAssumption DEF Scope, EventAsked
            <4>7. SameEvent(e)
                <5>1. Seemly(e)
                    BY <4>2 DEF Effect
                <5>2. ~Touched(e)
                    BY <2>1, <2>4, <3>2, <4>6 DEF Touched, Sizing
                <5> QED BY <2>4, <4>5, <5>1, <5>2 DEF Seemly
            <4>8. /\ ForSale(e)' = ForSale(e) /\ Taken(e)' = Taken(e)
                  /\ IsRow(status'[e]) /\ capacity'[venueOf'[e]] = capacity[venueOf[e]]
                  /\ stock'[c] = stock[c]
                BY <2>3, <4>2, <4>5, <4>7, SameSums DEF SameEvent
            <4> QED BY <1>1, <2>3, <4>4, <4>8 DEF EventSeen
        <3> QED BY <1>4, <2>1, <3>1, <3>2
    <2> QED BY <2>2, <2>3, <2>4
<1>6. VenueReads(x)'
    <2>1. SUFFICES ASSUME Sizing(x), Ask(x).op = "resizeVenue",
                          NEW e \in EventsAt(Ask(x).id)', e \notin disturbed',
                          task[x].at > 1
                   PROVE  /\ HasRead(x, "stock") => ForSale(e)' <= Seen(x).stock
                          /\ HasRead(x, "sold") => Taken(e)' <= Seen(x).sold
        <3>1. Sizing(x) => task[x].at = 1 \/ task[x].at > 1
            BY <1>4
        <3>2. task[x].at = 1 => ~HasRead(x, "stock") /\ ~HasRead(x, "sold")
            BY NothingRead
        <3> QED BY <1>1, <3>1, <3>2 DEF VenueReads
    <2>2. PICK v : v = Ask(x).id
        OBVIOUS
    <2>3. v \in Venues /\ e \in Events /\ IsRow(status'[e]) /\ venueOf'[e] = v
        BY <1>1, <1>4, <2>1, <2>2, AskTypes DEF EventsAt
    <2>4. Seemly(e) /\ e \notin disturbed
        BY <2>1, <2>3 DEF Effect
    <2>5. CASE SameEvent(e)
        <3>1. e \in EventsAt(v) \ disturbed
            BY <2>3, <2>4, <2>5 DEF SameEvent, EventsAt
        <3> QED BY <1>2, <2>1, <2>2, <2>5, <3>1, SameSums DEF VenueReads
    <2>6. CASE Touched(e)
        <3>1. e \in EventsAt(v)
            BY <2>3, <2>6 DEF Touched, EventsAt
        <3>2. e \in Scope(Ask(x))
            BY <2>2, <2>3, <3>1 DEF Scope
        <3> QED BY <2>1, <2>6, <3>2 DEF Touched, Sizing
    <2>7. CASE CategoriesOf(e)' = {}
        <3>1. RowTyped(stock') /\ RowTyped(live')
            BY DEF CatalogInv, RowsTyped, RowTyped
        <3>2. Total(stock', {}) = 0 /\ Total(live', {}) = 0
            BY <3>1, TotalType, FS_EmptySet
        <3>3. ForSale(e)' = 0 /\ Taken(e)' = 0
            BY <2>7, <3>2, Zenon DEF ForSale, Taken, Total
        <3>4. Seen(x).stock \in Nat /\ Seen(x).sold \in Nat
            BY <1>2, <2>1 DEF ReadsTyped
        <3> QED BY <3>3, <3>4
    <2> QED BY <2>1, <2>4, <2>5, <2>6, <2>7 DEF Seemly
<1> QED BY <1>3, <1>5, <1>6 DEF ReadsHold

\* Which statements a request that checks a capacity makes, and that it has a next one.
LEMMA SizingReads ==
    ASSUME NEW w \in Workers, Sizing(w), ReadsTyped(w), NEW s, At(w, s)
    PROVE  /\ s \in {"category", "event", "venue", "stock", "sold", "write"}
           /\ s # "write" => task[w].at + 1 \in DOMAIN Statements[Ask(w).op]
           /\ s = "category" => Ask(w).op = "updateCategory"
           /\ s = "event" => Ask(w).op # "resizeVenue"
           /\ s = "venue" => Ask(w).op = "resizeVenue"
<1>1. /\ task[w].at \in DOMAIN Statements[Ask(w).op]
      /\ s = Statements[Ask(w).op][task[w].at]
    BY DEF ReadsTyped, At, Ask
<1>2. CASE Ask(w).op = "createCategory"
    BY <1>1, <1>2, SizingStatements
<1>3. CASE Ask(w).op = "updateCategory"
    BY <1>1, <1>3, SizingStatements
<1>4. CASE Ask(w).op = "resizeVenue"
    BY <1>1, <1>4, SizingStatements
<1> QED BY <1>2, <1>3, <1>4 DEF Sizing

\* What is read by statement s is so when it is read.
Sees(w, s, seen) ==
    /\ seen \in [quantity : Nat, capacity : Nat, stock : Nat, sold : Nat]
    /\ s # "category" => seen.quantity = Seen(w).quantity
    /\ s # "event" => seen.capacity = Seen(w).capacity
    /\ s # "stock" => seen.stock = Seen(w).stock
    /\ s # "sold" => seen.sold = Seen(w).sold
    /\ s = "category" => IsRow(stock[Ask(w).id]) /\ seen.quantity = stock[Ask(w).id]
    /\ Ask(w).op # "resizeVenue" =>
        LET e == EventOf[Ask(w).id]
        IN /\ s = "event" => IsRow(status[e]) /\ seen.capacity = capacity[venueOf[e]]
           /\ s = "stock" => seen.stock = ForSale(e)
           /\ s = "sold" => seen.sold = Taken(e)
    /\ Ask(w).op = "resizeVenue" =>
        \A e \in EventsAt(Ask(w).id) :
            /\ s = "stock" => ForSale(e) <= seen.stock
            /\ s = "sold" => Taken(e) <= seen.sold

LEMMA ReadKeeps ==
    ASSUME CatalogInv, CapacityInv, NEW w \in Workers, NEW s, Sizing(w), At(w, s), s # "write",
           NEW seen, Read(w, TRUE, seen), Sees(w, s, seen)
    PROVE  ReadsHold(w)'
<1>1. task'[w] = [ask |-> Ask(w), at |-> task[w].at + 1, seen |-> seen]
    BY DEF Read, CatalogInv, TasksTyped
<1>2. /\ Ask(w)' = Ask(w) /\ Seen(w)' = seen /\ task'[w].at = task[w].at + 1
      /\ \A t : HasRead(w, t)' <=> HasRead(w, t) \/ t = s
    <2>1. Ask(w)' = Ask(w) /\ Seen(w)' = seen /\ task'[w].at = task[w].at + 1
        BY <1>1 DEF Ask, Seen
    <2>2. \A t : HasRead(w, t)' <=> HasRead(w, t) \/ t = s
        BY ReadAdds
    <2> QED BY <2>1, <2>2
<1>3. UNCHANGED <<status, venueOf, capacity, stock, live, disturbed>>
    BY DEF Read, rows
<1>4. ReadsTyped(w) /\ CategoryReads(w) /\ VenueReads(w)
    BY DEF CapacityInv, ReadsHold
<1>5. ReadsTyped(w)'
    BY <1>2, <1>4, SizingReads DEF ReadsTyped, Sees
<1>6. \A e : /\ CategoriesOf(e)' = CategoriesOf(e) /\ EventsAt(e)' = EventsAt(e)
             /\ ForSale(e)' = ForSale(e) /\ Taken(e)' = Taken(e)
    BY <1>3 DEF CategoriesOf, EventsAt, ForSale, Taken, Total
<1>7. CategoryReads(w)'
    <2>1. SUFFICES ASSUME Ask(w).op # "resizeVenue"
                   PROVE  /\ Ask(w).op = "createCategory" => seen.quantity = 0
                          /\ EventOf[Ask(w).id] \notin disturbed =>
                                EventSeen(w, EventOf[Ask(w).id])'
        BY <1>2, <1>3 DEF CategoryReads, EventSeen
    <2>2. PICK c, e : c = Ask(w).id /\ e = EventOf[c]
        OBVIOUS
    <2>3. Ask(w).op = "createCategory" => seen.quantity = 0
        BY <1>4, <2>1, SizingReads DEF CategoryReads, Sees
    <2>4. ASSUME e \notin disturbed PROVE EventSeen(w, EventOf[Ask(w).id])'
        <3>1. EventSeen(w, e)
            BY <1>4, <2>1, <2>2, <2>4 DEF CategoryReads
        <3>2. HasRead(w, "category")' => IsRow(stock[c]) /\ seen.quantity = stock[c]
            BY <1>2, <2>2, <3>1 DEF EventSeen, Sees
        <3>3. HasRead(w, "event")' => IsRow(status[e]) /\ seen.capacity = capacity[venueOf[e]]
            BY <1>2, <2>1, <2>2, <3>1 DEF EventSeen, Sees
        <3>4. /\ HasRead(w, "stock")' => seen.stock = ForSale(e)
              /\ HasRead(w, "sold")' => seen.sold = Taken(e)
            BY <1>2, <2>1, <2>2, <3>1 DEF EventSeen, Sees
        <3> QED BY <1>2, <1>3, <1>6, <2>2, <3>2, <3>3, <3>4 DEF EventSeen
    <2> QED BY <2>2, <2>3, <2>4
<1>8. VenueReads(w)'
    <2>1. SUFFICES ASSUME Ask(w).op = "resizeVenue", NEW e \in EventsAt(Ask(w).id), e \notin disturbed
                   PROVE  /\ HasRead(w, "stock")' => ForSale(e) <= seen.stock
                          /\ HasRead(w, "sold")' => Taken(e) <= seen.sold
        BY <1>2, <1>3, <1>6 DEF VenueReads
    <2>2. /\ HasRead(w, "stock") => ForSale(e) <= Seen(w).stock
          /\ HasRead(w, "sold") => Taken(e) <= Seen(w).sold
        BY <1>4, <2>1 DEF VenueReads
    <2> QED BY <1>2, <2>1, <2>2 DEF Sees
<1> QED BY <1>5, <1>7, <1>8 DEF ReadsHold

\* What the sums of a request run over.
LEMMA SummedRows ==
    ASSUME CatalogInv, CapacityInv, NEW w \in Workers, Sizing(w)
    PROVE  /\ IsFiniteSet(Summed(Ask(w))) /\ Summed(Ask(w)) \in SUBSET Categories
           /\ RowTyped(stock) /\ RowTyped(live) /\ RowTyped(void)
           /\ Ask(w).op # "resizeVenue" =>
                 /\ Ask(w).id \in Categories /\ Ask(w).id \notin Venues
                 /\ EventAsked(Ask(w)) = EventOf[Ask(w).id]
                 /\ Summed(Ask(w)) = CategoriesOf(EventOf[Ask(w).id])
           /\ Ask(w).op = "resizeVenue" =>
                 /\ Ask(w).id \in Venues
                 /\ \A e \in EventsAt(Ask(w).id) : CategoriesOf(e) \subseteq Summed(Ask(w))
<1>1. Ask(w) \in Asks
    BY DEF Sizing, CatalogInv, TasksTyped
<1>2. RowTyped(stock) /\ RowTyped(live) /\ RowTyped(void)
    BY DEF CatalogInv, RowsTyped, RowTyped
<1>3. CASE Ask(w).op # "resizeVenue"
    <2>1. Ask(w).id \in Categories /\ Ask(w).id \notin Venues
        BY <1>1, <1>3, AskTypes, CatalogAssumption DEF Sizing
    <2>2. /\ EventAsked(Ask(w)) = EventOf[Ask(w).id]
          /\ Summed(Ask(w)) = CategoriesOf(EventOf[Ask(w).id])
        BY <2>1 DEF EventAsked, Summed
    <2>3. CategoriesOf(EventOf[Ask(w).id]) \subseteq Rowed
        BY DEF CategoriesOf, Rowed
    <2>4. IsFiniteSet(Summed(Ask(w))) /\ Summed(Ask(w)) \in SUBSET Categories
        BY <2>2, <2>3, FS_Subset DEF CapacityInv, CategoriesOf
    <2> QED BY <1>2, <1>3, <2>1, <2>2, <2>4
<1>4. CASE Ask(w).op = "resizeVenue"
    <2>1. Ask(w).id \in Venues
        BY <1>1, <1>4, AskTypes
    <2>2. Summed(Ask(w)) = CategoriesAt(Ask(w).id)
        BY <2>1 DEF Summed
    <2>3. Summed(Ask(w)) \subseteq Rowed /\ Summed(Ask(w)) \in SUBSET Categories
        BY <2>2 DEF CategoriesAt, CategoriesOf, Rowed
    <2>4. IsFiniteSet(Summed(Ask(w)))
        BY <2>3, FS_Subset DEF CapacityInv
    <2>5. \A e \in EventsAt(Ask(w).id) : CategoriesOf(e) \subseteq Summed(Ask(w))
        BY <2>2 DEF CategoriesAt
    <2> QED BY <1>2, <1>4, <2>1, <2>3, <2>4, <2>5
<1> QED BY <1>3, <1>4

LEMMA SumStockKeeps ==
    ASSUME CatalogInv, CapacityInv, NEW w \in Workers, Sizing(w), SumStock(w)
    PROVE  ReadsHold(w)'
<1> DEFINE S == Summed(Ask(w))
           seen == [Seen(w) EXCEPT !.stock = Total(stock, S)]
<1>1. At(w, "stock") /\ Read(w, TRUE, seen)
    BY DEF SumStock
<1>2. Seen(w) \in [quantity : Nat, capacity : Nat, stock : Nat, sold : Nat]
    BY DEF CapacityInv, ReadsHold, ReadsTyped
<1>3. Total(stock, S) \in Nat
    BY SummedRows, TotalType
<1>4. /\ seen \in [quantity : Nat, capacity : Nat, stock : Nat, sold : Nat]
      /\ seen.quantity = Seen(w).quantity /\ seen.capacity = Seen(w).capacity
      /\ seen.sold = Seen(w).sold /\ seen.stock = Total(stock, S)
    BY <1>2, <1>3
<1>5. Ask(w).op # "resizeVenue" => Total(stock, S) = ForSale(EventOf[Ask(w).id])
    BY SummedRows DEF ForSale
<1>6. ASSUME Ask(w).op = "resizeVenue", NEW e \in EventsAt(Ask(w).id)
      PROVE  ForSale(e) <= Total(stock, S)
    BY <1>6, SummedRows, TotalPart DEF ForSale
<1> HIDE DEF seen
<1>7. Sees(w, "stock", seen)
    BY <1>4, <1>5, <1>6 DEF Sees
<1> QED BY <1>1, <1>7, ReadKeeps

LEMMA SumSoldKeeps ==
    ASSUME CatalogInv, CapacityInv, NEW w \in Workers, Sizing(w), SumSold(w)
    PROVE  ReadsHold(w)'
<1> DEFINE S == Summed(Ask(w))
           n == IF Ask(w).id \in Venues THEN Total(live, S) + Total(void, S) ELSE Total(live, S)
           seen == [Seen(w) EXCEPT !.sold = n]
<1>1. At(w, "sold") /\ Read(w, TRUE, seen)
    BY DEF SumSold
<1>2. Seen(w) \in [quantity : Nat, capacity : Nat, stock : Nat, sold : Nat]
    BY DEF CapacityInv, ReadsHold, ReadsTyped
<1>3. Total(live, S) \in Nat /\ Total(void, S) \in Nat
    BY SummedRows, TotalType
<1>4. n \in Nat /\ Total(live, S) <= n /\ (Ask(w).id \notin Venues => n = Total(live, S))
    BY <1>3
<1> HIDE DEF n
<1>5. /\ seen \in [quantity : Nat, capacity : Nat, stock : Nat, sold : Nat]
      /\ seen.quantity = Seen(w).quantity /\ seen.capacity = Seen(w).capacity
      /\ seen.stock = Seen(w).stock /\ seen.sold = n
    BY <1>2, <1>4
<1>6. Ask(w).op # "resizeVenue" => n = Taken(EventOf[Ask(w).id])
    BY <1>4, SummedRows DEF Taken
<1>7. ASSUME Ask(w).op = "resizeVenue", NEW e \in EventsAt(Ask(w).id)
      PROVE  Taken(e) <= n
    <2>1. CategoriesOf(e) \in SUBSET S /\ IsFiniteSet(S) /\ S \in SUBSET Categories /\ RowTyped(live)
        BY <1>7, SummedRows
    <2>2. Total(live, CategoriesOf(e)) <= Total(live, S)
        BY <2>1, TotalPart
    <2>3. Total(live, CategoriesOf(e)) \in Nat
        BY <2>1, FS_Subset, TotalType
    <2> QED BY <1>3, <1>4, <2>2, <2>3 DEF Taken
<1> HIDE DEF seen
<1>8. Sees(w, "sold", seen)
    BY <1>5, <1>6, <1>7 DEF Sees
<1> QED BY <1>1, <1>8, ReadKeeps

LEMMA ReadCategoryKeeps ==
    ASSUME CatalogInv, CapacityInv, NEW w \in Workers, Sizing(w), ReadCategory(w), task'[w] # Idle
    PROVE  ReadsHold(w)'
<1> DEFINE row == stock[Ask(w).id]
           n == IF IsRow(row) THEN row ELSE 0
           seen == [Seen(w) EXCEPT !.quantity = n]
<1>1. At(w, "category") /\ Read(w, IsRow(row), seen)
    BY DEF ReadCategory
<1>2. IsRow(row) /\ Read(w, TRUE, seen)
    BY <1>1 DEF Read, CatalogInv, TasksTyped
<1>3. ReadsTyped(w)
    BY DEF CapacityInv, ReadsHold
<1>4. Ask(w).op = "updateCategory"
    BY <1>1, <1>3, SizingReads
<1>5. n \in Nat /\ n = row
    BY <1>2, <1>4, SummedRows DEF RowTyped, IsRow
<1> HIDE DEF n
<1>6. /\ seen \in [quantity : Nat, capacity : Nat, stock : Nat, sold : Nat]
      /\ seen.quantity = n /\ seen.capacity = Seen(w).capacity
      /\ seen.stock = Seen(w).stock /\ seen.sold = Seen(w).sold
    BY <1>3, <1>5 DEF ReadsTyped
<1> HIDE DEF seen
<1>7. Sees(w, "category", seen)
    BY <1>2, <1>4, <1>5, <1>6 DEF Sees
<1> QED BY <1>1, <1>2, <1>7, ReadKeeps

LEMMA ReadEventKeeps ==
    ASSUME CatalogInv, CapacityInv, NEW w \in Workers, Sizing(w), ReadEvent(w), task'[w] # Idle
    PROVE  ReadsHold(w)'
<1> DEFINE e == EventAsked(Ask(w))
           n == IF IsRow(status[e]) THEN capacity[venueOf[e]] ELSE 0
           seen == [Seen(w) EXCEPT !.capacity = n]
           ok == IsRow(status[e]) /\ Allowed(Ask(w).op, status[e])
<1>1. At(w, "event") /\ Read(w, ok, seen)
    BY DEF ReadEvent
<1>2. ok
    BY <1>1 DEF Read, CatalogInv, TasksTyped
<1>3. Read(w, TRUE, seen) /\ IsRow(status[e])
    BY <1>1, <1>2
<1>4. ReadsTyped(w)
    BY DEF CapacityInv, ReadsHold
<1>5. Ask(w).op # "resizeVenue"
    BY <1>1, <1>4, SizingReads
<1>6. e = EventOf[Ask(w).id] /\ e \in Events
    BY <1>5, SummedRows, CatalogAssumption
<1>7. n = capacity[venueOf[e]] /\ n \in Nat
    BY <1>3, <1>6 DEF CatalogInv, RowsTyped, Related, RowsHaveTheirParents, IsRow
<1> HIDE DEF n, ok
<1>8. /\ seen \in [quantity : Nat, capacity : Nat, stock : Nat, sold : Nat]
      /\ seen.quantity = Seen(w).quantity /\ seen.capacity = n
      /\ seen.stock = Seen(w).stock /\ seen.sold = Seen(w).sold
    BY <1>4, <1>7 DEF ReadsTyped
<1> HIDE DEF seen
<1>9. Sees(w, "event", seen)
    BY <1>3, <1>5, <1>6, <1>7, <1>8 DEF Sees
<1> QED BY <1>1, <1>3, <1>9, ReadKeeps

LEMMA ReadVenueKeeps ==
    ASSUME CatalogInv, CapacityInv, NEW w \in Workers, Sizing(w), ReadVenue(w), task'[w] # Idle
    PROVE  ReadsHold(w)'
<1>1. PICK v : At(w, "venue") /\ Read(w, IsRow(capacity[v]), Seen(w))
    BY DEF ReadVenue
<1>2. Read(w, TRUE, Seen(w))
    <2>1. IsRow(capacity[v])
        BY <1>1 DEF Read, CatalogInv, TasksTyped
    <2> QED BY <1>1, <2>1
<1>3. Sees(w, "venue", Seen(w))
    BY DEF Sees, CapacityInv, ReadsHold, ReadsTyped
<1> QED BY <1>1, <1>2, <1>3, ReadKeeps

\* A step of a worker on its own request keeps what the request goes by.
LEMMA OwnStepKeeps ==
    ASSUME CatalogInv, CapacityInv, NEW w \in Workers, ReadStep(w), Sizing(w), task'[w] # Idle
    PROVE  ReadsHold(w)'
<1>1. ReadsTyped(w)
    BY DEF CapacityInv, ReadsHold
<1>2. ~At(w, "items") /\ ~At(w, "categories") /\ ~At(w, "events") /\ ~At(w, "coupon")
    BY <1>1, SizingReads
<1>3. ReadCategory(w) \/ ReadEvent(w) \/ ReadVenue(w) \/ SumStock(w) \/ SumSold(w)
    BY <1>2 DEF ReadStep, CountItems, CountCategories, CountEvents, ReadCoupon
<1> QED BY <1>3, ReadCategoryKeeps, ReadEventKeeps, ReadVenueKeeps, SumStockKeeps, SumSoldKeeps

-----------------------------------------------------------------------------
(* The capacity of a venue.                                                *)

\* A step that leaves each request where it is, or ends it.
LEMMA EffectKeeps ==
    ASSUME CatalogInv, CatalogInv', CapacityInv, Effect,
           \A x \in Workers : task'[x] \in {task[x], Idle} \/ ReadsHold(x)'
    PROVE  CapacityInv'
<1>1. ASSUME NEW x \in Workers PROVE ReadsHold(x)'
    <2>1. CASE task'[x] = Idle
        BY <2>1 DEF ReadsHold, ReadsTyped, CategoryReads, VenueReads, Sizing
    <2>2. CASE task'[x] = task[x]
        BY <2>2, TaskStays
    <2> QED BY <2>1, <2>2
<1> QED BY <1>1 DEF CapacityInv, Effect

LEMMA BeginKeeps ==
    ASSUME CatalogInv, CatalogInv', CapacityInv, NEW w \in Workers, Begin(w)
    PROVE  CapacityInv'
<1>1. Effect
    BY QuietEffect DEF Begin
<1>2. PICK a \in Asks : task' = [task EXCEPT ![w] = [ask |-> a, at |-> 1, seen |-> Unread]]
    BY DEF Begin
<1>3. /\ task'[w] = [ask |-> a, at |-> 1, seen |-> Unread]
      /\ \A x \in Workers \ {w} : task'[x] = task[x]
    BY <1>2 DEF CatalogInv, TasksTyped
<1>4. /\ task'[w].at = 1 /\ Seen(w)' = Unread
      /\ \A s : ~HasRead(w, s)'
    BY <1>3 DEF Seen, HasRead
<1>5. ReadsTyped(w)'
    BY <1>4, SizingStatements DEF ReadsTyped, Sizing, Unread
<1>6. CategoryReads(w)' /\ VenueReads(w)'
    BY <1>4 DEF CategoryReads, VenueReads, EventSeen, Unread
<1> QED BY <1>1, <1>3, <1>5, <1>6, EffectKeeps DEF ReadsHold

LEMMA ReadStepKeeps ==
    ASSUME CatalogInv, CatalogInv', CapacityInv, NEW w \in Workers, ReadStep(w)
    PROVE  CapacityInv'
<1>1. UNCHANGED <<rows, disturbed, raced>> /\ \A x \in Workers \ {w} : task'[x] = task[x]
    BY DEF ReadStep, ReadCategory, ReadEvent, ReadVenue, SumStock, SumSold, CountItems,
       CountCategories, CountEvents, ReadCoupon, Read, CatalogInv, TasksTyped
<1>2. Effect
    BY <1>1, QuietEffect
<1>3. task'[w] = Idle \/ ReadsHold(w)'
    <2>1. CASE Sizing(w)
        BY <2>1, OwnStepKeeps
    <2>2. CASE ~Sizing(w) /\ task'[w] # Idle
        <3>1. task[w] # Idle
            BY DEF ReadStep, ReadCategory, ReadEvent, ReadVenue, SumStock, SumSold, CountItems,
               CountCategories, CountEvents, ReadCoupon, At
        <3>2. Ask(w)' = Ask(w)
            BY <2>2 DEF ReadStep, ReadCategory, ReadEvent, ReadVenue, SumStock, SumSold, CountItems,
               CountCategories, CountEvents, ReadCoupon, Read, CatalogInv, TasksTyped, Ask
        <3>3. ~Sizing(w)'
            BY <2>2, <3>1, <3>2 DEF Sizing
        <3> QED BY <3>3 DEF ReadsHold, ReadsTyped, CategoryReads, VenueReads
    <2> QED BY <2>1, <2>2
<1> QED BY <1>1, <1>2, <1>3, EffectKeeps

LEMMA WriteStepKeeps ==
    ASSUME CatalogInv, CatalogInv', CapacityInv, NEW w \in Workers, WriteStep(w)
    PROVE  CapacityInv'
<1>1. Effect
    BY SizedCategoryEffect, RemoveCategoryEffect, CreateEventEffect, MoveEventEffect,
       DeleteEventEffect, StatusEffect, EmptyVenueEffect, ResizeEffect, CouponEffect
    DEF WriteStep
<1>2. task' = [task EXCEPT ![w] = Idle]
    BY DEF WriteStep, CreateCategory, UpdateCategory, RemoveCategory, CreateEvent, MoveEvent,
       DeleteEvent, UpdateStatus, CreateVenue, ResizeVenue, DeleteVenue, CreateCoupon,
       DeleteCoupon, Write
<1>3. \A x \in Workers : task'[x] \in {task[x], Idle}
    BY <1>2 DEF CatalogInv, TasksTyped
<1> QED BY <1>1, <1>3, EffectKeeps

LEMMA SaleKeeps ==
    ASSUME CatalogInv, CatalogInv', CapacityInv, NEW c \in Categories, Sale(c)
    PROVE  CapacityInv'
<1>1. Effect
    <2>1. CASE Check(c)
        BY <2>1, QuietEffect DEF Check
    <2>2. CASE Sell(c) \/ Release(c)
        BY <2>2, SaleEffect
    <2> QED BY <2>1, <2>2 DEF Sale
<1>2. task' = task
    BY DEF Sale, Check, Sell, Release
<1> QED BY <1>1, <1>2, EffectKeeps

\* The rows there are at first fit.
LEMMA InitCapacityInv ==
    ASSUME Init
    PROVE  CapacityInv
<1>1. IsFiniteSet(Rowed)
    BY SetupAssumption DEF Init, Rowed
<1>2. \A w \in Workers : ReadsHold(w)
    BY DEF Init, ReadsHold, ReadsTyped, CategoryReads, VenueReads, Sizing
<1>3. ASSUME NEW e \in Events, IsRow(status[e]) PROVE WithinCapacity(e)
    <2>1. RowsTyped
        BY InitCatalogInv DEF CatalogInv
    <2>2. /\ IsFiniteSet(CategoriesOf(e)) /\ RowTyped(live)
          /\ CategoriesOf(e) \in SUBSET Categories /\ ForSale(e) \in Nat
        BY <1>1, <2>1, EventTotals
    <2>3. Taken(e) = 0
        <3> DEFINE S == CategoriesOf(e)
        <3>1. \A c \in S : Terms(live, S)[c] = 0
            <4>1. \A c \in S : live[c] = 0
                BY DEF Init, CategoriesOf
            <4> QED BY <4>1 DEF Terms
        <3> HIDE DEF S
        <3>2. SumFunctionOnSet(Terms(live, S), S) = 0
            BY <2>2, <3>1, SumZero DEF S
        <3> QED BY <2>2, <3>2, TermsNatural DEF Taken, S
    <2>4. ForSale(e) <= capacity[venueOf[e]]
        <3> DEFINE Stocked == {c \in Categories : IsRow(Setup.stock[c])}
        <3>1. Total(Setup.stock, {c \in Stocked : EventOf[c] = e}) <= Setup.capacity[Setup.venueOf[e]]
            BY <1>3, SetupAssumption DEF Init
        <3>2. CategoriesOf(e) = {c \in Stocked : EventOf[c] = e} /\ stock = Setup.stock
            BY DEF Init, CategoriesOf
        <3>3. ForSale(e) = Total(Setup.stock, {c \in Stocked : EventOf[c] = e})
            BY <3>2, Zenon DEF ForSale, Total
        <3> QED BY <3>1, <3>3 DEF Init
    <2>5. ForSale(e) + Taken(e) <= capacity[venueOf[e]]
        BY <2>2, <2>3, <2>4
    <2> QED BY <2>5 DEF WithinCapacity, ForSale, Taken
<1> QED BY <1>1, <1>2, <1>3 DEF CapacityInv, Fits

LEMMA NextCapacityInv == CatalogInv /\ CapacityInv /\ [Next]_vars => CapacityInv'
<1> SUFFICES ASSUME CatalogInv, CapacityInv, [Next]_vars PROVE CapacityInv'
    OBVIOUS
<1>0. CatalogInv'
    BY NextCatalogInv
<1>1. ASSUME NEW w \in Workers, Begin(w) \/ ReadStep(w) \/ WriteStep(w)
      PROVE  CapacityInv'
    BY <1>0, <1>1, BeginKeeps, ReadStepKeeps, WriteStepKeeps
<1>2. ASSUME NEW c \in Categories, Sale(c) PROVE CapacityInv'
    BY <1>0, <1>2, SaleKeeps
<1>3. CASE UNCHANGED vars
    <2>1. Effect
        BY <1>3, QuietEffect DEF vars
    <2>2. task' = task
        BY <1>3 DEF vars
    <2> QED BY <1>0, <2>1, <2>2, EffectKeeps
<1> QED BY <1>1, <1>2, <1>3 DEF Next

\* What the capacity checks have read is so until the event is disturbed.
THEOREM CapacityInductive == Spec => [](CatalogInv /\ CapacityInv)
<1>1. Init => CatalogInv /\ CapacityInv
    BY InitCatalogInv, InitCapacityInv
<1>2. CatalogInv /\ CapacityInv /\ [Next]_vars => (CatalogInv /\ CapacityInv)'
    BY NextCatalogInv, NextCapacityInv
<1> QED BY <1>1, <1>2, PTL DEF Spec

\* Every venue has room for what is on sale and held of each of its events, unless
\* the event was moved at some time, or was written to between the reads and the write
\* of a request that checks a capacity.
THEOREM CapacityHolds == Spec => []CapacityUnlessDisturbed
<1>1. CapacityInv => CapacityUnlessDisturbed
    BY DEF CapacityInv, Fits, CapacityUnlessDisturbed
<1> QED BY <1>1, CapacityInductive, PTL

=============================================================================
