------------------------------- MODULE Catalog -------------------------------
(***************************************************************************)
(* Events, their categories and coupons, and the venues they are held at,  *)
(* as the owners' requests change them while tickets are sold.             *)
(*                                                                         *)
(* Every request reads, checks what it read, and writes, in that order and *)
(* in statements of their own, with no transaction around them: between    *)
(* two statements of one request the others run.  What a write may not     *)
(* break is left to the foreign keys.                                      *)
(***************************************************************************)
EXTENDS Integers, FiniteSets, Functions, Sequences

CONSTANTS
    Workers,       \* database calls that can be under way together
    Events, Categories, Venues, Coupons,   \* the ids that rows are ever given
    EventOf,       \* EventOf[c]: the event in whose URL category c is created
    MadeFor,       \* MadeFor[k]: the event in whose URL coupon k is created
    Asks,          \* the requests that owners make
    Setup,         \* the rows there are at first
    MaxAsks,       \* bound: requests begun
    MaxTickets,    \* bound: tickets ever sold of one category
    Absent, Deleted,   \* in place of a row: not yet there, no longer there
    NoVenue, NoEvent, NoCoupon, Idle

VARIABLES
    status,        \* Event.status
    venueOf,       \* Event.venueId
    capacity,      \* Venue.capacity
    stock,         \* Category.quantity
    live,          \* tickets of each category in PENDING and PAID orders
    void,          \* tickets of each category in CANCELED orders
    couponOf,      \* Coupon.eventId, NoEvent for null
    task,          \* the request that each worker runs
    begun,         \* how many requests have begun
    checked,       \* the categories of a cart that checkouts have found on sale
    redeemed,      \* history: the pairs of a coupon and the event it was used in
    disturbed,     \* history: the events that were moved, or written to between the
                   \* reads and the write of another request that checks their capacity
    raced          \* history: the events whose status was written between the reads
                   \* and the write of another change of status

rows == <<status, venueOf, capacity, stock, live, void, couponOf>>
vars == <<rows, task, begun, checked, redeemed, disturbed, raced>>

Statuses == {"DRAFT", "PUBLISHED", "FINISHED", "CANCELED"}
NoRow == {Absent, Deleted}

\* The statements of each request, in order.
Statements ==
    [createCategory |-> <<"event", "stock", "sold", "write">>,
     updateCategory |-> <<"category", "event", "stock", "sold", "write">>,
     removeCategory |-> <<"category", "event", "items", "write">>,
     createEvent    |-> <<"venue", "write">>,
     moveEvent      |-> <<"event", "venue", "write">>,
     deleteEvent    |-> <<"event", "categories", "write">>,
     publish        |-> <<"event", "categories", "write">>,
     finish         |-> <<"event", "write">>,
     cancel         |-> <<"event", "write">>,
     createVenue    |-> <<"write">>,
     resizeVenue    |-> <<"venue", "stock", "sold", "write">>,
     deleteVenue    |-> <<"venue", "events", "write">>,
     createCoupon   |-> <<"event", "write">>,
     deleteCoupon   |-> <<"event", "coupon", "write">>]

Requests ==
    [op : {"createCategory", "updateCategory", "removeCategory"},
        id : Categories, size : Nat, venue : {NoVenue}]
    \cup [op : {"createEvent", "moveEvent"}, id : Events, size : {0}, venue : Venues]
    \cup [op : {"deleteEvent", "publish", "finish", "cancel"},
        id : Events, size : {0}, venue : {NoVenue}]
    \cup [op : {"createVenue", "resizeVenue", "deleteVenue"},
        id : Venues, size : Nat, venue : {NoVenue}]
    \cup [op : {"createCoupon", "deleteCoupon"}, id : Coupons, size : {0}, venue : {NoVenue}]

Unread == [quantity |-> 0, capacity |-> 0, stock |-> 0, sold |-> 0]

ASSUME CatalogAssumption ==
    /\ EventOf \in [Categories -> Events]
    /\ MadeFor \in [Coupons -> Events]
    /\ Asks \subseteq Requests
    /\ Absent # Deleted
    /\ NoRow \cap (Nat \cup Statuses \cup Events) = {}
    /\ NoEvent \notin Events \cup NoRow
    /\ NoVenue \notin Venues
    /\ NoCoupon \notin Coupons
    /\ Events \cap (Categories \cup Venues \cup Coupons) = {}
    /\ Categories \cap (Venues \cup Coupons) = {}
    /\ Venues \cap Coupons = {}
    /\ Idle \notin Workers

IsRow(x) == x \notin NoRow

Total(row, S) == SumFunctionOnSet([c \in S |-> IF IsRow(row[c]) THEN row[c] ELSE 0], S)
\* The rows at first are rows the services could have made one request at a time,
\* before any sale: finitely many categories, and those of an event fit its venue.
ASSUME SetupAssumption ==
    /\ Setup.status \in [Events -> Statuses \cup NoRow]
    /\ Setup.venueOf \in [Events -> Venues \cup {NoVenue}]
    /\ Setup.capacity \in [Venues -> Nat \cup NoRow]
    /\ Setup.stock \in [Categories -> Nat \cup NoRow]
    /\ Setup.couponOf \in [Coupons -> Events \cup {NoEvent} \cup NoRow]
    /\ \A c \in Categories : Setup.stock[c] \notin NoRow => Setup.status[EventOf[c]] \notin NoRow
    /\ \A e \in Events : Setup.status[e] \notin NoRow =>
        Setup.venueOf[e] \in Venues /\ Setup.capacity[Setup.venueOf[e]] \notin NoRow
    /\ \A k \in Coupons :
        /\ Setup.couponOf[k] \in {MadeFor[k], NoEvent} \cup NoRow
        /\ Setup.couponOf[k] = MadeFor[k] => Setup.status[MadeFor[k]] \notin NoRow
        /\ Setup.couponOf[k] = NoEvent => Setup.status[MadeFor[k]] = Deleted
    /\ LET Stocked == {c \in Categories : IsRow(Setup.stock[c])}
       IN /\ IsFiniteSet(Stocked)
          /\ \A e \in Events : IsRow(Setup.status[e]) =>
              Total(Setup.stock, {c \in Stocked : EventOf[c] = e})
                  <= Setup.capacity[Setup.venueOf[e]]

CategoriesOf(e) == {c \in Categories : IsRow(stock[c]) /\ EventOf[c] = e}
EventsAt(v) == {e \in Events : IsRow(status[e]) /\ venueOf[e] = v}
CategoriesAt(v) == UNION {CategoriesOf(e) : e \in EventsAt(v)}
HasItems(c) == live[c] + void[c] > 0

Init ==
    /\ status = Setup.status
    /\ venueOf = Setup.venueOf
    /\ capacity = Setup.capacity
    /\ stock = Setup.stock
    /\ live = [c \in Categories |-> 0]
    /\ void = [c \in Categories |-> 0]
    /\ couponOf = Setup.couponOf
    /\ task = [w \in Workers |-> Idle]
    /\ begun = 0
    /\ checked = {}
    /\ redeemed = {}
    /\ disturbed = {}
    /\ raced = {}

Running(w, op) == task[w] # Idle /\ task[w].ask.op = op
At(w, statement) ==
    task[w] # Idle /\ Statements[task[w].ask.op][task[w].at] = statement
Ask(w) == task[w].ask
Seen(w) == task[w].seen

\* The event that a request is about, for the requests that begin by reading it.
EventAsked(a) ==
    IF a.id \in Categories THEN EventOf[a.id]
    ELSE IF a.id \in Coupons THEN MadeFor[a.id] ELSE a.id

\* The events whose rows, or whose tickets against their capacity, a request is about.
Scope(a) == IF a.id \in Venues THEN EventsAt(a.id) ELSE {EventAsked(a)}

\* The requests that compare tickets with a capacity, and those that change a status.
Sizing(w) ==
    task[w] # Idle /\ Ask(w).op \in {"createCategory", "updateCategory", "resizeVenue"}
StatusAsked == [publish |-> "PUBLISHED", finish |-> "FINISHED", cancel |-> "CANCELED"]
Switching(w) == task[w] # Idle /\ Ask(w).op \in DOMAIN StatusAsked

\* A write to the events of S, by worker w or by nobody's worker, comes between
\* the reads and the write of another request that checks their capacity.
Disturb(w, S) ==
    disturbed' = disturbed \cup
        {e \in S : \E x \in Workers \ {w} :
            Sizing(x) /\ task[x].at > 1 /\ e \in Scope(Ask(x))}

\* Worker w writes the status of e after another has read it and before that one writes.
Race(w, e) ==
    raced' = raced \cup
        {d \in {e} : \E x \in Workers \ {w} :
            Switching(x) /\ task[x].at > 1 /\ Ask(x).id = d}

-----------------------------------------------------------------------------
(* The reads.  A request goes on with what it read, or is refused.         *)

Begin(w) ==
    /\ task[w] = Idle
    /\ begun < MaxAsks
    /\ \E a \in Asks : task' = [task EXCEPT ![w] = [ask |-> a, at |-> 1, seen |-> Unread]]
    /\ begun' = begun + 1
    /\ UNCHANGED <<rows, checked, redeemed, disturbed, raced>>

Read(w, ok, seen) ==
    /\ task' = [task EXCEPT ![w] =
            IF ok THEN [ask |-> Ask(w), at |-> task[w].at + 1, seen |-> seen] ELSE Idle]
    /\ UNCHANGED <<rows, begun, checked, redeemed, disturbed, raced>>

\* findUnique of the category.
ReadCategory(w) ==
    /\ At(w, "category")
    /\ LET row == stock[Ask(w).id]
       IN Read(w, IsRow(row), [Seen(w) EXCEPT !.quantity = IF IsRow(row) THEN row ELSE 0])

\* Mutant: a canceled event may be published again.
AllowedTransitionsReopened ==
    [DRAFT |-> {"PUBLISHED", "CANCELED"}, PUBLISHED |-> {"FINISHED", "CANCELED"},
     FINISHED |-> {"CANCELED"}, CANCELED |-> {"FINISHED"}]

\* The transitions that updateStatus allows.
AllowedTransitions ==
    [DRAFT |-> {"PUBLISHED", "CANCELED"},
     PUBLISHED |-> {"FINISHED", "CANCELED"},
     FINISHED |-> {"CANCELED"},
     CANCELED |-> {}]

Allowed(op, current) ==
    op \in DOMAIN StatusAsked => StatusAsked[op] \in AllowedTransitions[current]

\* getOwnedEvent, with the venue.
ReadEvent(w) ==
    /\ At(w, "event")
    /\ LET e == EventAsked(Ask(w))
           there == IsRow(status[e])
       IN Read(w, there /\ Allowed(Ask(w).op, status[e]),
               [Seen(w) EXCEPT !.capacity = IF there THEN capacity[venueOf[e]] ELSE 0])

\* getOwnedVenue, or validateVenueOwnership of the venue an event is to have.
ReadVenue(w) ==
    /\ At(w, "venue")
    /\ LET v == IF Ask(w).id \in Venues THEN Ask(w).id ELSE Ask(w).venue
       IN Read(w, IsRow(capacity[v]), Seen(w))

\* What the sums run over: the event's categories, or those of the whole venue.
Summed(a) == IF a.id \in Venues THEN CategoriesAt(a.id) ELSE CategoriesOf(EventAsked(a))

SumStock(w) ==
    /\ At(w, "stock")
    /\ Read(w, TRUE, [Seen(w) EXCEPT !.stock = Total(stock, Summed(Ask(w)))])

\* A category's check counts the tickets of PENDING and PAID orders, a venue's all.
SumSold(w) ==
    /\ At(w, "sold")
    /\ LET S == Summed(Ask(w))
           sold == IF Ask(w).id \in Venues THEN Total(live, S) + Total(void, S)
                                           ELSE Total(live, S)
       IN Read(w, TRUE, [Seen(w) EXCEPT !.sold = sold])

CountItems(w) ==
    /\ At(w, "items")
    /\ Read(w, ~HasItems(Ask(w).id), Seen(w))

\* publish wants a category, delete wants none.
CountCategories(w) ==
    /\ At(w, "categories")
    /\ Read(w, (CategoriesOf(Ask(w).id) # {}) = (Ask(w).op = "publish"), Seen(w))

CountEvents(w) ==
    /\ At(w, "events")
    /\ Read(w, EventsAt(Ask(w).id) = {}, Seen(w))

ReadCoupon(w) ==
    /\ At(w, "coupon")
    /\ Read(w, couponOf[Ask(w).id] = MadeFor[Ask(w).id], Seen(w))

-----------------------------------------------------------------------------
(* The writes, each the last statement of its request.  One that the       *)
(* database refuses (no row by that id, a foreign key) changes nothing.    *)

Write(w, ok, effect) ==
    /\ At(w, "write")
    /\ IF ok THEN effect ELSE UNCHANGED <<rows, disturbed, raced>>
    /\ task' = [task EXCEPT ![w] = Idle]
    /\ UNCHANGED <<begun, checked, redeemed>>

WriteStock(w, c, value) ==
    /\ stock' = [stock EXCEPT ![c] = value]
    /\ Disturb(w, {EventOf[c]})
    /\ UNCHANGED <<status, venueOf, capacity, live, void, couponOf, raced>>

WriteCapacity(w, v, value) ==
    /\ capacity' = [capacity EXCEPT ![v] = value]
    /\ Disturb(w, EventsAt(v))
    /\ UNCHANGED <<status, venueOf, stock, live, void, couponOf, raced>>

WriteCoupon(k, value) ==
    /\ couponOf' = [couponOf EXCEPT ![k] = value]
    /\ UNCHANGED <<status, venueOf, capacity, stock, live, void, disturbed, raced>>

\* Mutant: the tickets already sold are forgotten.
AllocatedUnsold(w) == Seen(w).stock - Seen(w).quantity + Ask(w).size

\* What is allocated already, with the size asked for in place of the quantity read.
Allocated(w) == Seen(w).stock + Seen(w).sold - Seen(w).quantity + Ask(w).size

\* category.create; the event must still be there.
CreateCategory(w) ==
    /\ Running(w, "createCategory")
    /\ LET c == Ask(w).id
           ok == /\ Allocated(w) <= Seen(w).capacity
                 /\ stock[c] = Absent /\ IsRow(status[EventOf[c]])
       IN Write(w, ok, WriteStock(w, c, Ask(w).size))

\* category.update: the quantity asked for replaces whatever is there by now.
UpdateCategory(w) ==
    /\ Running(w, "updateCategory")
    /\ LET c == Ask(w).id
           ok == Allocated(w) <= Seen(w).capacity /\ IsRow(stock[c])
       IN Write(w, ok, WriteStock(w, c, Ask(w).size))

\* Mutant: the items cascade.
RemovableCategoryCascade(c) == IsRow(stock[c])

\* OrderItem.category is onDelete: Restrict.
RemovableCategory(c) == IsRow(stock[c]) /\ ~HasItems(c)

RemoveCategory(w) ==
    /\ Running(w, "removeCategory")
    /\ LET c == Ask(w).id
       IN Write(w, RemovableCategory(c), WriteStock(w, c, Deleted))

\* event.create, in DRAFT; the venue must still be there.
CreateEvent(w) ==
    /\ Running(w, "createEvent")
    /\ LET e == Ask(w).id
       IN Write(w, status[e] = Absent /\ IsRow(capacity[Ask(w).venue]),
            /\ status' = [status EXCEPT ![e] = "DRAFT"]
            /\ venueOf' = [venueOf EXCEPT ![e] = Ask(w).venue]
            /\ UNCHANGED <<capacity, stock, live, void, couponOf, disturbed, raced>>)

\* event.update with another venue: nothing compares its capacity, so the move
\* always counts as a disturbance.
MoveEvent(w) ==
    /\ Running(w, "moveEvent")
    /\ LET e == Ask(w).id
       IN Write(w, IsRow(status[e]) /\ IsRow(capacity[Ask(w).venue]),
            /\ venueOf' = [venueOf EXCEPT ![e] = Ask(w).venue]
            /\ disturbed' = disturbed \cup {e}
            /\ UNCHANGED <<status, capacity, stock, live, void, couponOf, raced>>)

\* Mutant: the items cascade too.
RemovableEventCascade(e) == IsRow(status[e])

\* event.delete: categories and tickets cascade, but an order item restricts its
\* category; the coupons stay, with a null event.
RemovableEvent(e) == IsRow(status[e]) /\ \A c \in CategoriesOf(e) : ~HasItems(c)

DeleteEvent(w) ==
    /\ Running(w, "deleteEvent")
    /\ LET e == Ask(w).id
       IN Write(w, RemovableEvent(e),
            /\ status' = [status EXCEPT ![e] = Deleted]
            /\ stock' = [c \in Categories |-> IF c \in CategoriesOf(e) THEN Deleted ELSE stock[c]]
            /\ couponOf' = [k \in Coupons |-> IF couponOf[k] = e THEN NoEvent ELSE couponOf[k]]
            /\ Disturb(w, {e})
            /\ UNCHANGED <<venueOf, capacity, live, void, raced>>)

\* event.update of the status, by id, whatever the status is by now.
UpdateStatus(w) ==
    /\ Switching(w)
    /\ LET e == Ask(w).id
       IN Write(w, IsRow(status[e]),
            /\ status' = [status EXCEPT ![e] = StatusAsked[Ask(w).op]]
            /\ Race(w, e)
            /\ UNCHANGED <<venueOf, capacity, stock, live, void, couponOf, disturbed>>)

CreateVenue(w) ==
    /\ Running(w, "createVenue")
    /\ LET v == Ask(w).id
       IN Write(w, capacity[v] = Absent, WriteCapacity(w, v, Ask(w).size))

\* venue.update with a capacity.
ResizeVenue(w) ==
    /\ Running(w, "resizeVenue")
    /\ LET v == Ask(w).id
           ok == Seen(w).stock + Seen(w).sold <= Ask(w).size /\ IsRow(capacity[v])
       IN Write(w, ok, WriteCapacity(w, v, Ask(w).size))

\* Event.venue is onDelete: Restrict.
RemovableVenue(v) == IsRow(capacity[v]) /\ EventsAt(v) = {}

DeleteVenue(w) ==
    /\ Running(w, "deleteVenue")
    /\ LET v == Ask(w).id
       IN Write(w, RemovableVenue(v), WriteCapacity(w, v, Deleted))

CreateCoupon(w) ==
    /\ Running(w, "createCoupon")
    /\ LET k == Ask(w).id
       IN Write(w, couponOf[k] = Absent /\ IsRow(status[MadeFor[k]]), WriteCoupon(k, MadeFor[k]))

\* coupon.delete by id; the orders that used it keep a null coupon.
DeleteCoupon(w) ==
    /\ Running(w, "deleteCoupon")
    /\ LET k == Ask(w).id
       IN Write(w, IsRow(couponOf[k]), WriteCoupon(k, Deleted))

-----------------------------------------------------------------------------
(* Sales.  Checkout shows that a checkout takes effect in one step, some   *)
(* time after it found the event on sale.                                  *)

\* Mutant: only canceled and finished events are refused.
OnSaleDraft(c) == IsRow(stock[c]) /\ status[EventOf[c]] \in {"DRAFT", "PUBLISHED"}
OnSale(c) == IsRow(stock[c]) /\ status[EventOf[c]] = "PUBLISHED"

Check(c) ==
    /\ OnSale(c)
    /\ checked' = checked \cup {c}
    /\ UNCHANGED <<rows, task, begun, redeemed, disturbed, raced>>

\* A null event of a coupon is not compared with the event of the cart.
Redeemable(k, e) == couponOf[k] \in {e, NoEvent}

\* Mutant: an off-by-one in the guarded update.
EnoughOffByOne(c) == IsRow(stock[c]) /\ stock[c] + 1 > 0
Enough(c) == IsRow(stock[c]) /\ stock[c] > 0

Sell(c) ==
    /\ c \in checked
    /\ checked' = checked \ {c}
    /\ Enough(c)
    /\ live[c] + void[c] < MaxTickets
    /\ \E k \in Coupons \cup {NoCoupon} :
        /\ k # NoCoupon => Redeemable(k, EventOf[c])
        /\ redeemed' = redeemed \cup {<<k, EventOf[c]>> : x \in {k} \ {NoCoupon}}
    /\ stock' = [stock EXCEPT ![c] = @ - 1]
    /\ live' = [live EXCEPT ![c] = @ + 1]
    /\ Disturb(Idle, {EventOf[c]})
    /\ UNCHANGED <<status, venueOf, capacity, void, couponOf, task, begun, raced>>

\* A PENDING order of the category is canceled, and its tickets come back.
Release(c) ==
    /\ live[c] > 0
    /\ live' = [live EXCEPT ![c] = @ - 1]
    /\ void' = [void EXCEPT ![c] = @ + 1]
    /\ stock' = [stock EXCEPT ![c] = @ + 1]
    /\ Disturb(Idle, {EventOf[c]})
    /\ UNCHANGED <<status, venueOf, capacity, couponOf, task, begun, checked, redeemed, raced>>

ReadStep(w) ==
    \/ ReadCategory(w) \/ ReadEvent(w) \/ ReadVenue(w) \/ SumStock(w) \/ SumSold(w)
    \/ CountItems(w) \/ CountCategories(w) \/ CountEvents(w) \/ ReadCoupon(w)

WriteStep(w) ==
    \/ CreateCategory(w) \/ UpdateCategory(w) \/ RemoveCategory(w)
    \/ CreateEvent(w) \/ MoveEvent(w) \/ DeleteEvent(w) \/ UpdateStatus(w)
    \/ CreateVenue(w) \/ ResizeVenue(w) \/ DeleteVenue(w)
    \/ CreateCoupon(w) \/ DeleteCoupon(w)

Sale(c) == Check(c) \/ Sell(c) \/ Release(c)

Next ==
    \/ \E w \in Workers : Begin(w) \/ ReadStep(w) \/ WriteStep(w)
    \/ \E c \in Categories : Sale(c)

Spec == Init /\ [][Next]_vars

-----------------------------------------------------------------------------

\* Each variable has its type; no stock is ever negative.
TypeOK ==
    /\ status \in [Events -> Statuses \cup NoRow]
    /\ venueOf \in [Events -> Venues \cup {NoVenue}]
    /\ capacity \in [Venues -> Nat \cup NoRow]
    /\ stock \in [Categories -> Nat \cup NoRow]
    /\ live \in [Categories -> Nat]
    /\ void \in [Categories -> Nat]
    /\ couponOf \in [Coupons -> Events \cup {NoEvent} \cup NoRow]
    /\ task = [w \in Workers |-> task[w]]
    /\ \A w \in Workers : task[w] # Idle =>
        /\ Ask(w) \in Asks
        /\ task[w].at \in Nat \ {0}
    /\ begun \in Nat
    /\ checked \subseteq Categories
    /\ redeemed \subseteq Coupons \X Events
    /\ disturbed \subseteq Events
    /\ raced \subseteq Events

\* Whatever is deleted while tickets are being sold, every row that is there, and
\* every ticket that was ever sold, has the rows it refers to: a ticket its
\* category, a category its event, an event its venue (the foreign keys, and the
\* counts that come before each delete).
RowsHaveTheirParents ==
    /\ \A c \in Categories : HasItems(c) => IsRow(stock[c])
    /\ \A c \in Categories : IsRow(stock[c]) => IsRow(status[EventOf[c]])
    /\ \A e \in Events : IsRow(status[e]) => venueOf[e] \in Venues /\ IsRow(capacity[venueOf[e]])

\* Tickets were sold only of events that were published, and no such event is a
\* draft again, though statuses are written over what was read before
\* (updateStatus; reserveAndValidateStock refuses a draft).
SoldEventsWerePublished ==
    \A c \in Categories :
        HasItems(c) \/ c \in checked => status[EventOf[c]] # "DRAFT"

\* A coupon that was used for its own event never loses that event: the event has
\* order items, so it cannot be deleted (DeleteEvent, Sell).
UsedCouponKeepsItsEvent ==
    \A k \in Coupons :
        <<k, MadeFor[k]>> \in redeemed => couponOf[k] \in {MadeFor[k], Deleted}

\* Tickets on sale and tickets held fit the venue, unless the event was ever moved,
\* or ever written to between the reads and the write of a request that checks the
\* capacity (the checks of CategoryService and VenueService).
WithinCapacity(e) ==
    LET S == CategoriesOf(e)
    IN Total(stock, S) + Total(live, S) <= capacity[venueOf[e]]
CapacityUnlessDisturbed ==
    \A e \in Events : IsRow(status[e]) /\ e \notin disturbed => WithinCapacity(e)

\* An event that was canceled stays canceled until it is deleted, unless two changes
\* of its status have overlapped; no other request, however it overlaps, brings it
\* back (ALLOWED_TRANSITIONS).
CanceledIsFinal ==
    [][\A e \in Events :
        status[e] = "CANCELED" /\ e \notin raced => status'[e] \in {"CANCELED", Deleted}]_vars

=============================================================================
