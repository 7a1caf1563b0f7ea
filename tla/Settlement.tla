------------------------------ MODULE Settlement ------------------------------
(***************************************************************************)
(* What happens to a PENDING order: PaymentService.markOrderPaid and       *)
(* releaseOrder (src/payment/payment.service.ts), called by the            *)
(* administrators (src/admin/admin.service.ts) and by the cron job         *)
(* (src/order/order-expiration), and the check-in of its tickets           *)
(* (TicketService.markAsUsed).  Transactions run as in Checkout; placing   *)
(* an order is one step here, which is what Checkout implements.           *)
(***************************************************************************)
EXTENDS Integers, FiniteSets, Functions

CONSTANTS
    Orders, Categories, Tickets, Demand, TicketOrder, Capacity,  \* see Reservation
    Workers,       \* concurrent calls of PaymentService
    Gates,         \* concurrent calls of TicketService.markAsUsed
    NoOrder, NoTicket, NoCategory,
    MaxFailures    \* bound on the transactions lost to the infrastructure

ASSUME SettlementAssumption ==
    /\ Demand \in [Orders -> [Categories -> Nat]]
    /\ Capacity \in [Categories -> Nat]
    /\ TicketOrder \in [Tickets -> Orders]
    /\ NoOrder \notin Orders
    /\ NoTicket \notin Tickets
    /\ NoCategory \notin Categories
    /\ \A o \in Orders : \E c \in Categories : Demand[o][c] > 0
    /\ MaxFailures \in Nat

VARIABLES
    stock,      \* Category.quantity
    order,      \* Order.status
    payment,    \* Payment.status
    ticket,     \* Ticket.status
    due,        \* orders past their reservedUntil
    found,      \* orders an expiry job has listed and not begun to release
    call,       \* the order a worker settles, how, and its next statement
    holds,      \* the rows a worker has written in its open transaction
    gate,       \* the ticket a check-in has read as VALID
    failures,   \* transactions lost so far
    releases,   \* history: how often an order's stock has been given back
    admitted    \* history: how often a ticket has been admitted

db == <<stock, order, payment, ticket, releases>>
vars == <<stock, order, payment, ticket, due, found, call, holds, gate, failures,
          releases, admitted>>

OrderStatus == {"NONE", "PENDING", "PAID", "CANCELED"}
PaymentStatus == {"NONE", "PENDING", "APPROVED", "REJECTED"}
TicketStatus == {"NONE", "VALID", "USED", "CANCELED"}
Statements == {"read", "items", "tickets", "payment", "order", "commit"}

Idle == [kind |-> "none", order |-> NoOrder, pc |-> "idle", item |-> NoCategory]
Call(kind, o) == [kind |-> kind, order |-> o, pc |-> "read", item |-> NoCategory]

CategoryRow(c) == <<"Category", c>>
TicketRow(t) == <<"Ticket", t>>
PaymentRow(o) == <<"Payment", o>>
OrderRow(o) == <<"Order", o>>

TicketsOf(o) == {t \in Tickets : TicketOrder[t] = o}
TicketRows(o) == {TicketRow(t) : t \in TicketsOf(o)}
Items(o) == {c \in Categories : Demand[o][c] > 0}

\* No other transaction has written the row.
Free(row, w) == \A v \in Workers \ {w} : row \notin holds[v]

-------------------------------------------------------------------------------
Init ==
    /\ stock = Capacity
    /\ order = [o \in Orders |-> "NONE"]
    /\ payment = [o \in Orders |-> "NONE"]
    /\ ticket = [t \in Tickets |-> "NONE"]
    /\ due = {}
    /\ found = {}
    /\ call = [w \in Workers |-> Idle]
    /\ holds = [w \in Workers |-> {}]
    /\ gate = [g \in Gates |-> NoTicket]
    /\ failures = 0
    /\ releases = [o \in Orders |-> 0]
    /\ admitted = [t \in Tickets |-> 0]

\* Mutant: the conditional decrement has lost its condition.
EnoughUnchecked(o) == TRUE
Enough(o) == \A c \in Items(o) : stock[c] >= Demand[o][c]

\* OrderService.create commits: items, tickets and a PENDING payment come with it.
Place(o) ==
    /\ order[o] = "NONE"
    /\ Enough(o)
    /\ \A c \in Items(o), w \in Workers : CategoryRow(c) \notin holds[w]
    /\ stock' = [c \in Categories |-> stock[c] - Demand[o][c]]
    /\ order' = [order EXCEPT ![o] = "PENDING"]
    /\ payment' = [payment EXCEPT ![o] = "PENDING"]
    /\ ticket' = [t \in Tickets |-> IF t \in TicketsOf(o) THEN "VALID" ELSE ticket[t]]
    /\ UNCHANGED <<due, found, call, holds, gate, failures, releases, admitted>>

\* reservedUntil passes.
PassDeadline(o) ==
    /\ order[o] # "NONE"
    /\ o \notin due
    /\ due' = due \cup {o}
    /\ UNCHANGED <<db, found, call, holds, gate, failures, admitted>>

\* Mutant: the job compares the deadline the wrong way round.
FindUnexpired ==
    LET expired == {o \in Orders \ due : order[o] = "PENDING"} IN
    /\ ~ expired \subseteq found
    /\ found' = found \cup expired
    /\ UNCHANGED <<db, due, call, holds, gate, failures, admitted>>

\* getPendingOrders, at every minute, whether or not the last job is over.
FindExpired ==
    LET expired == {o \in due : order[o] = "PENDING"} IN
    /\ ~ expired \subseteq found
    /\ found' = found \cup expired
    /\ UNCHANGED <<db, due, call, holds, gate, failures, admitted>>

Begin(w, kind, o) ==
    /\ call[w] = Idle
    /\ call' = [call EXCEPT ![w] = Call(kind, o)]

\* Promise.all: one releaseOrder for each order of the list, as connections come free.
Expire(w, o) ==
    /\ o \in found
    /\ Begin(w, "release", o)
    /\ found' = found \ {o}
    /\ UNCHANGED <<db, due, holds, gate, failures, admitted>>

\* AdminService.confirmPayment: the order has a payment.
ConfirmPayment(w, o) ==
    /\ payment[o] # "NONE"
    /\ Begin(w, "confirm", o)
    /\ UNCHANGED <<db, due, found, holds, gate, failures, admitted>>

\* AdminService.rejectPayment
RejectPayment(w, o) ==
    /\ payment[o] # "NONE"
    /\ Begin(w, "release", o)
    /\ UNCHANGED <<db, due, found, holds, gate, failures, admitted>>

-------------------------------------------------------------------------------
(* The statements of markOrderPaid and releaseOrder *)

At(w, statement) == call[w].pc = statement
Goto(w, statement) == call' = [call EXCEPT ![w].pc = statement]
Write(w, rows) ==
    /\ \A row \in rows : Free(row, w)
    /\ holds' = [holds EXCEPT ![w] = @ \cup rows]
    /\ UNCHANGED <<db, due, found, gate, failures, admitted>>

GotoItem(w, c) ==
    call' = [call EXCEPT ![w] =
               [kind |-> @.kind, order |-> @.order, pc |-> "items", item |-> c]]

\* The items still to return once the current one is.
Unreturned(w) ==
    {c \in Items(call[w].order) : c # call[w].item /\ CategoryRow(c) \notin holds[w]}

\* Mutant: no check of the status in either call.
StillPendingUnchecked(o) == TRUE
StillPending(o) == order[o] = "PENDING"

\* The status and the items are read without a lock; a call on a settled order returns.
ReadOrder(w) ==
    LET o == call[w].order IN
    /\ At(w, "read")
    /\ \/ /\ ~StillPending(o)
          /\ call' = [call EXCEPT ![w] = Idle]
       \/ /\ StillPending(o)
          /\ call[w].kind = "confirm"
          /\ Goto(w, "payment")
       \/ /\ StillPending(o)
          /\ call[w].kind = "release"
          /\ \E c \in Items(o) : GotoItem(w, c)
    /\ UNCHANGED <<db, due, found, holds, gate, failures, admitted>>

\* UPDATE Category SET quantity = quantity + n, for one item after the other, in the
\* order of the list that was read, which no ORDER BY fixes.
ReturnItem(w) ==
    /\ At(w, "items")
    /\ Write(w, {CategoryRow(call[w].item)})
    /\ \/ Unreturned(w) = {} /\ Goto(w, "tickets")
       \/ \E c \in Unreturned(w) : GotoItem(w, c)

ReturnLastItem(w) == ReturnItem(w) /\ Unreturned(w) = {}

\* Mutant: the order is updated before the payment, not after it.
VoidTicketsWithOrder(w) ==
    /\ At(w, "tickets")
    /\ Write(w, TicketRows(call[w].order) \cup {OrderRow(call[w].order)})
    /\ Goto(w, "payment")

\* UPDATE Ticket SET status = CANCELED, whatever the status was.
VoidTickets(w) ==
    /\ At(w, "tickets")
    /\ Write(w, TicketRows(call[w].order))
    /\ Goto(w, "payment")

\* Mutant: the payment is updated outside the transaction.
UpdatePaymentAtOnce(w) ==
    LET o == call[w].order IN
    /\ At(w, "payment")
    /\ Free(PaymentRow(o), w)
    /\ payment' = [payment EXCEPT ![o] =
                     IF call[w].kind = "confirm" THEN "APPROVED" ELSE "REJECTED"]
    /\ Goto(w, "order")
    /\ UNCHANGED <<stock, order, ticket, releases, due, found, holds, gate, failures, admitted>>

UpdatePayment(w) ==
    /\ At(w, "payment")
    /\ Write(w, {PaymentRow(call[w].order)})
    /\ Goto(w, "order")

UpdateOrder(w) ==
    /\ At(w, "order")
    /\ Write(w, {OrderRow(call[w].order)})
    /\ Goto(w, "commit")

Close(w) ==
    /\ call' = [call EXCEPT ![w] = Idle]
    /\ holds' = [holds EXCEPT ![w] = {}]
    /\ UNCHANGED <<due, found, gate, admitted>>

CommitPaid(w) ==
    LET o == call[w].order IN
    /\ At(w, "commit")
    /\ call[w].kind = "confirm"
    /\ payment' = [payment EXCEPT ![o] = "APPROVED"]
    /\ order' = [order EXCEPT ![o] = "PAID"]
    /\ Close(w)
    /\ UNCHANGED <<stock, ticket, releases, failures>>

\* Mutant: only the tickets that are still VALID are canceled.
VoidedUnused(o) == {t \in TicketsOf(o) : ticket[t] = "VALID"}
Voided(o) == TicketsOf(o)

CommitReleased(w) ==
    LET o == call[w].order IN
    /\ At(w, "commit")
    /\ call[w].kind = "release"
    /\ stock' = [c \in Categories |-> stock[c] + Demand[o][c]]
    /\ ticket' = [t \in Tickets |-> IF t \in Voided(o) THEN "CANCELED" ELSE ticket[t]]
    /\ payment' = [payment EXCEPT ![o] = "REJECTED"]
    /\ order' = [order EXCEPT ![o] = "CANCELED"]
    /\ releases' = [releases EXCEPT ![o] = @ + 1]
    /\ Close(w)
    /\ UNCHANGED failures

\* A timeout, a lost connection or a crash: the transaction is rolled back.
Fail(w) ==
    /\ call[w] # Idle
    /\ failures < MaxFailures
    /\ failures' = failures + 1
    /\ Close(w)
    /\ UNCHANGED db

\* The server stops: every open transaction is rolled back, the list of the cron job
\* and the check-ins under way are forgotten.
Crash ==
    /\ failures < MaxFailures
    /\ failures' = failures + 1
    /\ call' = [w \in Workers |-> Idle]
    /\ holds' = [w \in Workers |-> {}]
    /\ found' = {}
    /\ gate' = [g \in Gates |-> NoTicket]
    /\ UNCHANGED <<db, due, admitted>>

\* The row w is about to write is written by v.
WaitsFor(w, v) ==
    LET o == call[w].order IN
    /\ v # w
    /\ \/ At(w, "items") /\ CategoryRow(call[w].item) \in holds[v]
       \/ At(w, "tickets") /\ TicketRows(o) \cap holds[v] # {}
       \/ At(w, "payment") /\ PaymentRow(o) \in holds[v]
       \/ At(w, "order") /\ OrderRow(o) \in holds[v]

\* PostgreSQL breaks a circle of waiting transactions at one of them.
DeadlockVictim(w) ==
    /\ \E group \in SUBSET Workers :
         w \in group /\ \A v \in group : \E u \in group : WaitsFor(v, u)
    /\ Close(w)
    /\ UNCHANGED <<db, failures>>

-------------------------------------------------------------------------------
(* TicketService.markAsUsed *)

ReadTicket(g, t) ==
    /\ gate[g] = NoTicket
    /\ ticket[t] = "VALID"
    /\ gate' = [gate EXCEPT ![g] = t]
    /\ UNCHANGED <<db, due, found, call, holds, failures, admitted>>

\* Mutant: the update is by id alone.
AdmissibleUnchecked(t) == TRUE
Admissible(t) == ticket[t] = "VALID"

\* UPDATE Ticket SET status = USED WHERE id = t AND status = VALID
MarkAsUsed(g) ==
    LET t == gate[g] IN
    /\ t # NoTicket
    /\ \A w \in Workers : TicketRow(t) \notin holds[w]
    /\ IF Admissible(t)
         THEN /\ ticket' = [ticket EXCEPT ![t] = "USED"]
              /\ admitted' = [admitted EXCEPT ![t] = @ + 1]
         ELSE UNCHANGED <<ticket, admitted>>
    /\ gate' = [gate EXCEPT ![g] = NoTicket]
    /\ UNCHANGED <<stock, order, payment, releases, due, found, call, holds, failures>>

-------------------------------------------------------------------------------
Statement(w) ==
    \/ ReadOrder(w)
    \/ ReturnItem(w) \/ VoidTickets(w) \/ UpdatePayment(w) \/ UpdateOrder(w)
    \/ CommitPaid(w) \/ CommitReleased(w)

Next ==
    \/ \E o \in Orders : Place(o) \/ PassDeadline(o)
    \/ FindExpired \/ Crash
    \/ \E w \in Workers, o \in Orders :
         Expire(w, o) \/ ConfirmPayment(w, o) \/ RejectPayment(w, o)
    \/ \E w \in Workers : Statement(w) \/ Fail(w) \/ DeadlockVictim(w)
    \/ \E g \in Gates : MarkAsUsed(g) \/ \E t \in Tickets : ReadTicket(g, t)

Spec == Init /\ [][Next]_vars

\* Time passes, the cron fires, the connection pool serves its queue in turn,
\* a statement whose rows are free runs, and a deadlock is detected.  Waiters are
\* queued on a row: who waits for its last item gets it before a deadlock victim
\* that tries again does.
FairSpec ==
    /\ Spec
    /\ WF_vars(FindExpired)
    /\ WF_vars(\E w \in Workers : DeadlockVictim(w))
    /\ \A o \in Orders : /\ WF_vars(PassDeadline(o))
                         /\ SF_vars(\E w \in Workers : Expire(w, o))
    /\ \A w \in Workers : WF_vars(Statement(w)) /\ SF_vars(ReturnLastItem(w))

-------------------------------------------------------------------------------
(* Properties *)

CallRecords ==
    [kind : {"none", "confirm", "release"},
     order : Orders \cup {NoOrder},
     pc : Statements \cup {"idle"},
     item : Categories \cup {NoCategory}]

\* Each variable has its type; no stock is ever negative.
TypeOK ==
    /\ stock \in [Categories -> Nat]
    /\ order \in [Orders -> OrderStatus]
    /\ payment \in [Orders -> PaymentStatus]
    /\ ticket \in [Tickets -> TicketStatus]
    /\ due \subseteq Orders
    /\ found \subseteq Orders
    /\ call \in [Workers -> CallRecords]
    /\ holds \in [Workers -> SUBSET ({CategoryRow(c) : c \in Categories}
                                 \cup {TicketRow(t) : t \in Tickets}
                                 \cup {PaymentRow(o) : o \in Orders}
                                 \cup {OrderRow(o) : o \in Orders})]
    /\ gate \in [Gates -> Tickets \cup {NoTicket}]
    /\ failures \in 0..MaxFailures
    /\ releases \in [Orders -> Nat]
    /\ admitted \in [Tickets -> Nat]

\* Whatever calls overlap on an order, its payment and its status are those of one
\* settlement, never of two.
Agreed == {<<"NONE", "NONE">>, <<"PENDING", "PENDING">>, <<"PAID", "APPROVED">>,
           <<"CANCELED", "REJECTED">>}
PaymentAgrees == \A o \in Orders : <<order[o], payment[o]>> \in Agreed

\* A canceled order has no ticket that still admits, whenever the check-in read it.
CanceledOrderVoidsTickets ==
    \A t \in Tickets : order[TicketOrder[t]] = "CANCELED" => ticket[t] = "CANCELED"

\* A ticket admits one person, at however many gates it is shown.
AdmittedOnce == \A t \in Tickets : admitted[t] <= 1

\* Tickets are canceled and stock is given back by the same commits, and by no other.
ReleasedWhole ==
    \A t \in Tickets : ticket[t] = "CANCELED" <=> releases[TicketOrder[t]] > 0

\* The orders that still entitle to tickets never ask for more than was for sale and
\* what has been given back by a settlement too many (docs/ARCHITECTURE.md: the
\* conditional update "prevents overselling").
Placed == {o \in Orders : order[o] # "NONE"}
Live == {o \in Orders : order[o] \in {"PENDING", "PAID"}}
Held(S, c) == SumFunctionOnSet([o \in S |-> Demand[o][c]], S)
Excess(o) == IF order[o] = "CANCELED" THEN releases[o] - 1 ELSE releases[o]
ReturnedTwice(c) == SumFunctionOnSet([o \in Placed |-> Excess(o) * Demand[o][c]], Placed)
NoOversell == \A c \in Categories : Held(Live, c) <= Capacity[c] + ReturnedTwice(c)

\* Settlements that wait for each other in a circle are releases that wait for stock: a
\* confirmation is never the victim of a deadlock.
DeadlocksAreBetweenReleases ==
    \A group \in SUBSET Workers :
        (\A v \in group : \E u \in group : WaitsFor(v, u)) => \A v \in group : At(v, "items")

\* Every reservation is settled in the end: by an administrator or by the cron job,
\* through lost transactions, crashes and deadlocks.
EveryReservationEnds ==
    \A o \in Orders : order[o] = "PENDING" ~> order[o] \in {"PAID", "CANCELED"}

\* One call at a time settles each order as documented.
Documented == INSTANCE Reservation
ImplementsReservation == Documented!Spec

\* A settled order keeps its status, and its stock is not given back again
\* (docs/ARCHITECTURE.md: releaseOrder is "idempotent and safe against races with the
\* admin confirming at the same time").
SettledOnce ==
    [][\A o \in Orders :
        order[o] \in {"PAID", "CANCELED"} =>
            order'[o] = order[o] /\ releases'[o] = releases[o]]_vars

=============================================================================
