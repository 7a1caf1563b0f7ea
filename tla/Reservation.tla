----------------------------- MODULE Reservation -----------------------------
(***************************************************************************)
(* The life of a reservation as docs/PAYMENTS.md ("Payment Lifecycle",     *)
(* "Side effects") states it:  an order is placed PENDING, and is settled  *)
(* once, in one step, either by a confirmation or by a cancellation that   *)
(* gives its stock back and voids its tickets.                             *)
(***************************************************************************)
EXTENDS Integers

CONSTANTS
    Orders, Categories, Tickets,
    Demand,        \* Demand[o][c]: tickets of category c in order o
    TicketOrder,   \* TicketOrder[t]: the order ticket t belongs to
    Capacity       \* Capacity[c]: the stock of category c before any sale

VARIABLES stock, order, payment, ticket

vars == <<stock, order, payment, ticket>>

TicketsOf(o) == {t \in Tickets : TicketOrder[t] = o}

SetTickets(o, status) ==
    ticket' = [t \in Tickets |-> IF t \in TicketsOf(o) THEN status ELSE ticket[t]]

Init ==
    /\ stock = Capacity
    /\ order = [o \in Orders |-> "NONE"]
    /\ payment = [o \in Orders |-> "NONE"]
    /\ ticket = [t \in Tickets |-> "NONE"]

Place(o) ==
    /\ order[o] = "NONE"
    /\ \A c \in Categories : stock[c] >= Demand[o][c]
    /\ stock' = [c \in Categories |-> stock[c] - Demand[o][c]]
    /\ order' = [order EXCEPT ![o] = "PENDING"]
    /\ payment' = [payment EXCEPT ![o] = "PENDING"]
    /\ SetTickets(o, "VALID")

Confirm(o) ==
    /\ order[o] = "PENDING"
    /\ order' = [order EXCEPT ![o] = "PAID"]
    /\ payment' = [payment EXCEPT ![o] = "APPROVED"]
    /\ UNCHANGED <<stock, ticket>>

Cancel(o) ==
    /\ order[o] = "PENDING"
    /\ stock' = [c \in Categories |-> stock[c] + Demand[o][c]]
    /\ order' = [order EXCEPT ![o] = "CANCELED"]
    /\ payment' = [payment EXCEPT ![o] = "REJECTED"]
    /\ SetTickets(o, "CANCELED")

Admit(t) ==
    /\ ticket[t] = "VALID"
    /\ ticket' = [ticket EXCEPT ![t] = "USED"]
    /\ UNCHANGED <<stock, order, payment>>

Next ==
    \/ \E o \in Orders : Place(o) \/ Confirm(o) \/ Cancel(o)
    \/ \E t \in Tickets : Admit(t)

Spec == Init /\ [][Next]_vars

=============================================================================
