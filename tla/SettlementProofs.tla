--------------------------- MODULE SettlementProofs ---------------------------
(***************************************************************************)
(* What holds of Settlement for any orders, workers and gates, through     *)
(* every race, failure and deadlock; and that one worker is enough to      *)
(* implement the documented life of a reservation.                         *)
(***************************************************************************)
EXTENDS Settlement, SumTheorems, TLAPS

USE SettlementAssumption

-------------------------------------------------------------------------------
(* The inductive invariant *)

\* What a call is while it is not idle.
CallOK(w) ==
    \/ call[w] = Idle
    \/ /\ call[w].kind \in {"confirm", "release"}
       /\ call[w].order \in Orders
       /\ call[w].pc \in Statements
       /\ call[w].pc = "items" => call[w].item \in Categories
       /\ order[call[w].order] # "NONE"

CallsOK == \A w \in Workers : CallOK(w)

\* An order that was never placed has left no trace, and only placed orders are listed.
Unplaced ==
    \A o \in Orders : order[o] = "NONE" =>
        /\ releases[o] = 0
        /\ \A t \in TicketsOf(o) : ticket[t] = "NONE"

FoundPlaced == \A o \in found : order[o] # "NONE"

\* A ticket that is not admitted yet has no admission behind it.
Unadmitted ==
    \A t \in Tickets : ticket[t] \in {"NONE", "VALID"} => admitted[t] = 0

IInv ==
    /\ TypeOK /\ CallsOK /\ Unplaced /\ FoundPlaced /\ Unadmitted
    /\ PaymentAgrees /\ CanceledOrderVoidsTickets /\ AdmittedOnce /\ ReleasedWhole

Rows == {CategoryRow(c) : c \in Categories} \cup {TicketRow(t) : t \in Tickets}
          \cup {PaymentRow(o) : o \in Orders} \cup {OrderRow(o) : o \in Orders}

Committed == <<order, payment, ticket, releases, admitted>>

LEMMA InitIInv == Init => IInv
  <1> SUFFICES ASSUME Init PROVE IInv
    OBVIOUS
  <1>1. TypeOK
    <2>1. stock \in [Categories -> Nat] /\ failures \in 0..MaxFailures
      BY DEF Init
    <2>2. /\ order \in [Orders -> OrderStatus]
          /\ payment \in [Orders -> PaymentStatus]
          /\ ticket \in [Tickets -> TicketStatus]
      BY DEF Init, OrderStatus, PaymentStatus, TicketStatus
    <2>3. call \in [Workers -> CallRecords]
      BY DEF Init, Idle, CallRecords
    <2> QED
      BY <2>1, <2>2, <2>3 DEF Init, TypeOK
  <1>2. CallsOK
    BY DEF Init, CallsOK, CallOK
  <1>3. Unplaced /\ FoundPlaced /\ Unadmitted
    BY DEF Init, Unplaced, FoundPlaced, Unadmitted, TicketsOf
  <1>4. PaymentAgrees /\ CanceledOrderVoidsTickets /\ AdmittedOnce /\ ReleasedWhole
    BY DEF Init, PaymentAgrees, Agreed, CanceledOrderVoidsTickets, AdmittedOnce,
           ReleasedWhole
  <1> QED
    BY <1>1, <1>2, <1>3, <1>4 DEF IInv

-------------------------------------------------------------------------------
(* Steps that leave the committed tables alone *)

\* Nothing but the calls, the locks and the lists changes.
LEMMA Uncommitted ==
    ASSUME IInv, UNCHANGED <<stock, Committed>>,
           due' \subseteq Orders, found' \subseteq Orders,
           \A o \in found' : order[o] # "NONE",
           call' \in [Workers -> CallRecords], CallsOK',
           holds' \in [Workers -> SUBSET Rows],
           gate' \in [Gates -> Tickets \cup {NoTicket}],
           failures' \in 0..MaxFailures
    PROVE  IInv'
  <1>1. TypeOK'
    BY DEF IInv, TypeOK, Rows, Committed
  <1>2. Unplaced' /\ FoundPlaced' /\ Unadmitted'
    BY DEF IInv, Unplaced, FoundPlaced, Unadmitted, TicketsOf, Committed
  <1>3. PaymentAgrees' /\ CanceledOrderVoidsTickets' /\ AdmittedOnce' /\ ReleasedWhole'
    BY DEF IInv, PaymentAgrees, CanceledOrderVoidsTickets, AdmittedOnce, ReleasedWhole,
           Committed
  <1> QED
    BY <1>1, <1>2, <1>3 DEF IInv

\* One call changes, to a well-formed one.
LEMMA OneCall ==
    ASSUME IInv, NEW w \in Workers, NEW record \in CallRecords,
           call' = [call EXCEPT ![w] = record], order' = order,
           \/ record = Idle
           \/ /\ record.kind \in {"confirm", "release"}
              /\ record.order \in Orders
              /\ record.pc \in Statements
              /\ record.pc = "items" => record.item \in Categories
              /\ order[record.order] # "NONE"
    PROVE  call' \in [Workers -> CallRecords] /\ CallsOK'
  <1>1. call' \in [Workers -> CallRecords]
    BY DEF IInv, TypeOK
  <1>2. ASSUME NEW v \in Workers PROVE CallOK(v)'
    <2>1. CASE v = w
      BY <2>1 DEF CallOK, Idle, IInv, TypeOK
    <2>2. CASE v # w
      BY <2>2 DEF CallOK, Idle, IInv, TypeOK, CallsOK
    <2> QED
      BY <2>1, <2>2
  <1> QED
    BY <1>1, <1>2 DEF CallsOK

LEMMA IdleRecord == Idle \in CallRecords
  BY DEF Idle, CallRecords

\* The record of a call that goes on.
LEMMA CallFields ==
    ASSUME IInv, NEW w \in Workers, call[w].pc # "idle"
    PROVE  /\ call[w] \in CallRecords
           /\ call[w].kind \in {"confirm", "release"}
           /\ call[w].order \in Orders
           /\ call[w].pc \in Statements
           /\ call[w].pc = "items" => call[w].item \in Categories
           /\ order[call[w].order] # "NONE"
  BY DEF IInv, TypeOK, CallsOK, CallOK, Idle

\* Calls that begin.
LEMMA BeginIInv ==
    ASSUME IInv, NEW w \in Workers, NEW o \in Orders, order[o] # "NONE",
           NEW kind \in {"confirm", "release"}, Begin(w, kind, o), order' = order
    PROVE  call' \in [Workers -> CallRecords] /\ CallsOK'
  <1>1. Call(kind, o) \in CallRecords
    BY DEF Call, CallRecords, Statements
  <1> QED
    BY <1>1, OneCall DEF Begin, Call, Statements

LEMMA ExpireIInv ==
    ASSUME IInv, NEW w \in Workers, NEW o \in Orders, Expire(w, o)
    PROVE  IInv'
  <1>1. order[o] # "NONE" /\ UNCHANGED <<stock, Committed, due, holds, gate, failures>>
    BY DEF Expire, IInv, FoundPlaced, db, Committed
  <1>2. call' \in [Workers -> CallRecords] /\ CallsOK'
    BY <1>1, BeginIInv DEF Expire, Committed
  <1>3. found' \subseteq Orders /\ \A p \in found' : order[p] # "NONE"
    BY DEF Expire, IInv, TypeOK, FoundPlaced
  <1> QED
    BY <1>1, <1>2, <1>3, Uncommitted DEF IInv, TypeOK, Rows

LEMMA PaymentIInv ==
    ASSUME IInv, NEW w \in Workers, NEW o \in Orders,
           ConfirmPayment(w, o) \/ RejectPayment(w, o)
    PROVE  IInv'
  <1>1. order[o] # "NONE"
    BY DEF ConfirmPayment, RejectPayment, IInv, PaymentAgrees, Agreed
  <1>2. UNCHANGED <<stock, Committed, due, found, holds, gate, failures>>
    BY DEF ConfirmPayment, RejectPayment, db, Committed
  <1>3. call' \in [Workers -> CallRecords] /\ CallsOK'
    BY <1>1, <1>2, BeginIInv DEF ConfirmPayment, RejectPayment, Committed
  <1>4. found' \subseteq Orders /\ \A p \in found' : order[p] # "NONE"
    BY <1>2 DEF IInv, TypeOK, FoundPlaced
  <1> QED
    BY <1>2, <1>3, <1>4, Uncommitted DEF IInv, TypeOK, Rows

\* Lists and deadlines.
LEMMA ClockIInv ==
    ASSUME IInv, FindExpired \/ \E o \in Orders : PassDeadline(o)
    PROVE  IInv'
  <1>1. UNCHANGED <<stock, Committed, call, holds, gate, failures>>
    BY DEF FindExpired, PassDeadline, db, Committed
  <1>2. due' \subseteq Orders
    BY DEF FindExpired, PassDeadline, db, IInv, TypeOK
  <1>3. found' \subseteq Orders /\ \A p \in found' : order[p] # "NONE"
    BY DEF FindExpired, PassDeadline, IInv, TypeOK, FoundPlaced
  <1>4. CallsOK'
    BY <1>1 DEF IInv, CallsOK, CallOK, Committed
  <1> QED
    BY <1>1, <1>2, <1>3, <1>4, Uncommitted DEF IInv, TypeOK, Rows

LEMMA CrashIInv == ASSUME IInv, Crash PROVE IInv'
  <1>1. UNCHANGED <<stock, Committed, due>>
    BY DEF Crash, db, Committed
  <1>2. call' \in [Workers -> CallRecords]
    BY IdleRecord DEF Crash
  <1>3. CallsOK'
    BY DEF Crash, CallsOK, CallOK
  <1>4. failures' \in 0..MaxFailures
    BY DEF Crash, IInv, TypeOK
  <1>5. /\ found' \subseteq Orders /\ \A p \in found' : order[p] # "NONE"
        /\ holds' \in [Workers -> SUBSET Rows]
        /\ gate' \in [Gates -> Tickets \cup {NoTicket}]
    BY DEF Crash
  <1> QED
    BY <1>1, <1>2, <1>3, <1>4, <1>5, Uncommitted DEF IInv, TypeOK

\* A transaction that ends without a commit.
LEMMA RolledBackIInv ==
    ASSUME IInv, NEW w \in Workers, Fail(w) \/ DeadlockVictim(w)
    PROVE  IInv'
  <1>1. UNCHANGED <<stock, Committed, due, found, gate>> /\ Close(w)
    BY DEF Fail, DeadlockVictim, Close, db, Committed
  <1>2. call' \in [Workers -> CallRecords] /\ CallsOK'
    BY <1>1, OneCall, IdleRecord DEF Close, Committed
  <1>3. holds' \in [Workers -> SUBSET Rows]
    BY <1>1 DEF Close, IInv, TypeOK, Rows
  <1>4. failures' \in 0..MaxFailures
    BY DEF Fail, DeadlockVictim, IInv, TypeOK
  <1>5. found' \subseteq Orders /\ \A p \in found' : order[p] # "NONE"
    BY <1>1 DEF IInv, TypeOK, FoundPlaced
  <1> QED
    BY <1>1, <1>2, <1>3, <1>4, <1>5, Uncommitted DEF IInv, TypeOK

-------------------------------------------------------------------------------
(* The statements of a call *)

\* The call goes to another statement.
LEMMA GotoIInv ==
    ASSUME IInv, NEW w \in Workers, call[w].pc # "idle", order' = order,
           NEW s \in Statements \ {"items"}, Goto(w, s)
    PROVE  call' \in [Workers -> CallRecords] /\ CallsOK'
  <1> DEFINE record == [call[w] EXCEPT !.pc = s]
  <1>1. /\ record \in CallRecords
        /\ record.kind = call[w].kind /\ record.order = call[w].order /\ record.pc = s
    BY CallFields DEF CallRecords
  <1>2. call' = [call EXCEPT ![w] = record]
    BY DEF Goto, IInv, TypeOK
  <1> HIDE DEF record
  <1> QED
    BY <1>1, <1>2, CallFields, OneCall

\* The call goes to an item.
LEMMA GotoItemIInv ==
    ASSUME IInv, NEW w \in Workers, call[w].pc # "idle", order' = order,
           NEW c \in Categories, GotoItem(w, c)
    PROVE  call' \in [Workers -> CallRecords] /\ CallsOK'
  <1> DEFINE record == [kind |-> call[w].kind, order |-> call[w].order,
                        pc |-> "items", item |-> c]
  <1>1. /\ record \in CallRecords
        /\ record.kind = call[w].kind /\ record.order = call[w].order
        /\ record.pc = "items" /\ record.item = c
    BY CallFields DEF CallRecords, Statements
  <1>2. call' = [call EXCEPT ![w] = record]
    BY CallFields DEF GotoItem, CallRecords, IInv, TypeOK
  <1> HIDE DEF record
  <1> QED
    BY <1>1, <1>2, CallFields, OneCall DEF Statements

LEMMA ReadOrderIInv == ASSUME IInv, NEW w \in Workers, ReadOrder(w) PROVE IInv'
  <1>1. call[w].pc # "idle" /\ call[w].order \in Orders
    BY CallFields DEF ReadOrder, At
  <1>2. UNCHANGED <<stock, Committed, due, found, holds, gate, failures>>
    BY DEF ReadOrder, db, Committed
  <1> DEFINE Valid == call' \in [Workers -> CallRecords] /\ CallsOK'
  <1>3. ASSUME call' = [call EXCEPT ![w] = Idle] PROVE Valid
    BY <1>2, <1>3, OneCall, IdleRecord DEF Committed
  <1>4. ASSUME Goto(w, "payment") PROVE Valid
    BY <1>1, <1>2, <1>4, GotoIInv DEF Statements, Committed
  <1>5. ASSUME \E c \in Items(call[w].order) : GotoItem(w, c) PROVE Valid
    BY <1>1, <1>2, <1>5, GotoItemIInv DEF Items, Committed
  <1>6. Valid
    BY <1>3, <1>4, <1>5 DEF ReadOrder
  <1>7. found' \subseteq Orders /\ \A p \in found' : order[p] # "NONE"
    BY <1>2 DEF IInv, TypeOK, FoundPlaced
  <1> QED
    BY <1>2, <1>6, <1>7, Uncommitted DEF IInv, TypeOK, Rows

\* A write takes locks and moves on.
LEMMA WriteIInv ==
    ASSUME IInv, NEW w \in Workers, NEW rows \in SUBSET Rows, Write(w, rows),
           call' \in [Workers -> CallRecords] /\ CallsOK'
    PROVE  IInv'
  <1>1. UNCHANGED <<stock, Committed, due, found, gate, failures>>
    BY DEF Write, db, Committed
  <1>2. holds' \in [Workers -> SUBSET Rows]
    BY DEF Write, IInv, TypeOK, Rows
  <1>3. found' \subseteq Orders /\ \A p \in found' : order[p] # "NONE"
    BY <1>1 DEF IInv, TypeOK, FoundPlaced
  <1> QED
    BY <1>1, <1>2, <1>3, Uncommitted DEF IInv, TypeOK

LEMMA ReturnItemIInv == ASSUME IInv, NEW w \in Workers, ReturnItem(w) PROVE IInv'
  <1>1. /\ call[w].pc # "idle" /\ call[w].item \in Categories
        /\ call[w].order \in Orders
    BY CallFields DEF ReturnItem, At
  <1>2. order' = order /\ Write(w, {CategoryRow(call[w].item)})
    BY DEF ReturnItem, Write, db
  <1> DEFINE Valid == call' \in [Workers -> CallRecords] /\ CallsOK'
  <1>3. ASSUME Goto(w, "tickets") PROVE Valid
    BY <1>1, <1>2, <1>3, GotoIInv DEF Statements
  <1>4. ASSUME \E c \in Unreturned(w) : GotoItem(w, c) PROVE Valid
    BY <1>1, <1>2, <1>4, GotoItemIInv DEF Unreturned, Items
  <1>5. {CategoryRow(call[w].item)} \in SUBSET Rows
    BY <1>1 DEF Rows
  <1> QED
    BY <1>2, <1>3, <1>4, <1>5, WriteIInv DEF ReturnItem

LEMMA UpdateIInv ==
    ASSUME IInv, NEW w \in Workers,
           VoidTickets(w) \/ UpdatePayment(w) \/ UpdateOrder(w)
    PROVE  IInv'
  <1>1. call[w].pc # "idle" /\ call[w].order \in Orders
    BY CallFields DEF VoidTickets, UpdatePayment, UpdateOrder, At
  <1> DEFINE o == call[w].order
  <1>2. PICK rows \in {TicketRows(o), {PaymentRow(o)}, {OrderRow(o)}} : Write(w, rows)
    BY DEF VoidTickets, UpdatePayment, UpdateOrder
  <1>3. rows \in SUBSET Rows
    BY <1>1 DEF Rows, TicketRows, TicketsOf
  <1>4. PICK s \in {"payment", "order", "commit"} : Goto(w, s)
    BY DEF VoidTickets, UpdatePayment, UpdateOrder
  <1>5. call' \in [Workers -> CallRecords] /\ CallsOK'
    BY <1>1, <1>2, <1>4, GotoIInv DEF Write, db, Statements
  <1> QED
    BY <1>2, <1>3, <1>5, WriteIInv

-------------------------------------------------------------------------------
(* The commits *)

\* The calls other than the one that ends, whose orders stay placed.
LEMMA CloseIInv ==
    ASSUME IInv, NEW w \in Workers, Close(w),
           \A o \in Orders : order[o] # "NONE" => order'[o] # "NONE"
    PROVE  /\ call' \in [Workers -> CallRecords] /\ CallsOK'
           /\ holds' \in [Workers -> SUBSET Rows]
           /\ UNCHANGED <<due, found, gate, admitted>>
           /\ FoundPlaced'
  <1>1. call' \in [Workers -> CallRecords]
    BY IdleRecord DEF Close, IInv, TypeOK
  <1>2. ASSUME NEW v \in Workers PROVE CallOK(v)'
    <2>1. CASE v = w
      BY <2>1 DEF CallOK, Close, IInv, TypeOK
    <2>2. CASE v # w
      BY <2>2 DEF CallOK, Close, IInv, TypeOK, CallsOK
    <2> QED
      BY <2>1, <2>2
  <1>3. holds' \in [Workers -> SUBSET Rows]
    BY DEF Close, IInv, TypeOK, Rows
  <1>4. UNCHANGED <<due, found, gate, admitted>>
    BY DEF Close
  <1>5. FoundPlaced'
    BY <1>4 DEF IInv, TypeOK, FoundPlaced
  <1> QED
    BY <1>1, <1>2, <1>3, <1>4, <1>5 DEF CallsOK

LEMMA CommitPaidIInv == ASSUME IInv, NEW w \in Workers, CommitPaid(w) PROVE IInv'
  <1> DEFINE o == call[w].order
  <1>1. o \in Orders /\ order[o] # "NONE"
    BY CallFields DEF CommitPaid, At
  <1>2. /\ order' = [order EXCEPT ![o] = "PAID"]
        /\ payment' = [payment EXCEPT ![o] = "APPROVED"]
        /\ UNCHANGED <<stock, ticket, releases, failures>>
        /\ Close(w)
    BY DEF CommitPaid
  <1> HIDE DEF o
  <1>3. /\ order \in [Orders -> OrderStatus]
        /\ payment \in [Orders -> PaymentStatus]
    BY DEF IInv, TypeOK
  <1>4. /\ call' \in [Workers -> CallRecords] /\ CallsOK'
        /\ holds' \in [Workers -> SUBSET Rows]
        /\ UNCHANGED <<due, found, gate, admitted>>
        /\ FoundPlaced'
    BY <1>1, <1>2, <1>3, CloseIInv
  <1>5. TypeOK'
    <2>1. order' \in [Orders -> OrderStatus] /\ payment' \in [Orders -> PaymentStatus]
      BY <1>1, <1>2, <1>3 DEF OrderStatus, PaymentStatus
    <2> QED
      BY <1>2, <1>4, <2>1 DEF IInv, TypeOK, Rows
  <1>6. PaymentAgrees'
    BY <1>1, <1>2, <1>3 DEF IInv, PaymentAgrees, Agreed
  <1>7. Unplaced'
    BY <1>1, <1>2, <1>3 DEF IInv, Unplaced, TicketsOf
  <1>8. CanceledOrderVoidsTickets'
    BY <1>1, <1>2, <1>3 DEF IInv, CanceledOrderVoidsTickets
  <1>9. Unadmitted' /\ AdmittedOnce' /\ ReleasedWhole'
    BY <1>2, <1>4 DEF IInv, Unadmitted, AdmittedOnce, ReleasedWhole
  <1> QED
    BY <1>4, <1>5, <1>6, <1>7, <1>8, <1>9 DEF IInv

LEMMA CommitReleasedIInv ==
    ASSUME IInv, NEW w \in Workers, CommitReleased(w)
    PROVE  IInv'
  <1> DEFINE o == call[w].order
  <1>1. o \in Orders /\ order[o] # "NONE"
    BY CallFields DEF CommitReleased, At
  <1>2. /\ stock' = [c \in Categories |-> stock[c] + Demand[o][c]]
        /\ ticket' = [t \in Tickets |-> IF t \in TicketsOf(o) THEN "CANCELED" ELSE ticket[t]]
        /\ payment' = [payment EXCEPT ![o] = "REJECTED"]
        /\ order' = [order EXCEPT ![o] = "CANCELED"]
        /\ releases' = [releases EXCEPT ![o] = @ + 1]
        /\ failures' = failures
        /\ Close(w)
    BY DEF CommitReleased, Voided
  <1> HIDE DEF o
  <1>3. /\ stock \in [Categories -> Nat]
        /\ order \in [Orders -> OrderStatus]
        /\ payment \in [Orders -> PaymentStatus]
        /\ ticket \in [Tickets -> TicketStatus]
        /\ releases \in [Orders -> Nat]
    BY DEF IInv, TypeOK
  <1>4. /\ call' \in [Workers -> CallRecords] /\ CallsOK'
        /\ holds' \in [Workers -> SUBSET Rows]
        /\ UNCHANGED <<due, found, gate, admitted>>
        /\ FoundPlaced'
    BY <1>1, <1>2, <1>3, CloseIInv
  <1>5. TypeOK'
    <2>1. stock' \in [Categories -> Nat]
      BY <1>1, <1>2, <1>3
    <2>2. order' \in [Orders -> OrderStatus] /\ payment' \in [Orders -> PaymentStatus]
      BY <1>1, <1>2, <1>3 DEF OrderStatus, PaymentStatus
    <2>3. ticket' \in [Tickets -> TicketStatus] /\ releases' \in [Orders -> Nat]
      BY <1>1, <1>2, <1>3 DEF TicketStatus
    <2> QED
      BY <1>2, <1>4, <2>1, <2>2, <2>3 DEF IInv, TypeOK, Rows
  <1>6. \A t \in Tickets :
           /\ TicketOrder[t] = o => ticket'[t] = "CANCELED"
           /\ TicketOrder[t] # o => ticket'[t] = ticket[t]
    BY <1>2 DEF TicketsOf
  <1>7. \A p \in Orders \ {o} :
           order'[p] = order[p] /\ payment'[p] = payment[p] /\ releases'[p] = releases[p]
    BY <1>1, <1>2, <1>3
  <1>8. order'[o] = "CANCELED" /\ payment'[o] = "REJECTED" /\ releases'[o] > 0
    BY <1>1, <1>2, <1>3
  <1>9. PaymentAgrees'
    BY <1>7, <1>8 DEF IInv, PaymentAgrees, Agreed
  <1>10. Unplaced'
    BY <1>6, <1>7, <1>8 DEF IInv, Unplaced, TicketsOf
  <1>11. CanceledOrderVoidsTickets'
    BY <1>6, <1>7, <1>8 DEF IInv, CanceledOrderVoidsTickets
  <1>12. ReleasedWhole'
    BY <1>6, <1>7, <1>8 DEF IInv, ReleasedWhole
  <1>13. Unadmitted' /\ AdmittedOnce'
    BY <1>4, <1>6 DEF IInv, Unadmitted, AdmittedOnce
  <1> QED
    BY <1>4, <1>5, <1>9, <1>10, <1>11, <1>12, <1>13 DEF IInv

-------------------------------------------------------------------------------
(* Placing an order and checking a ticket in *)

LEMMA PlaceIInv == ASSUME IInv, NEW o \in Orders, Place(o) PROVE IInv'
  <1>1. /\ stock' = [c \in Categories |-> stock[c] - Demand[o][c]]
        /\ order' = [order EXCEPT ![o] = "PENDING"]
        /\ payment' = [payment EXCEPT ![o] = "PENDING"]
        /\ UNCHANGED <<due, found, call, holds, gate, failures, releases, admitted>>
    BY DEF Place
  <1>2. /\ stock \in [Categories -> Nat]
        /\ order \in [Orders -> OrderStatus]
        /\ payment \in [Orders -> PaymentStatus]
        /\ ticket \in [Tickets -> TicketStatus]
    BY DEF IInv, TypeOK
  <1>3. \A t \in Tickets :
           /\ TicketOrder[t] = o => ticket'[t] = "VALID"
           /\ TicketOrder[t] # o => ticket'[t] = ticket[t]
    BY DEF Place, TicketsOf
  <1>4. /\ order[o] = "NONE" /\ releases[o] = 0
        /\ \A t \in Tickets : TicketOrder[t] = o => ticket[t] = "NONE"
    BY DEF Place, IInv, Unplaced, TicketsOf
  <1>5. order'[o] = "PENDING" /\ payment'[o] = "PENDING"
    BY <1>1, <1>2
  <1>6. \A p \in Orders \ {o} : order'[p] = order[p] /\ payment'[p] = payment[p]
    BY <1>1, <1>2
  <1>7. TypeOK'
    <2>1. \A c \in Categories : stock[c] - Demand[o][c] \in Nat
      BY <1>2 DEF Place, Enough, Items
    <2>2. stock' \in [Categories -> Nat]
      BY <1>1, <2>1
    <2>3. order' \in [Orders -> OrderStatus] /\ payment' \in [Orders -> PaymentStatus]
      BY <1>1, <1>2 DEF OrderStatus, PaymentStatus
    <2>4. ticket' \in [Tickets -> TicketStatus]
      BY <1>2 DEF Place, TicketStatus
    <2> QED
      BY <1>1, <2>2, <2>3, <2>4 DEF IInv, TypeOK
  <1>8. CallsOK' /\ FoundPlaced'
    <2>1. \A p \in Orders : order[p] # "NONE" => order'[p] # "NONE"
      BY <1>5, <1>6
    <2>2. FoundPlaced'
      BY <1>1, <2>1 DEF IInv, TypeOK, FoundPlaced
    <2>3. ASSUME NEW v \in Workers PROVE CallOK(v)'
      BY <1>1, <2>1 DEF IInv, CallsOK, CallOK
    <2> QED
      BY <2>2, <2>3 DEF CallsOK
  <1>9. Unplaced'
    BY <1>1, <1>3, <1>5, <1>6 DEF IInv, Unplaced, TicketsOf
  <1>10. PaymentAgrees'
    BY <1>5, <1>6 DEF IInv, PaymentAgrees, Agreed
  <1>11. CanceledOrderVoidsTickets'
    BY <1>3, <1>5, <1>6 DEF IInv, CanceledOrderVoidsTickets
  <1>12. ReleasedWhole'
    BY <1>1, <1>3, <1>4 DEF IInv, ReleasedWhole
  <1>13. Unadmitted' /\ AdmittedOnce'
    BY <1>1, <1>3, <1>4 DEF IInv, Unadmitted, AdmittedOnce
  <1> QED
    BY <1>7, <1>8, <1>9, <1>10, <1>11, <1>12, <1>13 DEF IInv

LEMMA ReadTicketIInv ==
    ASSUME IInv, NEW g \in Gates, NEW t \in Tickets, ReadTicket(g, t)
    PROVE  IInv'
  <1>1. UNCHANGED <<stock, Committed, due, found, call, holds, failures>>
    BY DEF ReadTicket, db, Committed
  <1>2. gate' \in [Gates -> Tickets \cup {NoTicket}]
    BY DEF ReadTicket, IInv, TypeOK
  <1>3. CallsOK' /\ found' \subseteq Orders /\ \A p \in found' : order[p] # "NONE"
    BY <1>1 DEF IInv, TypeOK, FoundPlaced, CallsOK, CallOK, Committed
  <1> QED
    BY <1>1, <1>2, <1>3, Uncommitted DEF IInv, TypeOK, Rows

LEMMA MarkAsUsedIInv == ASSUME IInv, NEW g \in Gates, MarkAsUsed(g) PROVE IInv'
  <1> DEFINE t == gate[g]
  <1>1. t \in Tickets
    BY DEF MarkAsUsed, IInv, TypeOK
  <1>2. UNCHANGED <<stock, order, payment, releases, due, found, call, holds, failures>>
    BY DEF MarkAsUsed
  <1>3. gate' \in [Gates -> Tickets \cup {NoTicket}]
    BY DEF MarkAsUsed, IInv, TypeOK
  <1>4. CallsOK' /\ FoundPlaced'
    BY <1>2 DEF IInv, FoundPlaced, CallsOK, CallOK
  <1>5. CASE UNCHANGED <<ticket, admitted>>
    <2>1. CallsOK' /\ found' \subseteq Orders /\ \A p \in found' : order[p] # "NONE"
      BY <1>2, <1>4 DEF IInv, TypeOK, FoundPlaced
    <2> QED
      BY <1>2, <1>3, <1>5, <2>1, Uncommitted DEF IInv, TypeOK, Rows, Committed
  <1>6. CASE /\ ticket[t] = "VALID"
             /\ ticket' = [ticket EXCEPT ![t] = "USED"]
             /\ admitted' = [admitted EXCEPT ![t] = @ + 1]
    <2>1. ticket \in [Tickets -> TicketStatus] /\ admitted \in [Tickets -> Nat]
      BY DEF IInv, TypeOK
    <2>2. ticket'[t] = "USED" /\ admitted'[t] = 1
      BY <1>1, <1>6, <2>1 DEF IInv, Unadmitted
    <2>3. \A u \in Tickets \ {t} : ticket'[u] = ticket[u] /\ admitted'[u] = admitted[u]
      BY <1>1, <1>6, <2>1
    <2>4. ticket[t] # "NONE" /\ ticket[t] # "CANCELED"
      BY <1>6
    <2>5. ticket' \in [Tickets -> TicketStatus] /\ admitted' \in [Tickets -> Nat]
      BY <1>1, <1>6, <2>1 DEF TicketStatus
    <2> HIDE DEF t
    <2>6. TypeOK'
      BY <1>2, <1>3, <2>5 DEF IInv, TypeOK
    <2>7. Unplaced'
      BY <1>1, <1>2, <2>3, <2>4 DEF IInv, Unplaced, TicketsOf
    <2>8. Unadmitted' /\ AdmittedOnce'
      BY <1>1, <2>2, <2>3 DEF IInv, Unadmitted, AdmittedOnce
    <2>9. PaymentAgrees'
      BY <1>2 DEF IInv, PaymentAgrees
    <2>10. CanceledOrderVoidsTickets'
      BY <1>1, <1>2, <2>3, <2>4 DEF IInv, CanceledOrderVoidsTickets
    <2>11. ReleasedWhole'
      BY <1>1, <1>2, <2>2, <2>3, <2>4 DEF IInv, ReleasedWhole
    <2> QED
      BY <1>4, <2>6, <2>7, <2>8, <2>9, <2>10, <2>11 DEF IInv
  <1> QED
    BY <1>5, <1>6 DEF MarkAsUsed, Admissible

-------------------------------------------------------------------------------
(* The theorems *)

LEMMA NextIInv == IInv /\ [Next]_vars => IInv'
  <1> SUFFICES ASSUME IInv, [Next]_vars PROVE IInv'
    OBVIOUS
  <1>1. CASE UNCHANGED vars
    <2>1. UNCHANGED <<stock, Committed, due, found, call, holds, gate, failures>>
      BY <1>1 DEF vars, Committed
    <2>2. CallsOK' /\ \A p \in found' : order[p] # "NONE"
      BY <2>1 DEF IInv, TypeOK, CallsOK, CallOK, FoundPlaced, Committed
    <2> QED
      BY <2>1, <2>2, Uncommitted DEF IInv, TypeOK, Rows
  <1>2. ASSUME NEW o \in Orders, Place(o) PROVE IInv'
    BY <1>2, PlaceIInv
  <1>3. CASE FindExpired \/ \E o \in Orders : PassDeadline(o)
    BY <1>3, ClockIInv
  <1>4. CASE Crash
    BY <1>4, CrashIInv
  <1>5. ASSUME NEW w \in Workers, NEW o \in Orders, Expire(w, o) PROVE IInv'
    BY <1>5, ExpireIInv
  <1>6. ASSUME NEW w \in Workers, NEW o \in Orders,
               ConfirmPayment(w, o) \/ RejectPayment(w, o)
        PROVE  IInv'
    BY <1>6, PaymentIInv
  <1>7. ASSUME NEW w \in Workers, ReadOrder(w) PROVE IInv'
    BY <1>7, ReadOrderIInv
  <1>8. ASSUME NEW w \in Workers, ReturnItem(w) PROVE IInv'
    BY <1>8, ReturnItemIInv
  <1>9. ASSUME NEW w \in Workers, VoidTickets(w) \/ UpdatePayment(w) \/ UpdateOrder(w)
        PROVE  IInv'
    BY <1>9, UpdateIInv
  <1>10. ASSUME NEW w \in Workers, CommitPaid(w) PROVE IInv'
    BY <1>10, CommitPaidIInv
  <1>11. ASSUME NEW w \in Workers, CommitReleased(w) PROVE IInv'
    BY <1>11, CommitReleasedIInv
  <1>12. ASSUME NEW w \in Workers, Fail(w) \/ DeadlockVictim(w) PROVE IInv'
    BY <1>12, RolledBackIInv
  <1>13. ASSUME NEW g \in Gates, NEW t \in Tickets, ReadTicket(g, t) PROVE IInv'
    BY <1>13, ReadTicketIInv
  <1>14. ASSUME NEW g \in Gates, MarkAsUsed(g) PROVE IInv'
    BY <1>14, MarkAsUsedIInv
  <1> QED
    BY <1>1, <1>2, <1>3, <1>4, <1>5, <1>6, <1>7, <1>8, <1>9, <1>10, <1>11, <1>12,
       <1>13, <1>14
    DEF Next, Statement

\* Every step of every worker and gate preserves the invariant.
THEOREM Inductive == Spec => []IInv
  BY InitIInv, NextIInv, PTL DEF Spec

\* Each variable keeps its type: in particular no stock is ever negative.
THEOREM TypeCorrect == Spec => []TypeOK
  BY Inductive, PTL DEF IInv

\* Confirmations and releases that overlap never mix an order and a payment: the
\* two updates of one transaction commit together.
THEOREM PaymentAgreesAlways == Spec => []PaymentAgrees
  BY Inductive, PTL DEF IInv

\* A check-in that read a ticket before its order was canceled does not bring it back.
THEOREM CanceledVoids == Spec => []CanceledOrderVoidsTickets
  BY Inductive, PTL DEF IInv

\* The guarded update of markAsUsed admits a ticket once, at any number of gates.
THEOREM OneAdmission == Spec => []AdmittedOnce
  BY Inductive, PTL DEF IInv

\* releaseOrder is all or nothing: stock comes back exactly when tickets are voided.
THEOREM WholeReleases == Spec => []ReleasedWhole
  BY Inductive, PTL DEF IInv

-------------------------------------------------------------------------------
(* The ledger of the stock *)

\* The tickets of a category that are on sale or in an order that still entitles to them
\* are those there were, and those given back more than once.
Due(c) == [o \in Placed |-> IF o \in Live THEN Demand[o][c] ELSE 0]
Surplus(c) == [o \in Placed |-> Excess(o) * Demand[o][c]]

StockLedger ==
    \A c \in Categories :
        stock[c] + SumFunctionOnSet(Due(c), Placed)
          = Capacity[c] + SumFunctionOnSet(Surplus(c), Placed)

\* A canceled order has been given back at least once.
CanceledReturned == \A o \in Orders : order[o] = "CANCELED" => releases[o] > 0

LedgerInv == IInv /\ IsFiniteSet(Placed) /\ CanceledReturned /\ StockLedger

LEMMA TermsNatural ==
    ASSUME IInv, CanceledReturned, NEW c \in Categories
    PROVE  /\ Natural(Due(c), Placed) /\ Natural(Surplus(c), Placed)
           /\ \A o \in Placed : Excess(o) \in Nat /\ Demand[o][c] \in Nat
  <1>1. \A o \in Placed : Excess(o) \in Nat /\ Demand[o][c] \in Nat
    BY DEF IInv, TypeOK, CanceledReturned, Placed, Excess
  <1>2. \A m, n \in Nat : m * n \in Nat
    OBVIOUS
  <1> QED
    BY <1>1, <1>2 DEF Natural, Due, Surplus

LEMMA InitLedger == Init => LedgerInv
  <1> SUFFICES ASSUME Init PROVE LedgerInv
    OBVIOUS
  <1>1. IInv
    BY InitIInv
  <1>2. Placed = {}
    BY DEF Init, Placed
  <1>3. IsFiniteSet(Placed)
    BY <1>2, FS_EmptySet
  <1>4. CanceledReturned
    BY DEF Init, CanceledReturned
  <1>5. ASSUME NEW c \in Categories
        PROVE  stock[c] + SumFunctionOnSet(Due(c), Placed)
                 = Capacity[c] + SumFunctionOnSet(Surplus(c), Placed)
    <2>1. \A f : SumFunctionOnSet(f, {}) = 0
      BY SumEmpty
    <2>2. SumFunctionOnSet(Due(c), Placed) = 0 /\ SumFunctionOnSet(Surplus(c), Placed) = 0
      BY <1>2, <2>1, Zenon
    <2> QED
      BY <2>2 DEF Init
  <1> QED
    BY <1>1, <1>3, <1>4, <1>5 DEF LedgerInv, StockLedger

\* Steps that leave orders and stock alone.
LEMMA SameLedger ==
    ASSUME LedgerInv, IInv', UNCHANGED <<stock, order, releases>>
    PROVE  LedgerInv'
  <1>1. Placed' = Placed /\ Live' = Live /\ \A o : Excess(o)' = Excess(o)
    BY DEF Placed, Live, Excess
  <1>2. \A c : Due(c)' = Due(c) /\ Surplus(c)' = Surplus(c)
    BY <1>1 DEF Due, Surplus
  <1>3. StockLedger'
    BY <1>1, <1>2 DEF LedgerInv, StockLedger
  <1> QED
    BY <1>1, <1>3 DEF LedgerInv, CanceledReturned

LEMMA PlaceLedger ==
    ASSUME LedgerInv, IInv', NEW o \in Orders, Place(o)
    PROVE  LedgerInv'
  <1>1. /\ stock' = [c \in Categories |-> stock[c] - Demand[o][c]]
        /\ order' = [order EXCEPT ![o] = "PENDING"] /\ releases' = releases
        /\ order[o] = "NONE" /\ releases[o] = 0
    BY DEF Place, LedgerInv, IInv, Unplaced
  <1>2. /\ order \in [Orders -> OrderStatus] /\ stock \in [Categories -> Nat]
    BY DEF LedgerInv, IInv, TypeOK
  <1>3. order'[o] = "PENDING" /\ \A p \in Orders \ {o} : order'[p] = order[p]
    BY <1>1, <1>2
  <1>4. Placed' = Placed \cup {o} /\ o \notin Placed
    BY <1>1, <1>3 DEF Placed
  <1>5. CanceledReturned'
    BY <1>1, <1>3 DEF LedgerInv, CanceledReturned
  <1>6. IsFiniteSet(Placed) /\ IsFiniteSet(Placed')
    BY <1>4, FS_AddElement DEF LedgerInv
  <1>7. ASSUME NEW c \in Categories
        PROVE  stock'[c] + SumFunctionOnSet(Due(c)', Placed')
                 = Capacity[c] + SumFunctionOnSet(Surplus(c)', Placed')
    <2>1. Natural(Due(c), Placed) /\ Natural(Surplus(c), Placed)
      BY TermsNatural DEF LedgerInv
    <2>2. Natural(Due(c)', Placed') /\ Natural(Surplus(c)', Placed')
      <3>1. /\ Natural(Due(c)', Placed') /\ Natural(Surplus(c)', Placed')
            /\ \A p \in Placed' : Excess(p)' \in Nat /\ Demand[p][c] \in Nat
        <4>1. \A p \in Placed' : Excess(p)' \in Nat /\ Demand[p][c] \in Nat
          BY <1>5 DEF IInv, TypeOK, CanceledReturned, Placed, Excess
        <4>2. \A m, n \in Nat : m * n \in Nat
          OBVIOUS
        <4> QED
          BY <4>1, <4>2 DEF Natural, Due, Surplus
      <3> QED
        BY <3>1
    <2>3. Due(c)'[o] = Demand[o][c] /\ Surplus(c)'[o] = 0
      <3>1. Demand[o][c] \in Nat /\ 0 * Demand[o][c] = 0
        OBVIOUS
      <3> QED
        BY <1>1, <1>3, <1>4, <3>1 DEF Due, Surplus, Live, Excess
    <2>4. \A p \in Placed : Due(c)'[p] = Due(c)[p] /\ Surplus(c)'[p] = Surplus(c)[p]
      BY <1>1, <1>3, <1>4 DEF Due, Surplus, Live, Excess, Placed
    <2> DEFINE due1 == Due(c)'
               sur1 == Surplus(c)'
               all == Placed \cup {o}
    <2>5. /\ Natural(due1, all) /\ Natural(sur1, all)
          /\ due1[o] = Demand[o][c] /\ sur1[o] = 0
          /\ \A p \in Placed : due1[p] = Due(c)[p] /\ sur1[p] = Surplus(c)[p]
      BY <1>4, <2>2, <2>3, <2>4
    <2>6. SumFunctionOnSet(Due(c)', Placed') = SumFunctionOnSet(due1, all)
          /\ SumFunctionOnSet(Surplus(c)', Placed') = SumFunctionOnSet(sur1, all)
      BY <1>4, Zenon
    <2> HIDE DEF due1, sur1
    <2>7. /\ SumFunctionOnSet(due1, all) = due1[o] + SumFunctionOnSet(due1, Placed)
          /\ SumFunctionOnSet(sur1, all) = sur1[o] + SumFunctionOnSet(sur1, Placed)
      BY <1>4, <1>6, <2>5, SumAdd
    <2>8. /\ SumFunctionOnSet(due1, Placed) = SumFunctionOnSet(Due(c), Placed)
          /\ SumFunctionOnSet(sur1, Placed) = SumFunctionOnSet(Surplus(c), Placed)
      BY <1>6, <2>1, <2>5, SumAgree
    <2>9. SumFunctionOnSet(Due(c), Placed) \in Nat /\ SumFunctionOnSet(Surplus(c), Placed) \in Nat
      BY <1>6, <2>1, SumType
    <2>10. stock[c] + SumFunctionOnSet(Due(c), Placed)
             = Capacity[c] + SumFunctionOnSet(Surplus(c), Placed)
      BY DEF LedgerInv, StockLedger
    <2>11. stock'[c] = stock[c] - Demand[o][c] /\ stock[c] \in Nat /\ Demand[o][c] \in Nat
           /\ Capacity[c] \in Nat
      BY <1>1, <1>2
    <2> HIDE DEF all
    <2> QED
      BY <2>5, <2>6, <2>7, <2>8, <2>9, <2>10, <2>11
  <1> QED
    BY <1>5, <1>6, <1>7 DEF LedgerInv, StockLedger

\* One term of each of two sums changes.
LEMMA BothReplaced ==
    ASSUME NEW S, NEW x \in S, NEW due0, NEW due1, NEW sur0, NEW sur1, IsFiniteSet(S),
           Natural(due0, S), Natural(due1, S), Natural(sur0, S), Natural(sur1, S),
           AgreeBut(due0, due1, S, x), AgreeBut(sur0, sur1, S, x)
    PROVE  /\ SumFunctionOnSet(due1, S) = SumFunctionOnSet(due0, S) - due0[x] + due1[x]
           /\ SumFunctionOnSet(sur1, S) = SumFunctionOnSet(sur0, S) - sur0[x] + sur1[x]
           /\ SumFunctionOnSet(due0, S) \in Nat /\ SumFunctionOnSet(sur0, S) \in Nat
  <1>1. SumFunctionOnSet(due1, S) = SumFunctionOnSet(due0, S) - due0[x] + due1[x]
    BY SumReplace
  <1>2. SumFunctionOnSet(sur1, S) = SumFunctionOnSet(sur0, S) - sur0[x] + sur1[x]
    BY SumReplace
  <1>3. SumFunctionOnSet(due0, S) \in Nat /\ SumFunctionOnSet(sur0, S) \in Nat
    BY SumType
  <1> QED
    BY <1>1, <1>2, <1>3

\* A commit changes the terms of its own order, in the same measure.
LEMMA CommitLedger ==
    ASSUME LedgerInv, IInv', NEW w \in Workers, CommitPaid(w) \/ CommitReleased(w)
    PROVE  LedgerInv'
  <1>1. PICK o \in Orders : o = call[w].order /\ order[o] # "NONE"
    BY CallFields DEF CommitPaid, CommitReleased, At, LedgerInv
  <1> DEFINE back == IF order'[o] = "CANCELED" THEN 1 ELSE 0
  <1>2. /\ order \in [Orders -> OrderStatus] /\ stock \in [Categories -> Nat]
        /\ releases \in [Orders -> Nat]
    BY DEF LedgerInv, IInv, TypeOK
  <1>3. \/ /\ order' = [order EXCEPT ![o] = "PAID"] /\ UNCHANGED <<stock, releases>>
        \/ /\ order' = [order EXCEPT ![o] = "CANCELED"]
           /\ stock' = [c \in Categories |-> stock[c] + Demand[o][c]]
           /\ releases' = [releases EXCEPT ![o] = @ + 1]
    BY <1>1 DEF CommitPaid, CommitReleased
  <1>4. /\ order'[o] \in {"PAID", "CANCELED"} /\ releases'[o] = releases[o] + back
        /\ \A p \in Orders \ {o} : order'[p] = order[p] /\ releases'[p] = releases[p]
        /\ \A c \in Categories : stock'[c] = IF back = 1 THEN stock[c] + Demand[o][c] ELSE stock[c]
    BY <1>1, <1>2, <1>3
  <1>5. back \in {0, 1} /\ (back = 1 <=> order'[o] = "CANCELED")
    OBVIOUS
  <1> HIDE DEF back
  <1>6. Placed' = Placed /\ o \in Placed
    <2>1. \A p \in Orders : order'[p] # "NONE" <=> order[p] # "NONE"
      <3>1. ASSUME NEW p \in Orders \ {o} PROVE order'[p] = order[p]
        BY <1>4
      <3>2. order'[o] # "NONE" /\ order[o] # "NONE"
        BY <1>1, <1>4
      <3> QED
        BY <3>1, <3>2
    <2> QED
      BY <1>1, <2>1 DEF Placed
  <1>7. CanceledReturned'
    <2>1. ASSUME NEW p \in Orders \ {o}, order'[p] = "CANCELED" PROVE releases'[p] > 0
      BY <1>4, <2>1 DEF LedgerInv, CanceledReturned
    <2>2. order'[o] = "CANCELED" => releases'[o] > 0
      <3>1. releases[o] \in Nat
        BY <1>2
      <3> QED
        BY <1>4, <1>5, <3>1
    <2> QED
      BY <2>1, <2>2 DEF CanceledReturned
  <1>8. ASSUME NEW c \in Categories
        PROVE  stock'[c] + SumFunctionOnSet(Due(c)', Placed')
                 = Capacity[c] + SumFunctionOnSet(Surplus(c)', Placed')
    <2> DEFINE due1 == Due(c)'
               sur1 == Surplus(c)'
               d == Demand[o][c]
               r == releases[o]
               was == IF order[o] = "CANCELED" THEN 1 ELSE 0
    <2>1. Natural(Due(c), Placed) /\ Natural(Surplus(c), Placed)
      BY TermsNatural DEF LedgerInv
    <2>2. Natural(due1, Placed) /\ Natural(sur1, Placed)
      <3>1. \A p \in Placed' : Excess(p)' \in Nat /\ Demand[p][c] \in Nat
        BY <1>7 DEF IInv, TypeOK, CanceledReturned, Placed, Excess
      <3>2. \A m, n \in Nat : m * n \in Nat
        OBVIOUS
      <3> QED
        BY <1>6, <3>1, <3>2 DEF Natural, Due, Surplus
    <2>3. \A p \in Placed \ {o} : due1[p] = Due(c)[p] /\ sur1[p] = Surplus(c)[p]
      BY <1>4, <1>6 DEF Due, Surplus, Live, Excess, Placed
    <2>4. d \in Nat /\ r \in Nat /\ was \in {0, 1} /\ Capacity[c] \in Nat /\ stock[c] \in Nat
      BY <1>1, <1>2
    <2>5. /\ due1[o] = (IF back = 1 THEN 0 ELSE d)
          /\ Due(c)[o] = (IF was = 1 THEN 0 ELSE d)
      <3>1. order[o] \in {"PENDING", "PAID", "CANCELED"}
        BY <1>1, <1>2 DEF OrderStatus
      <3> QED
        BY <1>1, <1>4, <1>5, <1>6, <3>1 DEF Due, Live
    <2>6. sur1[o] = r * d /\ Surplus(c)[o] = (r - was) * d
      <3>1. sur1[o] = Excess(o)' * d /\ Surplus(c)[o] = Excess(o) * d
        BY <1>6 DEF Surplus
      <3>2. Excess(o)' = r
        <4>1. r + 0 = r /\ (r + 1) - 1 = r
          BY <2>4
        <4> QED
          BY <1>4, <1>5, <4>1 DEF Excess
      <3>3. Excess(o) = r - was
        <4>1. r - 0 = r
          BY <2>4
        <4> QED
          BY <4>1 DEF Excess
      <3> QED
        BY <3>1, <3>2, <3>3
    <2>7. /\ SumFunctionOnSet(Due(c)', Placed') = SumFunctionOnSet(due1, Placed)
          /\ SumFunctionOnSet(Surplus(c)', Placed') = SumFunctionOnSet(sur1, Placed)
      BY <1>6, Zenon
    <2>8. stock[c] + SumFunctionOnSet(Due(c), Placed)
            = Capacity[c] + SumFunctionOnSet(Surplus(c), Placed)
      BY DEF LedgerInv, StockLedger
    <2>9. stock'[c] = IF back = 1 THEN stock[c] + d ELSE stock[c]
      BY <1>4
    <2>10. IsFiniteSet(Placed)
      BY DEF LedgerInv
    <2> HIDE DEF due1, sur1, d, r, was
    <2>11. AgreeBut(Due(c), due1, Placed, o)
      BY <2>3 DEF AgreeBut
    <2>12. AgreeBut(Surplus(c), sur1, Placed, o)
      BY <2>3 DEF AgreeBut
    <2>13. o \in Placed
      BY <1>6
    <2>14. /\ SumFunctionOnSet(due1, Placed) = SumFunctionOnSet(Due(c), Placed) - Due(c)[o] + due1[o]
           /\ SumFunctionOnSet(sur1, Placed)
                = SumFunctionOnSet(Surplus(c), Placed) - Surplus(c)[o] + sur1[o]
           /\ SumFunctionOnSet(Due(c), Placed) \in Nat /\ SumFunctionOnSet(Surplus(c), Placed) \in Nat
      BY <2>1, <2>2, <2>10, <2>11, <2>12, <2>13, BothReplaced
    <2> DEFINE D == SumFunctionOnSet(Due(c), Placed)
               D1 == SumFunctionOnSet(due1, Placed)
               E == SumFunctionOnSet(Surplus(c), Placed)
               E1 == SumFunctionOnSet(sur1, Placed)
               twice == r * d
    <2>15. E1 = IF was = 1 THEN E + d ELSE E
      <3>1. E1 = E - (r - was) * d + twice /\ twice \in Nat /\ E \in Nat
        BY <2>4, <2>6, <2>14
      <3>2. (r - 1) * d = twice - d /\ (r - 0) * d = twice
        BY <2>4
      <3> HIDE DEF twice, E, E1
      <3>3. E - (twice - d) + twice = E + d /\ E - twice + twice = E
        BY <2>4, <3>1
      <3> QED
        BY <2>4, <3>1, <3>2, <3>3
    <2>16. /\ D1 = D - (IF was = 1 THEN 0 ELSE d) + (IF back = 1 THEN 0 ELSE d)
           /\ D \in Nat /\ E \in Nat /\ stock[c] + D = Capacity[c] + E
      BY <2>5, <2>8, <2>14
    <2> HIDE DEF D, D1, E, E1, twice
    <2>17. (IF back = 1 THEN stock[c] + d ELSE stock[c]) + D1 = Capacity[c] + E1
      <3> DEFINE now == IF back = 1 THEN stock[c] + d ELSE stock[c]
                 before == stock[c]
                 all == Capacity[c]
      <3> before \in Nat /\ all \in Nat /\ d \in Nat /\ D \in Nat /\ E \in Nat /\ before + D = all + E
        BY <2>4, <2>16
      <3>1. ASSUME was = 1 /\ back = 1 PROVE now + D1 = all + E1
        <4>1. D1 = D /\ E1 = E + d /\ now = before + d
          BY <2>15, <2>16, <3>1
        <4> HIDE DEF now, before, all
        <4> QED
          BY <4>1
      <3>2. ASSUME was = 1 /\ back = 0 PROVE now + D1 = all + E1
        <4>1. D1 = D + d /\ E1 = E + d /\ now = before
          BY <2>15, <2>16, <3>2
        <4> HIDE DEF now, before, all
        <4> QED
          BY <4>1
      <3>3. ASSUME was = 0 /\ back = 1 PROVE now + D1 = all + E1
        <4>1. D1 = D - d /\ E1 = E /\ now = before + d
          BY <2>15, <2>16, <3>3
        <4> HIDE DEF now, before, all
        <4> QED
          BY <4>1
      <3>4. ASSUME was = 0 /\ back = 0 PROVE now + D1 = all + E1
        <4>1. D1 = D /\ E1 = E /\ now = before
          BY <2>15, <2>16, <3>4
        <4> HIDE DEF now, before, all
        <4> QED
          BY <4>1
      <3>5. now + D1 = all + E1
        BY <1>5, <2>4, <3>1, <3>2, <3>3, <3>4
      <3> QED
        BY <3>5
    <2> QED
      BY <2>7, <2>9, <2>17 DEF D1, E1
  <1> QED
    BY <1>6, <1>7, <1>8 DEF LedgerInv, StockLedger

LEMMA NextLedger == LedgerInv /\ [Next]_vars => LedgerInv'
  <1> SUFFICES ASSUME LedgerInv, [Next]_vars PROVE LedgerInv'
    OBVIOUS
  <1>1. IInv'
    BY NextIInv DEF LedgerInv
  <1>2. ASSUME NEW o \in Orders, Place(o) PROVE LedgerInv'
    BY <1>1, <1>2, PlaceLedger
  <1>3. ASSUME NEW w \in Workers, CommitPaid(w) \/ CommitReleased(w) PROVE LedgerInv'
    BY <1>1, <1>3, CommitLedger
  <1>4. ASSUME UNCHANGED <<stock, order, releases>> PROVE LedgerInv'
    BY <1>1, <1>4, SameLedger
  <1>5. ASSUME \/ FindExpired \/ Crash
               \/ \E o \in Orders : PassDeadline(o)
               \/ \E w \in Workers, o \in Orders :
                    Expire(w, o) \/ ConfirmPayment(w, o) \/ RejectPayment(w, o)
               \/ \E w \in Workers : Fail(w) \/ DeadlockVictim(w)
               \/ \E w \in Workers : ReadOrder(w) \/ ReturnItem(w) \/ VoidTickets(w)
                                   \/ UpdatePayment(w) \/ UpdateOrder(w)
               \/ \E g \in Gates : MarkAsUsed(g) \/ \E t \in Tickets : ReadTicket(g, t)
               \/ UNCHANGED vars
        PROVE  UNCHANGED <<stock, order, releases>>
    BY <1>5 DEF FindExpired, Crash, PassDeadline, Expire, ConfirmPayment, RejectPayment,
                Fail, DeadlockVictim, ReadOrder, ReturnItem, VoidTickets, UpdatePayment,
                UpdateOrder, ReadTicket, MarkAsUsed, Write, db, vars
  <1> QED
    BY <1>2, <1>3, <1>4, <1>5 DEF Next, Statement

\* The ledger balances in every reachable state, through every race.
THEOREM LedgerBalances == Spec => []LedgerInv
  <1>1. Init => LedgerInv
    BY InitLedger
  <1>2. LedgerInv /\ [Next]_vars => LedgerInv'
    BY NextLedger
  <1> QED
    BY <1>1, <1>2, PTL DEF Spec

LEMMA LedgerBounds ==
    ASSUME LedgerInv, NEW c \in Categories
    PROVE  /\ Held(Live, c) <= Capacity[c] + ReturnedTwice(c)
           /\ Held(Live, c) \in Nat /\ ReturnedTwice(c) \in Nat
  <1> DEFINE held == [o \in Live |-> Demand[o][c]]
  <1>1. Live \in SUBSET Placed /\ IsFiniteSet(Placed)
    BY DEF Live, Placed, LedgerInv
  <1>2. Natural(held, Live) /\ \A o \in Live : held[o] <= Due(c)[o]
    <2>1. \A o \in Live : Demand[o][c] \in Nat
      BY DEF Live
    <2> QED
      BY <1>1, <2>1 DEF Natural, Due
  <1>3. Natural(Due(c), Placed) /\ Natural(Surplus(c), Placed)
    BY TermsNatural DEF LedgerInv
  <1>4. Held(Live, c) = SumFunctionOnSet(held, Live)
    BY DEF Held
  <1>5. ReturnedTwice(c) = SumFunctionOnSet(Surplus(c), Placed)
    BY DEF ReturnedTwice, Surplus
  <1> HIDE DEF held
  <1>6. SumFunctionOnSet(held, Live) <= SumFunctionOnSet(Due(c), Placed)
    BY <1>1, <1>2, <1>3, SumMonotone
  <1>7. IsFiniteSet(Live)
    BY <1>1, FS_Subset
  <1>8. /\ SumFunctionOnSet(held, Live) \in Nat /\ SumFunctionOnSet(Due(c), Placed) \in Nat
        /\ SumFunctionOnSet(Surplus(c), Placed) \in Nat
    BY <1>1, <1>2, <1>3, <1>7, SumType
  <1>9. stock[c] + SumFunctionOnSet(Due(c), Placed)
          = Capacity[c] + SumFunctionOnSet(Surplus(c), Placed)
    BY DEF LedgerInv, StockLedger
  <1>10. stock[c] \in Nat /\ Capacity[c] \in Nat
    BY DEF LedgerInv, IInv, TypeOK
  <1> QED
    BY <1>4, <1>5, <1>6, <1>8, <1>9, <1>10

\* NoOversell: through every race of settlements, orders that still entitle to tickets
\* never hold more than the capacity and what has been given back once too often.
THEOREM NeverOversells == Spec => []NoOversell
  <1>1. LedgerInv => NoOversell
    BY LedgerBounds DEF NoOversell
  <1> QED
    BY <1>1, LedgerBalances, PTL

-------------------------------------------------------------------------------
(* Deadlocks *)

\* A call writes stock, tickets, payment and order in this order.
HoldsFit ==
    \A w \in Workers :
        /\ \A o \in Orders : OrderRow(o) \in holds[w] => At(w, "commit")
        /\ \A o \in Orders : PaymentRow(o) \in holds[w] => call[w].pc \in {"order", "commit"}
        /\ \A t \in Tickets :
             TicketRow(t) \in holds[w] => call[w].pc \in {"payment", "order", "commit"}

\* A worker that moves on keeps to the order.
LEMMA OneMoves ==
    ASSUME HoldsFit, NEW w \in Workers, \A v \in Workers \ {w} :
             holds'[v] = holds[v] /\ call'[v] = call[v],
           /\ \A o \in Orders : OrderRow(o) \in holds'[w] => call'[w].pc = "commit"
           /\ \A o \in Orders : PaymentRow(o) \in holds'[w] => call'[w].pc \in {"order", "commit"}
           /\ \A t \in Tickets :
                TicketRow(t) \in holds'[w] => call'[w].pc \in {"payment", "order", "commit"}
    PROVE  HoldsFit'
  BY DEF HoldsFit, At

LEMMA NextHolds == IInv /\ HoldsFit /\ [Next]_vars => HoldsFit'
  <1> SUFFICES ASSUME IInv, HoldsFit, [Next]_vars PROVE HoldsFit'
    OBVIOUS
  <1>1. call \in [Workers -> CallRecords] /\ holds \in [Workers -> SUBSET Rows]
    BY DEF IInv, TypeOK, Rows
  <1>2. CASE UNCHANGED <<call, holds>>
    BY <1>2 DEF HoldsFit, At
  <1>3. ASSUME NEW w \in Workers, NEW kind \in {"confirm", "release"}, NEW o \in Orders,
               Begin(w, kind, o), holds' = holds
        PROVE  HoldsFit'
    <2>1. call[w].pc = "idle" /\ call' = [call EXCEPT ![w] = Call(kind, o)]
      BY <1>3 DEF Begin, Idle
    <2> QED
      BY <1>1, <1>3, <2>1, OneMoves DEF HoldsFit, At
  <1>4. ASSUME NEW w \in Workers, ReadOrder(w) PROVE HoldsFit'
    <2>1. call[w].pc = "read" /\ holds' = holds /\ \A v \in Workers \ {w} : call'[v] = call[v]
      BY <1>1, <1>4 DEF ReadOrder, At, Goto, GotoItem
    <2> QED
      BY <2>1, OneMoves DEF HoldsFit, At
  <1>5. ASSUME NEW w \in Workers,
               ReturnItem(w) \/ VoidTickets(w) \/ UpdatePayment(w) \/ UpdateOrder(w)
        PROVE  HoldsFit'
    <2>1. /\ call[w] \in CallRecords
          /\ \A s : Goto(w, s) => /\ call'[w].pc = s
                                  /\ \A v \in Workers \ {w} : call'[v] = call[v]
          /\ \A c : GotoItem(w, c) => /\ call'[w].pc = "items"
                                      /\ \A v \in Workers \ {w} : call'[v] = call[v]
      BY <1>1 DEF Goto, GotoItem, CallRecords
    <2>2. \A rows : Write(w, rows) => /\ holds'[w] = holds[w] \cup rows
                                      /\ \A v \in Workers \ {w} : holds'[v] = holds[v]
      BY <1>1 DEF Write
    <2>3. CASE ReturnItem(w)
      BY <2>1, <2>2, <2>3, OneMoves
      DEF ReturnItem, At, HoldsFit, CategoryRow, TicketRow, PaymentRow, OrderRow
    <2>4. CASE VoidTickets(w)
      <3>1. \A row \in TicketRows(call[w].order) :
               /\ \A o \in Orders : row # PaymentRow(o) /\ row # OrderRow(o)
        BY DEF TicketRows, TicketRow, PaymentRow, OrderRow
      <3>2. call[w].pc = "tickets" /\ call'[w].pc = "payment"
        BY <2>1, <2>4 DEF VoidTickets, At
      <3> QED
        BY <2>1, <2>2, <2>4, <3>1, <3>2, OneMoves DEF VoidTickets, At, HoldsFit
    <2>5. CASE UpdatePayment(w)
      <3>1. call[w].pc = "payment" /\ call'[w].pc = "order"
        BY <2>1, <2>5 DEF UpdatePayment, At
      <3> QED
        BY <2>1, <2>2, <2>5, <3>1, OneMoves
        DEF UpdatePayment, At, HoldsFit, PaymentRow, OrderRow
    <2>6. CASE UpdateOrder(w)
      <3>1. call[w].pc = "order" /\ call'[w].pc = "commit"
        BY <2>1, <2>6 DEF UpdateOrder, At
      <3> QED
        BY <2>1, <2>2, <2>6, <3>1, OneMoves DEF UpdateOrder, At, HoldsFit
    <2> QED
      BY <1>5, <2>3, <2>4, <2>5, <2>6
  <1>6. ASSUME NEW w \in Workers, Close(w) PROVE HoldsFit'
    <2>1. holds'[w] = {} /\ \A v \in Workers \ {w} : holds'[v] = holds[v] /\ call'[v] = call[v]
      BY <1>1, <1>6 DEF Close
    <2> QED
      BY <2>1, OneMoves
  <1>7. CASE Crash
    BY <1>7 DEF Crash, HoldsFit
  <1>8. ASSUME NEW w \in Workers, NEW o \in Orders,
               Expire(w, o) \/ ConfirmPayment(w, o) \/ RejectPayment(w, o)
        PROVE  HoldsFit'
    BY <1>3, <1>8 DEF Expire, ConfirmPayment, RejectPayment
  <1>9. ASSUME NEW w \in Workers,
               CommitPaid(w) \/ CommitReleased(w) \/ Fail(w) \/ DeadlockVictim(w)
        PROVE  HoldsFit'
    BY <1>6, <1>9 DEF CommitPaid, CommitReleased, Fail, DeadlockVictim
  <1>10. ASSUME \/ FindExpired
                \/ \E o \in Orders : Place(o) \/ PassDeadline(o)
                \/ \E g \in Gates : MarkAsUsed(g) \/ \E t \in Tickets : ReadTicket(g, t)
                \/ UNCHANGED vars
         PROVE  UNCHANGED <<call, holds>>
    BY <1>10 DEF FindExpired, Place, PassDeadline, MarkAsUsed, ReadTicket, vars
  <1> QED
    BY <1>2, <1>4, <1>5, <1>7, <1>8, <1>9, <1>10 DEF Next, Statement

\* Who has written tickets, a payment or an order waits for later rows only.
LEMMA CirclesAreOfItems == IInv /\ HoldsFit => DeadlocksAreBetweenReleases
  <1> SUFFICES ASSUME IInv, HoldsFit, NEW group \in SUBSET Workers,
                      \A v \in group : \E u \in group : WaitsFor(v, u),
                      NEW v \in group
               PROVE  At(v, "items")
    BY DEF DeadlocksAreBetweenReleases
  <1>1. ASSUME NEW x \in group
        PROVE  /\ call[x].pc \in {"items", "tickets", "payment", "order"}
               /\ call[x].order \in Orders
    <2>1. call[x].pc \in {"items", "tickets", "payment", "order"}
      BY DEF WaitsFor, At
    <2> QED
      BY <2>1, CallFields
  <1>2. ASSUME NEW x \in group, At(x, "order") PROVE FALSE
    <2>1. PICK u \in group : WaitsFor(x, u)
      OBVIOUS
    <2>2. OrderRow(call[x].order) \in holds[u]
      BY <1>2, <2>1 DEF WaitsFor, At
    <2>3. At(u, "commit")
      BY <1>1, <2>2 DEF HoldsFit
    <2> QED
      BY <1>1, <2>3 DEF At
  <1>3. ASSUME NEW x \in group, At(x, "payment") PROVE FALSE
    <2>1. PICK u \in group : WaitsFor(x, u)
      OBVIOUS
    <2>2. PaymentRow(call[x].order) \in holds[u]
      BY <1>3, <2>1 DEF WaitsFor, At
    <2>3. call[u].pc \in {"order", "commit"}
      BY <1>1, <2>2 DEF HoldsFit
    <2> QED
      BY <1>1, <1>2, <2>3 DEF At
  <1>4. ASSUME NEW x \in group, At(x, "tickets") PROVE FALSE
    <2>1. PICK u \in group : WaitsFor(x, u)
      OBVIOUS
    <2>2. PICK t \in Tickets : TicketRow(t) \in holds[u]
      BY <1>4, <2>1 DEF WaitsFor, At, TicketRows, TicketsOf
    <2>3. call[u].pc \in {"payment", "order", "commit"}
      BY <2>2 DEF HoldsFit
    <2> QED
      BY <1>1, <1>2, <1>3, <2>3 DEF At
  <1> QED
    BY <1>1, <1>2, <1>3, <1>4 DEF At

\* DeadlocksAreBetweenReleases: any circle of settlements that wait for each other is one
\* of releases waiting for stock.
THEOREM OnlyReleasesDeadlock == Spec => []DeadlocksAreBetweenReleases
  <1>1. Init => HoldsFit
    BY DEF Init, HoldsFit
  <1>2. IInv /\ HoldsFit /\ [Next]_vars => HoldsFit'
    BY NextHolds
  <1>3. Spec => []HoldsFit
    BY <1>1, <1>2, Inductive, PTL DEF Spec
  <1> QED
    BY <1>3, CirclesAreOfItems, Inductive, PTL

-------------------------------------------------------------------------------
(* One settlement at a time *)

\* The order a call is settling is still PENDING.
Settling ==
    \A w \in Workers : call[w].pc \notin {"idle", "read"} => order[call[w].order] = "PENDING"

Serial == \A v, w \in Workers : v = w

LEMMA InitSettling == Init => Settling
  BY DEF Init, Settling, Idle

LEMMA NextSettling ==
    ASSUME Serial, IInv, Settling, [Next]_vars
    PROVE  Settling'
  <1>1. ASSUME NEW o \in Orders, Place(o) PROVE Settling'
    <2>1. order[o] = "NONE" /\ order' = [order EXCEPT ![o] = "PENDING"] /\ call' = call
      BY <1>1 DEF Place
    <2>2. \A p \in Orders : order[p] = "PENDING" => order'[p] = "PENDING"
      BY <2>1 DEF IInv, TypeOK
    <2>3. \A w \in Workers : call[w].pc \notin {"idle", "read"} => call[w].order \in Orders
      BY DEF IInv, CallsOK, CallOK, Idle
    <2> QED
      BY <2>1, <2>2, <2>3 DEF Settling
  <1>2. CASE UNCHANGED <<order, call>>
    BY <1>2 DEF Settling
  <1>3. ASSUME NEW w \in Workers, NEW o \in Orders,
               Expire(w, o) \/ ConfirmPayment(w, o) \/ RejectPayment(w, o)
        PROVE  Settling'
    <2>1. order' = order /\ \E kind \in {"release", "confirm"} : Begin(w, kind, o)
      BY <1>3 DEF Expire, ConfirmPayment, RejectPayment, db
    <2>2. call'[w].pc = "read"
      BY <2>1 DEF Begin, Call, IInv, TypeOK
    <2> QED
      BY <2>2 DEF Settling, Serial
  <1>4. ASSUME NEW w \in Workers, call'[w] = Idle PROVE Settling'
    BY <1>4 DEF Settling, Serial, Idle
  <1>5. ASSUME NEW w \in Workers, ReadOrder(w) PROVE Settling'
    <2>1. order' = order /\ call[w] \in CallRecords
      BY <1>5 DEF ReadOrder, db, IInv, TypeOK
    <2>2. CASE call' = [call EXCEPT ![w] = Idle]
      BY <1>4, <2>2 DEF IInv, TypeOK
    <2>3. CASE order[call[w].order] = "PENDING" /\ call'[w].order = call[w].order
      BY <2>1, <2>3 DEF Settling, Serial
    <2>4. ASSUME Goto(w, "payment") PROVE call'[w].order = call[w].order
      BY <2>1, <2>4 DEF Goto, IInv, TypeOK, CallRecords
    <2>5. ASSUME NEW c, GotoItem(w, c) PROVE call'[w].order = call[w].order
      BY <2>5 DEF GotoItem, IInv, TypeOK
    <2> QED
      BY <1>5, <2>2, <2>3, <2>4, <2>5 DEF ReadOrder, StillPending
  <1>6. ASSUME NEW w \in Workers,
               ReturnItem(w) \/ VoidTickets(w) \/ UpdatePayment(w) \/ UpdateOrder(w)
        PROVE  Settling'
    <2>1. order' = order /\ call[w] \in CallRecords
      BY <1>6 DEF ReturnItem, VoidTickets, UpdatePayment, UpdateOrder, Write, db, IInv, TypeOK
    <2>2. order[call[w].order] = "PENDING"
      BY <1>6 DEF ReturnItem, VoidTickets, UpdatePayment, UpdateOrder, At, Settling
    <2>3. ASSUME NEW s, Goto(w, s) PROVE call'[w].order = call[w].order
      BY <2>1, <2>3 DEF Goto, IInv, TypeOK, CallRecords
    <2>4. ASSUME NEW c, GotoItem(w, c) PROVE call'[w].order = call[w].order
      BY <2>4 DEF GotoItem, IInv, TypeOK
    <2>5. call'[w].order = call[w].order
      BY <1>6, <2>3, <2>4 DEF ReturnItem, VoidTickets, UpdatePayment, UpdateOrder
    <2> QED
      BY <2>1, <2>2, <2>5 DEF Settling, Serial
  <1>7. ASSUME NEW w \in Workers,
               CommitPaid(w) \/ CommitReleased(w) \/ Fail(w) \/ DeadlockVictim(w)
        PROVE  Settling'
    BY <1>4, <1>7 DEF CommitPaid, CommitReleased, Fail, DeadlockVictim, Close, IInv, TypeOK
  <1>8. ASSUME Crash PROVE Settling'
    BY <1>8 DEF Crash, Settling, Idle
  <1>9. ASSUME \/ FindExpired
               \/ \E o \in Orders : PassDeadline(o)
               \/ \E g \in Gates : MarkAsUsed(g) \/ \E t \in Tickets : ReadTicket(g, t)
               \/ UNCHANGED vars
        PROVE  Settling'
    BY <1>2, <1>9 DEF FindExpired, PassDeadline, MarkAsUsed, ReadTicket, db, vars
  <1> QED
    BY <1>1, <1>3, <1>5, <1>6, <1>7, <1>8, <1>9 DEF Next, Statement

\* Every step is a step of the documented life, or none.
LEMMA Simulation ==
    ASSUME IInv, Settling, [Next]_vars
    PROVE  [Documented!Next]_(Documented!vars)
  <1>1. ASSUME NEW o \in Orders, Place(o) PROVE Documented!Place(o)
    BY <1>1 DEF Place, Enough, Items, IInv, TypeOK, TicketsOf, Documented!Place,
                Documented!SetTickets, Documented!TicketsOf
  <1>2. ASSUME NEW w \in Workers, CommitPaid(w)
        PROVE  call[w].order \in Orders /\ Documented!Confirm(call[w].order)
    BY <1>2, CallFields DEF CommitPaid, At, Settling, Documented!Confirm
  <1>3. ASSUME NEW w \in Workers, CommitReleased(w)
        PROVE  call[w].order \in Orders /\ Documented!Cancel(call[w].order)
    BY <1>3, CallFields
    DEF CommitReleased, At, Settling, Voided, TicketsOf, Documented!Cancel,
        Documented!SetTickets, Documented!TicketsOf
  <1>4. ASSUME NEW g \in Gates, MarkAsUsed(g)
        PROVE  \/ gate[g] \in Tickets /\ Documented!Admit(gate[g])
               \/ UNCHANGED Documented!vars
    BY <1>4 DEF MarkAsUsed, Admissible, IInv, TypeOK, Documented!Admit, Documented!vars
  <1>5. ASSUME UNCHANGED db \/ UNCHANGED vars PROVE UNCHANGED Documented!vars
    BY <1>5 DEF db, vars, Documented!vars
  <1>6. ASSUME \/ FindExpired \/ Crash
               \/ \E o \in Orders : PassDeadline(o)
               \/ \E w \in Workers, o \in Orders :
                    Expire(w, o) \/ ConfirmPayment(w, o) \/ RejectPayment(w, o)
               \/ \E w \in Workers : Fail(w) \/ DeadlockVictim(w)
               \/ \E w \in Workers : ReadOrder(w) \/ ReturnItem(w) \/ VoidTickets(w)
                                   \/ UpdatePayment(w) \/ UpdateOrder(w)
               \/ \E g \in Gates, t \in Tickets : ReadTicket(g, t)
        PROVE  UNCHANGED db
    BY <1>6 DEF FindExpired, Crash, PassDeadline, Expire, ConfirmPayment, RejectPayment,
                Fail, DeadlockVictim, ReadOrder, ReturnItem, VoidTickets, UpdatePayment,
                UpdateOrder, ReadTicket, Write
  <1> QED
    BY <1>1, <1>2, <1>3, <1>4, <1>5, <1>6 DEF Next, Statement, Documented!Next

\* With one settlement at a time (never two calls of PaymentService at once), the code
\* does what docs/PAYMENTS.md says, through every failure and check-in: an order is
\* settled once, in one step.
THEOREM SerialImplements == Serial => (Spec => ImplementsReservation)
  <1> SUFFICES ASSUME Serial PROVE Spec => ImplementsReservation
    OBVIOUS
  <1>1. Init => Documented!Init
    BY DEF Init, Documented!Init
  <1>2. IInv /\ Settling /\ [Next]_vars => Settling'
    BY NextSettling
  <1>3. Spec => []Settling
    BY <1>2, InitSettling, Inductive, PTL DEF Spec
  <1>4. IInv /\ Settling /\ [Next]_vars => [Documented!Next]_(Documented!vars)
    BY Simulation
  <1> QED
    BY <1>1, <1>3, <1>4, Inductive, PTL DEF Spec, ImplementsReservation, Documented!Spec

\* What one worker gives back, it gives back once.
ReturnedOnce == \A o \in Orders : Excess(o) = 0

LEMMA NextReturnedOnce ==
    ASSUME IInv, Settling, ReturnedOnce, [Next]_vars
    PROVE  ReturnedOnce'
  <1>1. order \in [Orders -> OrderStatus] /\ releases \in [Orders -> Nat]
    BY DEF IInv, TypeOK
  <1>2. ASSUME UNCHANGED <<order, releases>> PROVE ReturnedOnce'
    BY <1>2 DEF ReturnedOnce, Excess
  <1>3. ASSUME NEW o \in Orders, Place(o) PROVE ReturnedOnce'
    <2>1. order' = [order EXCEPT ![o] = "PENDING"] /\ releases' = releases /\ order[o] = "NONE"
      BY <1>3 DEF Place
    <2> QED
      BY <1>1, <2>1 DEF ReturnedOnce, Excess
  <1>4. ASSUME NEW w \in Workers, CommitPaid(w) \/ CommitReleased(w) PROVE ReturnedOnce'
    <2>1. PICK o \in Orders : o = call[w].order /\ order[o] = "PENDING"
      BY <1>4, CallFields DEF CommitPaid, CommitReleased, At, Settling
    <2>2. releases[o] = 0
      BY <2>1 DEF ReturnedOnce, Excess
    <2>3. \/ order' = [order EXCEPT ![o] = "PAID"] /\ releases' = releases
          \/ order' = [order EXCEPT ![o] = "CANCELED"] /\ releases' = [releases EXCEPT ![o] = @ + 1]
      BY <1>4, <2>1 DEF CommitPaid, CommitReleased
    <2>4. \A p \in Orders \ {o} : order'[p] = order[p] /\ releases'[p] = releases[p]
      BY <1>1, <2>3
    <2>5. \/ order'[o] = "PAID" /\ releases'[o] = 0
          \/ order'[o] = "CANCELED" /\ releases'[o] = 1
      BY <1>1, <2>2, <2>3
    <2> QED
      BY <2>4, <2>5 DEF ReturnedOnce, Excess
  <1>5. ASSUME \/ FindExpired \/ Crash
               \/ \E o \in Orders : PassDeadline(o)
               \/ \E w \in Workers, o \in Orders :
                    Expire(w, o) \/ ConfirmPayment(w, o) \/ RejectPayment(w, o)
               \/ \E w \in Workers : Fail(w) \/ DeadlockVictim(w)
               \/ \E w \in Workers : ReadOrder(w) \/ ReturnItem(w) \/ VoidTickets(w)
                                   \/ UpdatePayment(w) \/ UpdateOrder(w)
               \/ \E g \in Gates : MarkAsUsed(g) \/ \E t \in Tickets : ReadTicket(g, t)
               \/ UNCHANGED vars
        PROVE  UNCHANGED <<order, releases>>
    BY <1>5 DEF FindExpired, Crash, PassDeadline, Expire, ConfirmPayment, RejectPayment,
                Fail, DeadlockVictim, ReadOrder, ReturnItem, VoidTickets, UpdatePayment,
                UpdateOrder, ReadTicket, MarkAsUsed, Write, db, vars
  <1> QED
    BY <1>2, <1>3, <1>4, <1>5 DEF Next, Statement

\* With one settlement at a time nothing is given back twice, and the docs' promise holds
\* as they make it (docs/ARCHITECTURE.md: the conditional update "prevents overselling").
THEOREM SerialNeverOversells ==
    Serial => (Spec => [](\A c \in Categories : Held(Live, c) <= Capacity[c]))
  <1> SUFFICES ASSUME Serial
               PROVE  Spec => [](\A c \in Categories : Held(Live, c) <= Capacity[c])
    OBVIOUS
  <1>1. Init => ReturnedOnce
    BY DEF Init, ReturnedOnce, Excess
  <1>2. IInv /\ Settling /\ [Next]_vars => Settling'
    BY NextSettling
  <1>3. IInv /\ Settling /\ ReturnedOnce /\ [Next]_vars => ReturnedOnce'
    BY NextReturnedOnce
  <1>4. ReturnedOnce /\ LedgerInv => \A c \in Categories : Held(Live, c) <= Capacity[c]
    <2> SUFFICES ASSUME ReturnedOnce, LedgerInv, NEW c \in Categories
                 PROVE  Held(Live, c) <= Capacity[c]
      OBVIOUS
    <2>1. \A o \in Placed : Surplus(c)[o] = 0
      <3>1. \A n \in Nat : 0 * n = 0
        OBVIOUS
      <3> QED
        BY <3>1 DEF ReturnedOnce, Surplus, Placed
    <2>2. ReturnedTwice(c) = SumFunctionOnSet(Surplus(c), Placed)
      BY DEF ReturnedTwice, Surplus
    <2>3. ReturnedTwice(c) = 0
      BY <2>1, <2>2, SumZero DEF LedgerInv
    <2>4. Held(Live, c) <= Capacity[c] + ReturnedTwice(c) /\ Capacity[c] \in Nat
      BY LedgerBounds
    <2> QED
      BY <2>3, <2>4
  <1> QED
    BY <1>1, <1>2, <1>3, <1>4, InitSettling, Inductive, LedgerBalances, PTL DEF Spec

=============================================================================
