------------------------------- MODULE Checkout -------------------------------
(***************************************************************************)
(* OrderService.create (src/order/order.service.ts), statement by          *)
(* statement, for any number of concurrent requests against one PostgreSQL *)
(* database.                                                               *)
(*                                                                         *)
(* A Prisma interactive $transaction runs at READ COMMITTED:               *)
(*  - a read sees committed rows only and takes no lock;                   *)
(*  - an UPDATE waits for the row's lock, evaluates its WHERE on the       *)
(*    committed row it then finds, and keeps the lock to the end;          *)
(*  - an INSERT waits for an uncommitted row with the same unique key;     *)
(*  - a write becomes visible at the commit and vanishes at a rollback.    *)
(* So `holds` is both the lock table and the log of uncommitted writes:    *)
(* the rows a request has written.  Commit applies those writes, and a     *)
(* rollback just forgets them.                                             *)
(***************************************************************************)
EXTENDS Integers, FiniteSets, Functions

CONSTANTS
    Requests, Categories, Coupons,
    Demand, CouponOf, UserOf, KeyOf, Capacity,    \* see BoxOffice
    NoCoupon, NoKey,
    Events,
    EventOf,       \* EventOf[c]: the event of category c
    CouponEvent,   \* CouponEvent[k]: the event coupon k is bound to, or NoEvent
    NoEvent,
    LimitOf,       \* LimitOf[k]: Coupon.maxUses at the start, or NoLimit
    NewLimits,     \* the values PATCH /coupon may give maxUses
    NoLimit        \* maxUses = null

ASSUME CatalogAssumption ==
    /\ Categories \subseteq Nat /\ IsFiniteSet(Categories)
    /\ Capacity \in [Categories -> Nat]
    /\ EventOf \in [Categories -> Events]
    /\ CouponEvent \in [Coupons -> Events \cup {NoEvent}]
    /\ LimitOf \in [Coupons -> Nat \cup {NoLimit}]
    /\ NewLimits \subseteq Nat \cup {NoLimit}
    /\ NoLimit \notin Nat

ASSUME RequestAssumption ==
    /\ IsFiniteSet(Requests)
    /\ Demand \in [Requests -> [Categories -> Nat]]
    /\ \A r \in Requests : \E c \in Categories : Demand[r][c] > 0
    /\ CouponOf \in [Requests -> Coupons \cup {NoCoupon}]
    /\ NoCoupon \notin Coupons

VARIABLES
    selling,   \* events that are PUBLISHED, not started and in their sales window
    stock,     \* Category.quantity, committed
    coupon,    \* Coupon.maxUses, currentUses and active (and not expired), committed
    orders,    \* committed orders (each with its items, tickets and PENDING payment)
    pc,        \* the statement a request is about to run
    holds,     \* the rows a request has written in its open transaction
    seen,      \* the maxUses that resolveAndConsumeCoupon read
    given      \* the orders a response carried

db == <<selling, stock, coupon, orders>>
vars == <<selling, stock, coupon, orders, pc, holds, seen, given>>

InTransaction == {"validate", "reserve", "coupon", "redeem", "insert", "inserted"}
InFlight == InTransaction \cup {"lookup", "recover", "committed"}
Ended == {"answered", "rejected", "failed"}

Limits == Nat \cup {NoLimit}
CouponRows == [limit : Limits, uses : Nat, active : BOOLEAN]

-------------------------------------------------------------------------------
(* Rows and locks *)

CategoryRow(c) == <<"Category", c>>
CouponRow(k) == <<"Coupon", k>>

\* Mutant: no unique constraint on [userId, idempotencyKey].
KeyRowUnconstrained(r) == <<"Order", UserOf[r], r>>
KeyRow(r) == <<"Order", UserOf[r], KeyOf[r]>>

\* Mutant: the WHERE is evaluated without waiting for the writer of the row.
FreeUnlocked(row, r) == TRUE

\* No other open transaction has written the row.
Free(row, r) == \A s \in Requests \ {r} : row \notin holds[s]

\* Mutant: the key is looked up without the user.
ExistingOfAnyone(r) == {s \in orders : KeyOf[r] # NoKey /\ KeyOf[s] = KeyOf[r]}

\* The committed order with the user and key of r: findExistingOrderByIdempotencyKey.
Existing(r) ==
    {s \in orders : KeyOf[r] # NoKey /\ KeyOf[s] = KeyOf[r] /\ UserOf[s] = UserOf[r]}

-------------------------------------------------------------------------------
(* What a request asks for *)

Wanted(r) == {c \in Categories : Demand[r][c] > 0}
Unreserved(r) == {c \in Wanted(r) : CategoryRow(c) \notin holds[r]}

\* Mutant: the rows are updated in the order of the request's items.
NextCategoryUnsorted(r, c) == c \in Unreserved(r)

\* sortedCategoryIds: the rows are updated in the order of their ids.
NextCategory(r, c) == c \in Unreserved(r) /\ \A d \in Unreserved(r) : c <= d

Admissible(r) ==
    /\ \A c, d \in Wanted(r) : EventOf[c] = EventOf[d]
    /\ \A c \in Wanted(r) : EventOf[c] \in selling

Below(n, limit) == limit = NoLimit \/ (limit # NoLimit /\ n < limit)

Applies(k, r) ==
    CouponEvent[k] = NoEvent \/ \A c \in Wanted(r) : EventOf[c] = CouponEvent[k]

AfterReservation(r) == IF CouponOf[r] = NoCoupon THEN "insert" ELSE "coupon"

-------------------------------------------------------------------------------
Init ==
    /\ selling = Events
    /\ stock = Capacity
    /\ coupon = [k \in Coupons |-> [limit |-> LimitOf[k], uses |-> 0, active |-> TRUE]]
    /\ orders = {}
    /\ pc = [r \in Requests |-> "idle"]
    /\ holds = [r \in Requests |-> {}]
    /\ seen = [r \in Requests |-> NoLimit]
    /\ given = [r \in Requests |-> {}]

Goto(r, state) == pc' = [pc EXCEPT ![r] = state]
Write(r, row) == holds' = [holds EXCEPT ![r] = @ \cup {row}]
Release(r) == holds' = [holds EXCEPT ![r] = {}]

\* Mutant: the error is caught and the transaction left open.
RollbackForgotten(r, state) ==
    /\ Goto(r, state)
    /\ UNCHANGED <<db, holds, seen, given>>

\* The transaction throws: its writes and its locks are gone.
Rollback(r, state) ==
    /\ Release(r)
    /\ Goto(r, state)
    /\ UNCHANGED <<db, seen, given>>

\* The request arrives; without the header the lookup is skipped.
Submit(r) ==
    /\ pc[r] = "idle"
    /\ Goto(r, IF KeyOf[r] = NoKey THEN "validate" ELSE "lookup")
    /\ UNCHANGED <<db, holds, seen, given>>

\* The lookup before the transaction: a replay is answered with the original order.
Lookup(r) ==
    /\ pc[r] = "lookup"
    /\ IF Existing(r) # {}
         THEN Goto(r, "answered") /\ given' = [given EXCEPT ![r] = Existing(r)]
         ELSE Goto(r, "validate") /\ UNCHANGED given
    /\ UNCHANGED <<db, holds, seen>>

\* One unlocked read of the categories and their event, and the checks on it.
Validate(r) ==
    /\ pc[r] = "validate"
    /\ Goto(r, IF Admissible(r) THEN "reserve" ELSE "rejected")
    /\ UNCHANGED <<db, holds, seen, given>>

\* Mutant: the decrement has no WHERE quantity >= n.
EnoughUnchecked(r, c) == TRUE
Enough(r, c) == stock[c] >= Demand[r][c]

\* UPDATE Category SET quantity = quantity - n WHERE id = c AND quantity >= n
Reserve(r, c) ==
    /\ pc[r] = "reserve"
    /\ NextCategory(r, c)
    /\ Free(CategoryRow(c), r)
    /\ Enough(r, c)
    /\ Write(r, CategoryRow(c))
    /\ Goto(r, IF Unreserved(r) = {c} THEN AfterReservation(r) ELSE "reserve")
    /\ UNCHANGED <<db, seen, given>>

\* The same statement matches no row (P2025): "Insufficient tickets".
SoldOut(r, c) ==
    /\ pc[r] = "reserve"
    /\ NextCategory(r, c)
    /\ Free(CategoryRow(c), r)
    /\ ~Enough(r, c)
    /\ Rollback(r, "rejected")

\* The coupon is read without a lock and checked on what was read.
ReadCoupon(r) ==
    /\ pc[r] = "coupon"
    /\ LET k == CouponOf[r] IN
         IF Applies(k, r) /\ coupon[k].active /\ Below(coupon[k].uses, coupon[k].limit)
           THEN /\ seen' = [seen EXCEPT ![r] = coupon[k].limit]
                /\ Goto(r, "redeem")
                /\ UNCHANGED <<db, holds, given>>
           ELSE Rollback(r, "rejected")

\* Mutant: the update trusts the checks made on the read.
RedeemableUnguarded(r, k) == TRUE

\* UPDATE Coupon SET currentUses = currentUses + 1
\*   WHERE id = k AND active AND currentUses < (the maxUses that was read)
Redeemable(r, k) == coupon[k].active /\ Below(coupon[k].uses, seen[r])

\* Mutant: the coupon is updated outside the transaction.
RedeemAtOnce(r) ==
    /\ pc[r] = "redeem"
    /\ IF Redeemable(r, CouponOf[r])
         THEN /\ coupon' = [coupon EXCEPT ![CouponOf[r]].uses = @ + 1]
              /\ Goto(r, "insert")
              /\ UNCHANGED <<selling, stock, orders, holds, seen, given>>
         ELSE Rollback(r, "rejected")

Redeem(r) ==
    /\ pc[r] = "redeem"
    /\ Free(CouponRow(CouponOf[r]), r)
    /\ IF Redeemable(r, CouponOf[r])
         THEN /\ Write(r, CouponRow(CouponOf[r]))
              /\ Goto(r, "insert")
              /\ UNCHANGED <<db, seen, given>>
         ELSE Rollback(r, "rejected")

\* Mutant: the order is inserted outside the transaction.
InsertAtOnce(r) ==
    /\ pc[r] = "insert"
    /\ Existing(r) = {}
    /\ orders' = orders \cup {r}
    /\ Goto(r, "inserted")
    /\ UNCHANGED <<selling, stock, coupon, holds, seen, given>>

\* INSERT INTO Order (persistOrder), its items, tickets and payment.
Insert(r) ==
    /\ pc[r] = "insert"
    /\ Existing(r) = {}
    /\ Free(KeyRow(r), r) \/ KeyOf[r] = NoKey
    /\ IF KeyOf[r] = NoKey THEN UNCHANGED holds ELSE Write(r, KeyRow(r))
    /\ Goto(r, "inserted")
    /\ UNCHANGED <<db, seen, given>>

\* P2002 on [userId, idempotencyKey]: the transaction is over, the catch block runs.
DuplicateKey(r) ==
    /\ pc[r] = "insert"
    /\ Existing(r) # {}
    /\ Rollback(r, "recover")

Recover(r) ==
    /\ pc[r] = "recover"
    /\ IF Existing(r) # {}
         THEN Goto(r, "answered") /\ given' = [given EXCEPT ![r] = Existing(r)]
         ELSE Goto(r, "failed") /\ UNCHANGED given
    /\ UNCHANGED <<db, holds, seen>>

UseOne(row) == [limit |-> row.limit, uses |-> row.uses + 1, active |-> row.active]

\* COMMIT: every row the transaction wrote takes its new value.
Commit(r) ==
    /\ pc[r] = "inserted"
    /\ stock' = [c \in Categories |->
                   IF CategoryRow(c) \in holds[r] THEN stock[c] - Demand[r][c] ELSE stock[c]]
    /\ coupon' = [k \in Coupons |->
                   IF CouponRow(k) \in holds[r] THEN UseOne(coupon[k]) ELSE coupon[k]]
    /\ orders' = orders \cup {r}
    /\ Release(r)
    /\ Goto(r, "committed")
    /\ UNCHANGED <<selling, seen, given>>

Respond(r) ==
    /\ pc[r] = "committed"
    /\ Goto(r, "answered")
    /\ given' = [given EXCEPT ![r] = {r}]
    /\ UNCHANGED <<db, holds, seen>>

\* The 5 s limit of the transaction, a lost connection, a crash of the server:
\* before the commit everything is undone, after it only the response is lost.
Fail(r) ==
    /\ pc[r] \in InFlight
    /\ Rollback(r, "failed")

-------------------------------------------------------------------------------
(* The other writers of the rows a checkout reads *)

\* EventService.updateStatus, the end of the sales window, the start of the event.
CloseSales(e) ==
    /\ e \in selling
    /\ selling' = selling \ {e}
    /\ UNCHANGED <<stock, coupon, orders, pc, holds, seen, given>>

\* CouponService.update: one UPDATE, so it waits for a checkout that holds the row.
EditCoupon(k, limit, active) ==
    /\ \A r \in Requests : CouponRow(k) \notin holds[r]
    /\ coupon' = [coupon EXCEPT ![k] =
                    [limit |-> limit, uses |-> @.uses, active |-> active]]
    /\ UNCHANGED <<selling, stock, orders, pc, holds, seen, given>>

-------------------------------------------------------------------------------
\* The statements of one request, in the order create runs them.
Step(r) ==
    \/ Lookup(r) \/ Validate(r)
    \/ \E c \in Categories : Reserve(r, c) \/ SoldOut(r, c)
    \/ ReadCoupon(r) \/ Redeem(r)
    \/ Insert(r) \/ DuplicateKey(r) \/ Recover(r)
    \/ Commit(r) \/ Respond(r)

Next ==
    \/ \E r \in Requests : Submit(r) \/ Step(r) \/ Fail(r)
    \/ \E e \in Events : CloseSales(e)
    \/ \E k \in Coupons, active \in BOOLEAN :
         \E limit \in NewLimits \cup {coupon[k].limit} : EditCoupon(k, limit, active)

Spec == Init /\ [][Next]_vars

\* A statement that can run does run: Node's event loop resumes every handler,
\* and PostgreSQL grants a free lock to its waiters.
FairSpec == Spec /\ \A r \in Requests : WF_vars(Step(r))

-------------------------------------------------------------------------------
(* Properties *)

\* Each variable has its type; no stock is ever negative.
TypeOK ==
    /\ selling \subseteq Events
    /\ stock \in [Categories -> Nat]
    /\ coupon \in [Coupons -> CouponRows]
    /\ orders \subseteq Requests
    /\ pc \in [Requests -> InFlight \cup Ended \cup {"idle"}]
    /\ holds \in [Requests -> SUBSET ({CategoryRow(c) : c \in Categories}
                                  \cup {CouponRow(k) : k \in Coupons}
                                  \cup {KeyRow(r) : r \in Requests})]
    /\ seen \in [Requests -> Limits]
    /\ given \in [Requests -> SUBSET Requests]

\* The unique constraint and the lookups leave one order for a key of a user,
\* however the requests that carry it interleave.
OneOrderPerKey ==
    \A r, s \in orders :
        (KeyOf[r] # NoKey /\ KeyOf[r] = KeyOf[s] /\ UserOf[r] = UserOf[s]) => r = s

\* Every response names one committed order, of the user who asked; two responses
\* to the same key of a user name the same one; and a request without a key is
\* never answered with the order of another request.
ResponsesAgree ==
    \A r \in Requests : pc[r] = "answered" =>
        \E o \in orders :
            /\ given[r] = {o}
            /\ UserOf[o] = UserOf[r]
            /\ KeyOf[r] = NoKey => o = r
            /\ \A s \in Requests :
                 (/\ pc[s] = "answered"
                  /\ KeyOf[r] # NoKey
                  /\ KeyOf[s] = KeyOf[r]
                  /\ UserOf[s] = UserOf[r]) => given[s] = {o}

\* A ticket is in stock or in one committed order: a checkout that is rolled back with
\* some of its categories reserved loses none, and two that decrement the same row
\* take their tickets one after the other.
StockAccounting ==
    \A c \in Categories :
        stock[c] + SumFunctionOnSet([r \in orders |-> Demand[r][c]], orders) = Capacity[c]

\* A use of a coupon is counted for each order that carries it and for nothing
\* else: a rolled-back checkout gives its use back, no two checkouts share one.
CouponAccounting ==
    \A k \in Coupons : coupon[k].uses = Cardinality({r \in orders : CouponOf[r] = k})

\* While maxUses is not edited, concurrent checkouts never exceed it.
CouponWithinLimit ==
    \A k \in Coupons :
        coupon[k].limit # NoLimit => coupon[k].uses <= coupon[k].limit

\* The row a request is waiting for is written by s.
WaitsFor(r, s) ==
    /\ s # r
    /\ \/ /\ pc[r] = "reserve"
          /\ \E c \in Categories : NextCategory(r, c) /\ CategoryRow(c) \in holds[s]
       \/ pc[r] = "redeem" /\ CouponRow(CouponOf[r]) \in holds[s]
       \/ pc[r] = "insert" /\ KeyOf[r] # NoKey /\ KeyRow(r) \in holds[s]

\* Checkouts never wait on each other in a circle: the sorted category ids, then
\* the coupon, then the key, are one order of locking for all of them.
NoWaitCycle ==
    \A group \in (SUBSET Requests) \ {{}} :
        \E r \in group : \A s \in group : ~WaitsFor(r, s)

\* Every request gets an answer, whatever the others do and wherever they fail.
EveryRequestEnds ==
    \A r \in Requests : pc[r] # "idle" ~> pc[r] \in Ended

\* A request whose event is still on sale is not refused, for want of stock or of a
\* coupon, once the order of its own key is committed (docs/PAYMENTS.md: "Concurrent
\* requests with the same key are resolved to the first committed order").
DuplicateResolvedToFirst ==
    [][\A r \in Requests :
         (pc[r] # "rejected" /\ pc'[r] = "rejected" /\ Admissible(r)) => Existing(r) = {}]_vars

\* The uses column of the coupon rows.
Office == INSTANCE BoxOffice WITH uses <- [k \in Coupons |-> coupon[k].uses]

\* The transaction takes effect as one step, or not at all.
ImplementsBoxOffice == Office!Spec

=============================================================================
