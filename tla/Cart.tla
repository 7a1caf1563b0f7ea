--------------------------------- MODULE Cart ---------------------------------
(***************************************************************************)
(* The purchase, seen from the browser: the event page that fills the      *)
(* cart, the checkout page that owns an idempotency key and sends the      *)
(* order, and the confirmation.  The cart and the last order live in the   *)
(* local storage and are shared by all tabs; calls of POST /order are      *)
(* lost, delayed, answered after the page was left, and sent again.  The   *)
(* server side takes one step per call, which BoxOffice and the proofs of  *)
(* Checkout justify.                                                       *)
(*                                                                         *)
(* A change of the local storage is seen by the other tabs at once.        *)
(***************************************************************************)
EXTENDS Integers, Sequences, Functions

CONSTANTS
    Tabs,
    Capacity,      \* tickets of the one category on sale
    MaxPages,      \* bound: checkout pages opened
    MaxPicks,      \* bound: carts filled
    MaxSends       \* bound: calls of POST /order

ASSUME CartAssumption == Capacity \in Nat /\ MaxPages \in Nat /\ MaxPicks \in Nat /\ MaxSends \in Nat

VARIABLES
    cart,          \* the cart in the local storage: which pick, and its quantity
    lastOrder,     \* the order that the confirmation shows, or 0
    tab,           \* what each tab shows
    keys,          \* keys[p]: how often checkout page p has renewed its key
    calls,         \* calls of POST /order that are not over
    sent,          \* number of calls so far
    picks,         \* number of carts filled so far
    orders,        \* the committed orders
    confirmed      \* history: orders whose answer has reached the page that sent it

vars == <<cart, lastOrder, tab, keys, calls, sent, picks, orders, confirmed>>

NoCart == [pick |-> 0, quantity |-> 0]
Carts == {NoCart} \cup [pick : 1..MaxPicks, quantity : 1..Capacity]
Screens == {"event", "tickets", "buyer", "confirm", "done"}

\* A key is the page that made it and the count of its renewals.
Keys == [page : 1..MaxPages, renewed : 0..MaxSends]
KeyOf(p) == [page |-> p, renewed |-> keys[p]]

Sold == SumFunction([n \in DOMAIN orders |-> orders[n].cart.quantity])

Init ==
    /\ cart = NoCart
    /\ lastOrder = 0
    /\ tab = [t \in Tabs |-> [shows |-> "event", page |-> 0, going |-> 0]]
    /\ keys = <<>>
    /\ calls = {}
    /\ sent = 0
    /\ picks = 0
    /\ orders = <<>>
    /\ confirmed = {}

\* The checkout page is set up with a key of its own, at its first step.
OpenCheckout(t) ==
    /\ Len(keys) < MaxPages
    /\ keys' = Append(keys, 0)
    /\ tab' = [tab EXCEPT ![t] = [shows |-> "tickets", page |-> Len(keys) + 1, going |-> 0]]

\* TicketSelector lets a quantity grow up to the stock of a listing that may be stale;
\* goToCheckout replaces the items and opens the checkout page.
goToCheckout(t, quantity) ==
    /\ tab[t].shows = "event" /\ picks < MaxPicks
    /\ picks' = picks + 1
    /\ cart' = [pick |-> picks', quantity |-> quantity]
    /\ OpenCheckout(t)
    /\ UNCHANGED <<lastOrder, calls, sent, orders, confirmed>>

\* The checkout page is opened by its address, or left and opened again.
Visit(t) ==
    /\ OpenCheckout(t)
    /\ UNCHANGED <<cart, lastOrder, calls, sent, picks, orders, confirmed>>

\* Another page is opened.  What the checkout page was doing goes on without it.
Leave(t) ==
    /\ tab[t].shows # "event"
    /\ tab' = [tab EXCEPT ![t] = [shows |-> "event", page |-> 0, going |-> 0]]
    /\ UNCHANGED <<cart, lastOrder, keys, calls, sent, picks, orders, confirmed>>

\* Continuar and Voltar.  Without an event in the cart the page shows no steps.
StepTo(t, from, to) ==
    /\ tab[t].shows = from /\ cart # NoCart
    /\ tab' = [tab EXCEPT ![t].shows = to]
    /\ UNCHANGED <<cart, lastOrder, keys, calls, sent, picks, orders, confirmed>>

Continue(t) == StepTo(t, "tickets", "buyer") \/ StepTo(t, "buyer", "confirm")
Back(t) == StepTo(t, "buyer", "tickets") \/ StepTo(t, "confirm", "buyer")

-----------------------------------------------------------------------------
(***************************************************************************)
(* submitOrder.  The button is disabled while the call of its page is      *)
(* pending.                                                                *)
(***************************************************************************)
Pending(p) == \E c \in calls : c.key.page = p /\ c.heard

\* Mutant: every attempt has a key of its own.
SendingKeyFresh(t) == [page |-> tab[t].page, renewed |-> sent]
SendingKey(t) == KeyOf(tab[t].page)

submitOrder(t) ==
    /\ tab[t].shows = "confirm" /\ cart # NoCart
    /\ ~Pending(tab[t].page)
    /\ sent < MaxSends
    /\ sent' = sent + 1
    /\ calls' = calls \cup
         {[id |-> sent', tab |-> t, key |-> SendingKey(t), cart |-> cart,
           heard |-> TRUE, answer |-> "none", order |-> 0]}
    /\ UNCHANGED <<cart, lastOrder, tab, keys, picks, orders, confirmed>>

Becomes(c, d) == calls' = (calls \ {c}) \cup {d}

\* OrderService.create: a new order, the order that the key has, or a refusal.
OrderOf(key) == {n \in DOMAIN orders : orders[n].key = key}

Replay(c) ==
    /\ \E n \in OrderOf(c.key) : Becomes(c, [c EXCEPT !.answer = "order", !.order = n])
    /\ UNCHANGED orders

\* Mutant: the order takes what is left.
AcceptRest(c) ==
    /\ OrderOf(c.key) = {}
    /\ Sold < Capacity
    /\ orders' = Append(orders, [key |-> c.key, cart |-> c.cart])
    /\ Becomes(c, [c EXCEPT !.answer = "order", !.order = Len(orders')])

Accept(c) ==
    /\ OrderOf(c.key) = {}
    /\ Sold + c.cart.quantity <= Capacity
    /\ orders' = Append(orders, [key |-> c.key, cart |-> c.cart])
    /\ Becomes(c, [c EXCEPT !.answer = "order", !.order = Len(orders')])

Refuse(c) ==
    /\ OrderOf(c.key) = {}
    /\ Sold + c.cart.quantity > Capacity
    /\ Becomes(c, [c EXCEPT !.answer = "refused"])
    /\ UNCHANGED orders

Serve(c) ==
    /\ c.answer = "none"
    /\ Replay(c) \/ Accept(c) \/ Refuse(c)
    /\ UNCHANGED <<cart, lastOrder, tab, keys, sent, picks, confirmed>>

\* The page hears of a failure and can be used again; the call may still arrive.
Unheard(c) == IF c.answer = "none" THEN {[c EXCEPT !.heard = FALSE]} ELSE {}

Lose(c) ==
    /\ calls' \in {calls \ {c}, (calls \ {c}) \cup Unheard(c)}
    /\ UNCHANGED <<cart, lastOrder, tab, keys, sent, picks, orders, confirmed>>

\* A reload of the tab stops its scripts: none of its calls is heard any more.
Reload(t) ==
    /\ calls' = {c \in calls : c.tab # t \/ ~c.heard} \cup
                UNION {Unheard(c) : c \in {d \in calls : d.tab = t}}
    /\ IF tab[t].page = 0 THEN UNCHANGED <<tab, keys>> ELSE OpenCheckout(t)
    /\ UNCHANGED <<cart, lastOrder, sent, picks, orders, confirmed>>

\* Mutant: the key is kept for the next order.
RenewedNever(p) == keys

Renewed(p) == [keys EXCEPT ![p] = @ + 1]

\* The answer is an order: setLastOrder, clear, a new key, and off to the confirmation,
\* from whatever page the tab shows by now.
Succeed(c) ==
    /\ c.heard /\ c.answer = "order"
    /\ lastOrder' = c.order
    /\ cart' = NoCart
    /\ keys' = Renewed(c.key.page)
    /\ tab' = [tab EXCEPT ![c.tab].going = c.order]
    /\ calls' = calls \ {c}
    /\ confirmed' = confirmed \cup {c.order}
    /\ UNCHANGED <<sent, picks, orders>>

\* The answer is an error: a toast, and the page is as it was.
Failed(c) ==
    /\ c.answer = "refused"
    /\ calls' = calls \ {c}
    /\ UNCHANGED <<cart, lastOrder, tab, keys, sent, picks, orders, confirmed>>

\* The navigation that router.push started is over.
Arrive(t) ==
    /\ tab[t].going # 0
    /\ tab' = [tab EXCEPT ![t] = [shows |-> "done", page |-> 0, going |-> 0]]
    /\ UNCHANGED <<cart, lastOrder, keys, calls, sent, picks, orders, confirmed>>

Next ==
    \/ \E t \in Tabs :
         \/ \E quantity \in 1..Capacity : goToCheckout(t, quantity)
         \/ Visit(t) \/ Leave(t) \/ Continue(t) \/ Back(t)
         \/ submitOrder(t) \/ Reload(t) \/ Arrive(t)
    \/ \E c \in calls : Serve(c) \/ Lose(c) \/ Succeed(c) \/ Failed(c)

Spec == Init /\ [][Next]_vars
-----------------------------------------------------------------------------
Calls ==
    [id : 1..MaxSends, tab : Tabs, key : Keys, cart : Carts \ {NoCart}, heard : BOOLEAN,
     answer : {"none", "order", "refused"}, order : 0..Len(orders)]

\* Each variable has its type, and no more is sold than there is.
TypeOK ==
    /\ cart \in Carts
    /\ lastOrder \in 0..Len(orders)
    /\ tab \in [Tabs -> [shows : Screens, page : 0..Len(keys), going : 0..Len(orders)]]
    /\ keys \in Seq(Nat) /\ Len(keys) <= MaxPages
    /\ calls \subseteq Calls
    /\ sent \in 0..MaxSends
    /\ picks \in 0..MaxPicks
    /\ orders \in Seq([key : Keys, cart : Carts \ {NoCart}]) /\ Len(orders) <= MaxSends
    /\ confirmed \subseteq DOMAIN orders
    /\ Sold <= Capacity

\* A checkout page buys a cart once, however often its calls are lost, sent again or
\* overtake each other, and whatever other tabs do to the cart and the page's key in
\* the meantime.  (Two pages may each buy it: the key is the page's.)
PageBuysOnce ==
    \A m, n \in DOMAIN orders :
        orders[m].key.page = orders[n].key.page /\ orders[m].cart = orders[n].cart => m = n

\* An order that answers a call for another cart was made by an earlier call of the
\* same page whose answer never arrived: a page that has confirmed an order is never
\* answered with it again, even if it sends once more before it is left.
AnsweredAfresh ==
    \A c \in calls :
        c.heard /\ c.answer = "order" =>
            /\ orders[c.order].key.page = c.key.page
            /\ c.order \notin confirmed

=============================================================================
