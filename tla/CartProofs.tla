----------------------------- MODULE CartProofs -----------------------------
(***************************************************************************)
(* The theorems of Cart: what a checkout page buys and what it is          *)
(* answered, for any number of tabs, pages, carts and calls.               *)
(***************************************************************************)
EXTENDS Cart, SumTheorems, SequenceTheorems, TLAPS

-----------------------------------------------------------------------------
(***************************************************************************)
(* The invariant.                                                          *)
(***************************************************************************)
Picked == [pick : Nat, quantity : Nat]
KeyNames == [page : Nat, renewed : Nat]
CallNames ==
    [id : Nat, tab : Tabs, key : KeyNames, cart : Picked, heard : BOOLEAN,
     answer : {"none", "order", "refused"}, order : Nat]

TabsFit ==
    /\ tab \in [Tabs -> [shows : Screens, page : Nat, going : Nat]]
    /\ \A t \in Tabs :
         /\ tab[t].page \in 0..Len(keys)
         /\ tab[t].shows \in {"tickets", "buyer", "confirm"} => tab[t].page # 0

Typed ==
    /\ cart \in Picked /\ picks \in Nat /\ sent \in Nat
    /\ cart = NoCart \/ cart.pick \in 1..picks
    /\ keys \in Seq(Nat)
    /\ calls \subseteq CallNames
    /\ orders \in Seq([key : KeyNames, cart : Picked])

\* The keys and carts that were ever sent, and may still matter.
Asked == {[key |-> c.key, cart |-> c.cart] : c \in calls} \cup {orders[n] : n \in DOMAIN orders}

\* A cart that was sent under a key that its page has renewed since is not the cart
\* any more, and never will be again.
Spent(x) == x.key.renewed # keys[x.key.page] => x.cart # cart

AskedFits ==
    \A x \in Asked :
        /\ x.key.page \in DOMAIN keys
        /\ x.key.renewed <= keys[x.key.page]
        /\ x.cart.pick \in 1..picks
        /\ Spent(x)

OneKeyPerCart ==
    \A x, y \in Asked : x.key.page = y.key.page /\ x.cart = y.cart => x.key = y.key

OneOrderPerKey == \A m, n \in DOMAIN orders : orders[m].key = orders[n].key => m = n

\* A page hears of one call at a time, which was sent under the key that it has.
HeardFits ==
    /\ \A c \in calls : c.heard => c.key.renewed = keys[c.key.page]
    /\ \A c, d \in calls : c.heard /\ d.heard /\ c.key.page = d.key.page => c = d

AnswersFit ==
    \A c \in calls : c.answer = "order" => c.order \in DOMAIN orders /\ orders[c.order].key = c.key

ConfirmedFits ==
    \A n \in confirmed :
        n \in DOMAIN orders /\ orders[n].key.renewed < keys[orders[n].key.page]

CartInv ==
    /\ Typed /\ TabsFit /\ AskedFits /\ OneKeyPerCart /\ OneOrderPerKey
    /\ HeardFits /\ AnswersFit /\ ConfirmedFits

LEMMA InvImplies == CartInv => PageBuysOnce /\ AnsweredAfresh
<1> SUFFICES ASSUME CartInv PROVE PageBuysOnce /\ AnsweredAfresh
    OBVIOUS
<1>1. PageBuysOnce
    <2>1. \A n \in DOMAIN orders : orders[n] \in Asked
        BY DEF Asked
    <2> QED BY <2>1 DEF CartInv, OneKeyPerCart, OneOrderPerKey, PageBuysOnce
<1>2. AnsweredAfresh
    <2> SUFFICES ASSUME NEW c \in calls, c.heard, c.answer = "order"
                 PROVE  orders[c.order].key.page = c.key.page /\ c.order \notin confirmed
        BY DEF AnsweredAfresh
    <2>1. orders[c.order].key = c.key /\ c.key.renewed = keys[c.key.page]
        BY DEF CartInv, AnswersFit, HeardFits
    <2>2. c.key.renewed \in Nat
        BY DEF CartInv, Typed, CallNames, KeyNames
    <2> QED BY <2>1, <2>2 DEF CartInv, ConfirmedFits
<1> QED BY <1>1, <1>2

LEMMA InitFits == Init => CartInv
<1> SUFFICES ASSUME Init PROVE CartInv
    OBVIOUS
<1>1. keys = <<>> /\ orders = <<>> /\ calls = {} /\ confirmed = {}
    BY DEF Init
<1>2. DOMAIN orders = {} /\ Len(keys) = 0 /\ keys \in Seq(Nat)
      /\ orders \in Seq([key : KeyNames, cart : Picked])
    BY <1>1
<1>3. Asked = {}
    BY <1>1, <1>2 DEF Asked
<1>4. Typed /\ TabsFit
    BY <1>1, <1>2 DEF Init, Typed, TabsFit, NoCart, Picked, Screens
<1> QED BY <1>1, <1>2, <1>3, <1>4
        DEF CartInv, AskedFits, OneKeyPerCart, OneOrderPerKey, HeardFits, AnswersFit, ConfirmedFits

-----------------------------------------------------------------------------
(***************************************************************************)
(* What the actions have in common.                                        *)
(***************************************************************************)
LEMMA AskedTyped == Typed => Asked \subseteq [key : KeyNames, cart : Picked]
<1> SUFFICES ASSUME Typed, NEW x \in Asked PROVE x \in [key : KeyNames, cart : Picked]
    OBVIOUS
<1>1. CASE \E c \in calls : x = [key |-> c.key, cart |-> c.cart]
    BY <1>1 DEF Typed, CallNames
<1>2. ASSUME NEW n \in DOMAIN orders, x = orders[n] PROVE x \in [key : KeyNames, cart : Picked]
    <2> DEFINE S == [key : KeyNames, cart : Picked]
    <2>1. orders \in Seq(S) /\ n \in DOMAIN orders
        BY <1>2 DEF Typed
    <2> HIDE DEF S
    <2>2. orders[n] \in S
        BY <2>1
    <2> QED BY <1>2, <2>2 DEF S
<1> QED BY <1>1, <1>2 DEF Asked

LEMMA CallsAsked ==
    ASSUME CartInv, NEW c \in calls
    PROVE  /\ c \in CallNames /\ c.key.page \in DOMAIN keys /\ c.key.renewed <= keys[c.key.page]
           /\ c.cart.pick \in 1..picks
<1>1. [key |-> c.key, cart |-> c.cart] \in Asked
    BY DEF Asked
<1>2. c \in CallNames
    BY DEF CartInv, Typed
<1> QED BY <1>1, <1>2 DEF CartInv, AskedFits

LEMMA OrdersAsked ==
    ASSUME CartInv, NEW n \in DOMAIN orders
    PROVE  /\ orders[n] \in [key : KeyNames, cart : Picked] /\ orders[n].key.page \in DOMAIN keys
           /\ orders[n].key.renewed <= keys[orders[n].key.page]
<1>1. orders[n] \in Asked
    BY DEF Asked
<1>2. orders[n] \in [key : KeyNames, cart : Picked]
    BY <1>1, AskedTyped DEF CartInv
<1> QED BY <1>1, <1>2 DEF CartInv, AskedFits

LEMMA LongerDomain ==
    ASSUME NEW s \in Seq(Nat), NEW r \in Seq(Nat), Len(s) <= Len(r), NEW q \in DOMAIN s
    PROVE  q \in DOMAIN r /\ s[q] \in Nat /\ r[q] \in Nat
<1>1. /\ DOMAIN s = 1..Len(s) /\ DOMAIN r = 1..Len(r) /\ Len(s) \in Nat /\ Len(r) \in Nat
    OBVIOUS
<1> QED BY <1>1

LEMMA NoLess == \A a, b, c \in Nat : a <= b /\ b <= c => a <= c
OBVIOUS

\* Nothing new is sent, no key goes back, and the cart is none of those spent.
LEMMA AskedKept ==
    ASSUME CartInv, Asked' \subseteq Asked, picks' \in Nat, picks <= picks',
           keys' \in Seq(Nat), Len(keys) <= Len(keys'),
           \A p \in DOMAIN keys : keys[p] <= keys'[p],
           \A x \in Asked : x.key.renewed # keys'[x.key.page] => x.cart # cart'
    PROVE  AskedFits' /\ OneKeyPerCart'
<1>1. OneKeyPerCart'
    BY DEF CartInv, OneKeyPerCart
<1>2. ASSUME NEW x \in Asked'
      PROVE  /\ x.key.page \in DOMAIN keys'
             /\ x.key.renewed <= keys'[x.key.page]
             /\ x.cart.pick \in 1..picks'
             /\ Spent(x)'
    <2>1. x \in Asked /\ x.key.renewed \in Nat
        BY AskedTyped DEF CartInv, KeyNames
    <2>2. x.key.page \in DOMAIN keys /\ x.key.renewed <= keys[x.key.page] /\ x.cart.pick \in 1..picks
        BY <2>1 DEF CartInv, AskedFits
    <2>3. keys \in Seq(Nat) /\ picks \in Nat
        BY DEF CartInv, Typed
    <2>4. /\ x.key.page \in DOMAIN keys' /\ keys'[x.key.page] \in Nat
          /\ keys[x.key.page] \in Nat
        BY <2>2, <2>3, LongerDomain
    <2>5. x.key.renewed <= keys'[x.key.page]
        <3>1. keys[x.key.page] <= keys'[x.key.page]
            BY <2>2
        <3> QED BY <2>1, <2>2, <2>4, <3>1, NoLess
    <2>6. x.cart.pick \in 1..picks'
        <3>1. picks \in Nat /\ picks' \in Nat /\ picks <= picks' /\ x.cart.pick \in 1..picks
            BY <2>2, <2>3
        <3> QED BY <3>1
    <2> QED BY <2>1, <2>4, <2>5, <2>6 DEF Spent
<1> QED BY <1>1, <1>2 DEF AskedFits

LEMMA SameAsked ==
    ASSUME calls' = calls, orders' = orders
    PROVE  Asked' = Asked
BY DEF Asked

\* A page that is opened has a key of its own, and the others keep theirs.
LEMMA Opened ==
    ASSUME CartInv, NEW t \in Tabs, OpenCheckout(t)
    PROVE  /\ keys' \in Seq(Nat) /\ Len(keys) <= Len(keys')
           /\ \A p \in DOMAIN keys : keys'[p] = keys[p] /\ keys[p] \in Nat
           /\ TabsFit'
<1>1. keys \in Seq(Nat) /\ Len(keys) \in Nat
    BY DEF CartInv, Typed
<1>2. /\ keys' = Append(keys, 0)
      /\ tab' = [tab EXCEPT ![t] = [shows |-> "tickets", page |-> Len(keys) + 1, going |-> 0]]
    BY DEF OpenCheckout
<1>3. /\ keys' \in Seq(Nat) /\ Len(keys') = Len(keys) + 1
      /\ \A p \in DOMAIN keys : keys'[p] = keys[p] /\ keys[p] \in Nat
    BY <1>1, <1>2
<1>4. TabsFit'
    BY <1>1, <1>2, <1>3 DEF CartInv, TabsFit, Screens
<1> QED BY <1>1, <1>3, <1>4

\* The keys that calls and orders were sent under stay what they are.
LEMMA KeysKept ==
    ASSUME CartInv, \A p \in DOMAIN keys : keys'[p] = keys[p],
           calls' = calls, orders' = orders, confirmed' = confirmed
    PROVE  HeardFits' /\ AnswersFit' /\ ConfirmedFits' /\ OneOrderPerKey'
<1>1. \A c \in calls : c.key.page \in DOMAIN keys
    BY CallsAsked
<1>2. \A n \in DOMAIN orders : orders[n].key.page \in DOMAIN keys
    BY OrdersAsked
<1>3. HeardFits'
    BY <1>1 DEF CartInv, HeardFits
<1>4. ConfirmedFits'
    BY <1>2 DEF CartInv, ConfirmedFits
<1> QED BY <1>3, <1>4 DEF CartInv, AnswersFit, OneOrderPerKey

LEMMA PagePreserves ==
    ASSUME CartInv, NEW t \in Tabs,
           Visit(t) \/ \E quantity \in 1..Capacity : goToCheckout(t, quantity)
    PROVE  CartInv'
<1>1. OpenCheckout(t) /\ UNCHANGED <<calls, sent, orders, confirmed>>
    BY DEF Visit, goToCheckout
<1>2. /\ keys' \in Seq(Nat) /\ Len(keys) <= Len(keys')
      /\ \A p \in DOMAIN keys : keys'[p] = keys[p] /\ keys[p] \in Nat
      /\ TabsFit'
    BY <1>1, Opened
<1>3. HeardFits' /\ AnswersFit' /\ ConfirmedFits' /\ OneOrderPerKey'
    BY <1>1, <1>2, KeysKept
<1>4. /\ picks' \in Nat /\ picks <= picks' /\ cart' \in Picked
      /\ cart' = NoCart \/ cart'.pick \in 1..picks'
      /\ cart' = cart \/ cart'.pick = picks + 1
    <2>1. CASE Visit(t)
        BY <2>1 DEF Visit, CartInv, Typed
    <2>2. CASE \E quantity \in 1..Capacity : goToCheckout(t, quantity)
        BY <2>2 DEF goToCheckout, CartInv, Typed, Picked
    <2> QED BY <2>1, <2>2
<1>5. Typed'
    BY <1>1, <1>2, <1>4 DEF CartInv, Typed
<1>6. \A x \in Asked : x.key.renewed # keys'[x.key.page] => x.cart # cart'
    <2> SUFFICES ASSUME NEW x \in Asked, x.key.renewed # keys'[x.key.page] PROVE x.cart # cart'
        OBVIOUS
    <2>1. x.key.page \in DOMAIN keys /\ x.cart.pick \in 1..picks /\ Spent(x) /\ picks \in Nat
        BY DEF CartInv, Typed, AskedFits
    <2>2. x.cart # cart
        BY <1>2, <2>1 DEF Spent
    <2> QED BY <1>4, <2>1, <2>2
<1>7. AskedFits' /\ OneKeyPerCart'
    <2>1. Asked' = Asked
        BY <1>1, SameAsked
    <2>2. \A p \in DOMAIN keys : keys[p] <= keys'[p]
        BY <1>2
    <2> QED BY <1>2, <1>4, <1>6, <2>1, <2>2, AskedKept
<1> QED BY <1>2, <1>3, <1>5, <1>7 DEF CartInv

LEMMA TabPreserves ==
    ASSUME CartInv, NEW t \in Tabs, Leave(t) \/ Continue(t) \/ Back(t) \/ Arrive(t)
    PROVE  CartInv'
<1>1. UNCHANGED <<cart, lastOrder, keys, calls, sent, picks, orders, confirmed>>
    BY DEF Leave, Continue, Back, StepTo, Arrive
<1>2. TabsFit'
    <2>1. \/ tab' = [tab EXCEPT ![t] = [shows |-> "event", page |-> 0, going |-> 0]]
          \/ tab' = [tab EXCEPT ![t] = [shows |-> "done", page |-> 0, going |-> 0]]
          \/ /\ tab[t].shows \in {"tickets", "buyer", "confirm"}
             /\ \E to \in {"tickets", "buyer", "confirm"} : tab' = [tab EXCEPT ![t].shows = to]
        BY DEF Leave, Continue, Back, StepTo, Arrive
    <2>2. tab \in [Tabs -> [shows : Screens, page : Nat, going : Nat]]
        BY DEF CartInv, TabsFit
    <2>3. CASE \/ tab' = [tab EXCEPT ![t] = [shows |-> "event", page |-> 0, going |-> 0]]
               \/ tab' = [tab EXCEPT ![t] = [shows |-> "done", page |-> 0, going |-> 0]]
        <3>1. tab' \in [Tabs -> [shows : Screens, page : Nat, going : Nat]]
            BY <2>2, <2>3 DEF Screens
        <3>2. \A u \in Tabs \ {t} : tab'[u] = tab[u]
            BY <2>2, <2>3
        <3>3. tab'[t].page = 0 /\ tab'[t].shows \in {"event", "done"}
            BY <2>2, <2>3
        <3>4. Len(keys) \in Nat
            BY DEF CartInv, Typed
        <3>5. \A u \in Tabs :
                /\ tab'[u].page \in 0..Len(keys)
                /\ tab'[u].shows \in {"tickets", "buyer", "confirm"} => tab'[u].page # 0
            BY <3>2, <3>3, <3>4 DEF CartInv, TabsFit
        <3> QED BY <1>1, <3>1, <3>5 DEF TabsFit
    <2>4. ASSUME tab[t].shows \in {"tickets", "buyer", "confirm"},
                 NEW to \in {"tickets", "buyer", "confirm"}, tab' = [tab EXCEPT ![t].shows = to]
          PROVE  TabsFit'
        <3>1. tab' \in [Tabs -> [shows : Screens, page : Nat, going : Nat]]
            BY <2>2, <2>4 DEF Screens
        <3>2. \A u \in Tabs : tab'[u].page = tab[u].page /\ (u # t => tab'[u].shows = tab[u].shows)
            BY <2>2, <2>4
        <3>3. \A u \in Tabs :
                /\ tab'[u].page \in 0..Len(keys)
                /\ tab'[u].shows \in {"tickets", "buyer", "confirm"} => tab'[u].page # 0
            BY <2>4, <3>2 DEF CartInv, TabsFit
        <3> QED BY <1>1, <3>1, <3>3 DEF TabsFit
    <2> QED BY <2>1, <2>3, <2>4
<1>3. Asked' = Asked
    BY <1>1, SameAsked
<1> QED BY <1>1, <1>2, <1>3
        DEF CartInv, Typed, AskedFits, Spent, OneKeyPerCart, OneOrderPerKey, HeardFits, AnswersFit,
            ConfirmedFits

-----------------------------------------------------------------------------
(***************************************************************************)
(* The call of an order, its answer, and the loss of either.               *)
(***************************************************************************)
LEMMA SubmitPreserves ==
    ASSUME CartInv, NEW t \in Tabs, submitOrder(t)
    PROVE  CartInv'
<1> DEFINE p == tab[t].page
           new == [id |-> sent', tab |-> t, key |-> KeyOf(p), cart |-> cart, heard |-> TRUE,
                   answer |-> "none", order |-> 0]
<1>1. /\ tab[t].shows = "confirm" /\ cart # NoCart /\ ~Pending(p) /\ sent' = sent + 1
      /\ calls' = calls \cup {new}
      /\ UNCHANGED <<cart, lastOrder, tab, keys, picks, orders, confirmed>>
    BY DEF submitOrder, SendingKey
<1>2. p \in DOMAIN keys /\ keys[p] \in Nat /\ p \in Nat
    <2>1. p \in 0..Len(keys) /\ p # 0
        BY <1>1 DEF CartInv, TabsFit
    <2>2. keys \in Seq(Nat)
        BY DEF CartInv, Typed
    <2> QED BY <2>1, <2>2
<1>3. KeyOf(p) \in KeyNames /\ KeyOf(p).page = p /\ KeyOf(p).renewed = keys[p]
    BY <1>2 DEF KeyOf, KeyNames
<1>4. cart \in Picked /\ cart.pick \in 1..picks /\ sent' \in Nat
    BY <1>1 DEF CartInv, Typed
<1>5. /\ new \in CallNames /\ new.key = KeyOf(p) /\ new.cart = cart /\ new.heard
      /\ new.answer = "none"
    BY <1>3, <1>4 DEF CallNames
<1> HIDE DEF p, new
<1>6. Typed'
    BY <1>1, <1>4, <1>5 DEF CartInv, Typed
<1>7. TabsFit'
    BY <1>1 DEF CartInv, TabsFit
<1>8. PICK x0 : Asked' = Asked \cup {x0} /\ x0.key = KeyOf(p) /\ x0.cart = cart
    <2> DEFINE y == [key |-> KeyOf(p), cart |-> cart]
    <2>1. Asked' = Asked \cup {y} /\ y.key = KeyOf(p) /\ y.cart = cart
        BY <1>1, <1>5 DEF Asked
    <2> QED BY <2>1
<1>9. AskedFits'
    <2>1. ASSUME NEW x \in Asked
          PROVE  /\ x.key.page \in DOMAIN keys' /\ x.key.renewed <= keys'[x.key.page]
                 /\ x.cart.pick \in 1..picks' /\ Spent(x)'
        BY <1>1 DEF CartInv, AskedFits, Spent
    <2>2. /\ x0.key.page \in DOMAIN keys' /\ x0.key.renewed <= keys'[x0.key.page]
          /\ x0.cart.pick \in 1..picks' /\ Spent(x0)'
        BY <1>1, <1>2, <1>3, <1>4, <1>8 DEF Spent
    <2> QED BY <1>8, <2>1, <2>2 DEF AskedFits
<1>10. OneKeyPerCart'
    <2>1. ASSUME NEW y \in Asked, y.key.page = p, y.cart = cart PROVE y.key = x0.key
        <3>1. y.key \in KeyNames
            BY AskedTyped DEF CartInv
        <3>2. y.key.renewed = keys[p]
            BY <2>1 DEF CartInv, AskedFits, Spent
        <3> QED BY <1>3, <1>8, <2>1, <3>1, <3>2 DEF KeyNames
    <2> QED BY <1>3, <1>8, <2>1 DEF CartInv, OneKeyPerCart
<1>11. HeardFits'
    BY <1>1, <1>3, <1>5 DEF CartInv, HeardFits, Pending
<1>12. AnswersFit' /\ ConfirmedFits' /\ OneOrderPerKey'
    BY <1>1, <1>5 DEF CartInv, AnswersFit, ConfirmedFits, OneOrderPerKey
<1> QED BY <1>6, <1>7, <1>9, <1>10, <1>11, <1>12 DEF CartInv

\* Calls that stay, or change in nothing but their answer and who hears it, ask for
\* nothing new.
Copied ==
    \A d \in calls' :
        d \in CallNames /\ \E c \in calls : d.key = c.key /\ d.cart = c.cart

LEMMA CopiedAsks ==
    ASSUME CartInv, Copied, orders' = orders
    PROVE  Asked' \subseteq Asked
BY DEF Copied, Asked

LEMMA CopiedKept ==
    ASSUME CartInv, Copied, orders' = orders,
           \A d \in calls' : d.answer = "order" => d.order \in DOMAIN orders /\ orders[d.order].key = d.key,
           HeardFits', UNCHANGED <<cart, sent, keys, picks, confirmed>>, TabsFit'
    PROVE  CartInv'
<1>1. Typed'
    BY DEF CartInv, Typed, Copied
<1>2. AskedFits' /\ OneKeyPerCart'
    <2>1. picks \in Nat /\ keys \in Seq(Nat) /\ \A q \in DOMAIN keys : keys[q] \in Nat
        BY DEF CartInv, Typed
    <2>2. \A x \in Asked : x.key.renewed # keys'[x.key.page] => x.cart # cart'
        BY DEF CartInv, AskedFits, Spent
    <2>3. Asked' \subseteq Asked
        BY CopiedAsks
    <2>4. /\ picks' \in Nat /\ picks <= picks' /\ keys' \in Seq(Nat) /\ Len(keys) <= Len(keys')
          /\ \A q \in DOMAIN keys : keys[q] <= keys'[q]
        BY <2>1
    <2> QED BY <2>2, <2>3, <2>4, AskedKept
<1>3. AnswersFit' /\ ConfirmedFits' /\ OneOrderPerKey'
    BY DEF CartInv, AnswersFit, ConfirmedFits, OneOrderPerKey
<1> QED BY <1>1, <1>2, <1>3 DEF CartInv

\* One call changes, or is over.
LEMMA OneChanges ==
    ASSUME CartInv, NEW c \in calls, NEW d \in CallNames,
           d.key = c.key, d.cart = c.cart, d.heard => c.heard,
           calls' \subseteq (calls \ {c}) \cup {d}, keys' = keys
    PROVE  Copied /\ HeardFits'
<1>1. Copied
    BY DEF CartInv, Typed, Copied
<1>2. HeardFits'
    BY DEF CartInv, HeardFits
<1> QED BY <1>1, <1>2

LEMMA OrderNumbers ==
    ASSUME CartInv
    PROVE  /\ DOMAIN orders = 1..Len(orders) /\ Len(orders) \in Nat
           /\ orders \in Seq([key : KeyNames, cart : Picked])
<1> DEFINE S == [key : KeyNames, cart : Picked]
<1>1. orders \in Seq(S)
    BY DEF CartInv, Typed
<1> HIDE DEF S
<1>2. DOMAIN orders = 1..Len(orders) /\ Len(orders) \in Nat
    BY <1>1
<1> QED BY <1>1, <1>2 DEF S

LEMMA AnswerPreserves ==
    ASSUME CartInv, NEW c \in calls, Replay(c) \/ Refuse(c),
           UNCHANGED <<cart, lastOrder, tab, keys, sent, picks, confirmed>>
    PROVE  CartInv'
<1>1. /\ c \in CallNames /\ orders' = orders
      /\ DOMAIN orders \subseteq Nat
    <2>1. c \in CallNames
        BY CallsAsked
    <2>2. orders' = orders
        BY DEF Replay, Refuse
    <2>3. DOMAIN orders = 1..Len(orders)
        BY OrderNumbers
    <2> QED BY <2>1, <2>2, <2>3
<1>2. PICK d \in CallNames :
        /\ Becomes(c, d) /\ d.key = c.key /\ d.cart = c.cart /\ d.heard = c.heard
        /\ d.answer = "order" => d.order \in DOMAIN orders /\ orders[d.order].key = d.key
    <2>1. CASE Replay(c)
        <3>1. PICK n \in OrderOf(c.key) : Becomes(c, [c EXCEPT !.answer = "order", !.order = n])
            BY <2>1 DEF Replay
        <3>2. n \in DOMAIN orders /\ n \in Nat /\ orders[n].key = c.key
            BY <1>1, <3>1 DEF OrderOf
        <3> DEFINE d == [c EXCEPT !.answer = "order", !.order = n]
        <3>3. /\ d \in CallNames /\ d.key = c.key /\ d.cart = c.cart /\ d.heard = c.heard
              /\ d.order = n /\ Becomes(c, d)
            BY <1>1, <3>1, <3>2 DEF CallNames
        <3> HIDE DEF d
        <3> QED BY <3>2, <3>3
    <2>2. CASE Refuse(c)
        <3> DEFINE d == [c EXCEPT !.answer = "refused"]
        <3>1. /\ d \in CallNames /\ d.key = c.key /\ d.cart = c.cart /\ d.heard = c.heard
              /\ d.answer = "refused" /\ Becomes(c, d)
            BY <1>1, <2>2 DEF CallNames, Refuse
        <3> HIDE DEF d
        <3> QED BY <3>1
    <2> QED BY <2>1, <2>2
<1>3. Copied /\ HeardFits'
    BY <1>2, OneChanges DEF Becomes
<1>4. \A e \in calls' : e.answer = "order" => e.order \in DOMAIN orders /\ orders[e.order].key = e.key
    BY <1>2 DEF Becomes, CartInv, AnswersFit
<1>5. TabsFit'
    BY DEF CartInv, TabsFit
<1> QED BY <1>1, <1>3, <1>4, <1>5, CopiedKept

LEMMA AcceptPreserves ==
    ASSUME CartInv, NEW c \in calls, Accept(c),
           UNCHANGED <<cart, lastOrder, tab, keys, sent, picks, confirmed>>
    PROVE  CartInv'
<1> DEFINE S == [key : KeyNames, cart : Picked]
           N == Len(orders)
<1>1. c \in CallNames /\ orders \in Seq(S) /\ N \in Nat /\ DOMAIN orders = 1..N
    BY CallsAsked, OrderNumbers
<1>2. PICK o \in S : o.key = c.key /\ o.cart = c.cart /\ orders' = Append(orders, o)
    <2> DEFINE o == [key |-> c.key, cart |-> c.cart]
    <2>1. o \in S /\ o.key = c.key /\ o.cart = c.cart /\ orders' = Append(orders, o)
        BY <1>1 DEF CallNames, Accept
    <2> QED BY <2>1
<1> HIDE DEF S
<1>3. /\ orders' \in Seq(S) /\ Len(orders') = N + 1 /\ DOMAIN orders' = 1..(N + 1)
      /\ orders'[N + 1] = o /\ \A n \in DOMAIN orders : orders'[n] = orders[n]
    BY <1>1, <1>2
<1>4. \A n \in DOMAIN orders' : n \in DOMAIN orders \/ n = N + 1
    BY <1>1, <1>3
<1>5. DOMAIN orders \subseteq DOMAIN orders' /\ N + 1 \in DOMAIN orders' /\ N + 1 \in Nat
    BY <1>1, <1>3
<1>6. PICK d \in CallNames :
        /\ Becomes(c, d) /\ d.key = c.key /\ d.cart = c.cart /\ d.heard = c.heard /\ d.order = N + 1
    <2> DEFINE d == [c EXCEPT !.answer = "order", !.order = N + 1]
    <2>1. /\ d \in CallNames /\ d.key = c.key /\ d.cart = c.cart /\ d.heard = c.heard
          /\ d.order = N + 1
        BY <1>1, <1>5 DEF CallNames
    <2>2. Becomes(c, d)
        BY <1>3 DEF Accept
    <2> HIDE DEF d
    <2> QED BY <2>1, <2>2
<1> HIDE DEF N
<1>7. Copied /\ HeardFits'
    BY <1>6, OneChanges DEF Becomes
<1>8. Asked' \subseteq Asked
    <2>1. \A e \in calls' : [key |-> e.key, cart |-> e.cart] \in Asked
        BY <1>7 DEF Copied, Asked
    <2>2. o \in Asked
        <3>1. o = [key |-> c.key, cart |-> c.cart]
            BY <1>2 DEF S
        <3> QED BY <3>1 DEF Asked
    <2>3. \A n \in DOMAIN orders' : orders'[n] \in Asked
        BY <1>3, <1>4, <2>2 DEF Asked
    <2> QED BY <2>1, <2>3 DEF Asked
<1>9. Typed'
    BY <1>3, <1>7 DEF CartInv, Typed, Copied, S
<1>10. TabsFit'
    BY DEF CartInv, TabsFit
<1>11. AskedFits' /\ OneKeyPerCart'
    <2>1. /\ picks' \in Nat /\ picks <= picks' /\ keys' \in Seq(Nat) /\ Len(keys) <= Len(keys')
          /\ \A q \in DOMAIN keys : keys[q] <= keys'[q]
        BY DEF CartInv, Typed
    <2>2. \A x \in Asked : x.key.renewed # keys'[x.key.page] => x.cart # cart'
        BY DEF CartInv, AskedFits, Spent
    <2> QED BY <1>8, <2>1, <2>2, AskedKept
<1>12. OneOrderPerKey'
    <2>1. \A n \in DOMAIN orders : orders[n].key # c.key
        BY DEF Accept, OrderOf
    <2> QED BY <1>2, <1>3, <1>4, <2>1 DEF CartInv, OneOrderPerKey
<1>13. AnswersFit' /\ ConfirmedFits'
    BY <1>2, <1>3, <1>5, <1>6 DEF Becomes, CartInv, AnswersFit, ConfirmedFits
<1> QED BY <1>7, <1>9, <1>10, <1>11, <1>12, <1>13 DEF CartInv

LEMMA UnheardCopies ==
    ASSUME CartInv, NEW c \in calls, NEW d \in Unheard(c)
    PROVE  /\ d \in CallNames /\ d.key = c.key /\ d.cart = c.cart /\ ~d.heard
           /\ d.answer = "none"
<1>1. c \in CallNames
    BY CallsAsked
<1>2. d = [c EXCEPT !.heard = FALSE] /\ c.answer = "none"
    BY DEF Unheard
<1> QED BY <1>1, <1>2 DEF CallNames

LEMMA LosePreserves ==
    ASSUME CartInv, NEW c \in calls, Lose(c) \/ Failed(c)
    PROVE  CartInv'
<1>1. UNCHANGED <<cart, lastOrder, tab, keys, sent, picks, orders, confirmed>>
    BY DEF Lose, Failed
<1>2. \A d \in calls' : d \in calls \/ d \in Unheard(c)
    BY DEF Lose, Failed
<1>3. Copied
    BY <1>2, UnheardCopies DEF Copied, CartInv, Typed
<1>4. HeardFits'
    BY <1>1, <1>2, UnheardCopies DEF CartInv, HeardFits
<1>5. \A d \in calls' : d.answer = "order" => d.order \in DOMAIN orders /\ orders[d.order].key = d.key
    BY <1>2, UnheardCopies DEF CartInv, AnswersFit
<1>6. TabsFit'
    BY <1>1 DEF CartInv, TabsFit
<1> QED BY <1>1, <1>3, <1>4, <1>5, <1>6, CopiedKept

LEMMA ReloadPreserves ==
    ASSUME CartInv, NEW t \in Tabs, Reload(t)
    PROVE  CartInv'
<1>1. UNCHANGED <<cart, lastOrder, sent, picks, orders, confirmed>>
    BY DEF Reload
<1>2. \A d \in calls' : d \in calls \/ \E c \in calls : d \in Unheard(c)
    BY DEF Reload
<1>3. Copied
    BY <1>2, UnheardCopies DEF Copied, CartInv, Typed
<1>4. /\ keys' \in Seq(Nat) /\ Len(keys) <= Len(keys')
      /\ \A q \in DOMAIN keys : keys'[q] = keys[q] /\ keys[q] \in Nat
      /\ TabsFit'
    <2>1. CASE OpenCheckout(t)
        BY <2>1, Opened
    <2>2. CASE UNCHANGED <<tab, keys>>
        BY <2>2 DEF CartInv, Typed, TabsFit
    <2> QED BY <2>1, <2>2 DEF Reload
<1>5. HeardFits'
    <2>1. \A d \in calls' : d.heard => d \in calls
        BY <1>2, UnheardCopies
    <2>2. \A c \in calls : c.key.page \in DOMAIN keys
        BY CallsAsked
    <2> QED BY <1>4, <2>1, <2>2 DEF CartInv, HeardFits
<1>6. Typed'
    BY <1>1, <1>3, <1>4 DEF CartInv, Typed, Copied
<1>7. AskedFits' /\ OneKeyPerCart'
    <2>1. \A q \in DOMAIN keys : keys[q] <= keys'[q]
        BY <1>4
    <2>2. \A x \in Asked : x.key.renewed # keys'[x.key.page] => x.cart # cart'
        BY <1>1, <1>4 DEF CartInv, AskedFits, Spent
    <2>3. Asked' \subseteq Asked
        BY <1>1, <1>3, CopiedAsks
    <2>4. picks' \in Nat /\ picks <= picks'
        BY <1>1 DEF CartInv, Typed
    <2> QED BY <1>4, <2>1, <2>2, <2>3, <2>4, AskedKept
<1>8. AnswersFit'
    BY <1>1, <1>2, UnheardCopies DEF CartInv, AnswersFit
<1>9. ConfirmedFits' /\ OneOrderPerKey'
    <2>1. \A n \in DOMAIN orders : orders[n].key.page \in DOMAIN keys
        BY OrdersAsked
    <2> QED BY <1>1, <1>4, <2>1 DEF CartInv, ConfirmedFits, OneOrderPerKey
<1> QED BY <1>4, <1>5, <1>6, <1>7, <1>8, <1>9 DEF CartInv

-----------------------------------------------------------------------------
(***************************************************************************)
(* The answer that the page hears: the cart is emptied and the key is      *)
(* renewed in the same step.                                               *)
(***************************************************************************)
LEMMA SucceedPreserves ==
    ASSUME CartInv, NEW c \in calls, Succeed(c)
    PROVE  CartInv'
<1> DEFINE p == c.key.page
<1>1. /\ c \in CallNames /\ p \in DOMAIN keys /\ keys \in Seq(Nat)
      /\ c.order \in DOMAIN orders /\ orders[c.order].key = c.key
      /\ c.key.renewed = keys[p] /\ c.heard
    BY CallsAsked DEF Succeed, CartInv, Typed, AnswersFit, HeardFits
<1>2. /\ cart' = NoCart /\ keys' = [keys EXCEPT ![p] = @ + 1]
      /\ tab' = [tab EXCEPT ![c.tab].going = c.order]
      /\ calls' = calls \ {c} /\ confirmed' = confirmed \cup {c.order}
      /\ UNCHANGED <<sent, picks, orders>>
    BY DEF Succeed, Renewed
<1> HIDE DEF p
<1>3. /\ keys' \in Seq(Nat) /\ Len(keys') = Len(keys) /\ DOMAIN keys' = DOMAIN keys
      /\ keys'[p] = keys[p] + 1 /\ \A q \in DOMAIN keys : keys[q] \in Nat
      /\ \A q \in DOMAIN keys : q # p => keys'[q] = keys[q]
    BY <1>1, <1>2
<1>4. \A q \in DOMAIN keys : keys[q] <= keys'[q] /\ keys'[q] \in Nat
    <2> SUFFICES ASSUME NEW q \in DOMAIN keys PROVE keys[q] <= keys'[q] /\ keys'[q] \in Nat
        OBVIOUS
    <2>1. keys[q] \in Nat /\ keys[p] \in Nat
        BY <1>1, <1>3
    <2>2. keys'[q] = keys[q] \/ keys'[q] = keys[q] + 1
        BY <1>3
    <2> QED BY <2>1, <2>2
<1>5. Typed'
    BY <1>2, <1>3 DEF CartInv, Typed, NoCart, Picked
<1>6. TabsFit'
    <2>1. c.tab \in Tabs /\ c.order \in Nat
        BY <1>1 DEF CallNames
    <2>2. tab \in [Tabs -> [shows : Screens, page : Nat, going : Nat]]
        BY DEF CartInv, TabsFit
    <2>3. tab' \in [Tabs -> [shows : Screens, page : Nat, going : Nat]]
        BY <1>2, <2>1, <2>2
    <2>4. \A t \in Tabs : tab'[t].page = tab[t].page /\ tab'[t].shows = tab[t].shows
        BY <1>2, <2>1, <2>2
    <2> QED BY <1>3, <2>3, <2>4 DEF CartInv, TabsFit
<1>7. AskedFits' /\ OneKeyPerCart'
    <2>1. Asked' \subseteq Asked
        BY <1>2 DEF Asked
    <2>2. picks' \in Nat /\ picks <= picks'
        BY <1>2 DEF CartInv, Typed
    <2>3. \A x \in Asked : x.cart # cart'
        BY <1>2 DEF CartInv, AskedFits, NoCart
    <2>4. Len(keys) <= Len(keys')
        BY <1>1, <1>3
    <2> QED BY <1>3, <1>4, <2>1, <2>2, <2>3, <2>4, AskedKept
<1>8. HeardFits'
    <2>1. \A d \in calls' : d.heard => d.key.page # p
        BY <1>1, <1>2 DEF CartInv, HeardFits, p
    <2>2. \A d \in calls' : d.key.page \in DOMAIN keys
        BY <1>2, CallsAsked
    <2> QED BY <1>2, <1>3, <2>1, <2>2 DEF CartInv, HeardFits
<1>9. ConfirmedFits'
    <2>1. ASSUME NEW n \in confirmed
          PROVE  n \in DOMAIN orders /\ orders[n].key.renewed < keys'[orders[n].key.page]
        <3>1. n \in DOMAIN orders /\ orders[n].key.renewed < keys[orders[n].key.page]
            BY DEF CartInv, ConfirmedFits
        <3>2. orders[n].key.page \in DOMAIN keys /\ orders[n].key.renewed \in Nat
            BY <3>1, OrdersAsked DEF KeyNames
        <3> QED BY <1>3, <1>4, <3>1, <3>2
    <2>2. orders[c.order].key.renewed < keys'[orders[c.order].key.page]
        <3>1. orders[c.order].key.page = p /\ orders[c.order].key.renewed = keys[p]
            BY <1>1 DEF p
        <3> QED BY <1>1, <1>3, <3>1
    <2> QED BY <1>1, <1>2, <2>1, <2>2 DEF ConfirmedFits
<1>10. AnswersFit' /\ OneOrderPerKey'
    BY <1>2 DEF CartInv, AnswersFit, OneOrderPerKey
<1> QED BY <1>5, <1>6, <1>7, <1>8, <1>9, <1>10 DEF CartInv

LEMMA NextPreserves == CartInv /\ [Next]_vars => CartInv'
<1> SUFFICES ASSUME CartInv, [Next]_vars PROVE CartInv'
    OBVIOUS
<1>1. ASSUME NEW t \in Tabs, Visit(t) \/ \E quantity \in 1..Capacity : goToCheckout(t, quantity)
      PROVE  CartInv'
    BY <1>1, PagePreserves
<1>2. ASSUME NEW t \in Tabs, Leave(t) \/ Continue(t) \/ Back(t) \/ Arrive(t) PROVE CartInv'
    BY <1>2, TabPreserves
<1>3. ASSUME NEW t \in Tabs, submitOrder(t) PROVE CartInv'
    BY <1>3, SubmitPreserves
<1>4. ASSUME NEW t \in Tabs, Reload(t) PROVE CartInv'
    BY <1>4, ReloadPreserves
<1>5. ASSUME NEW c \in calls, Serve(c) PROVE CartInv'
    <2>1. Replay(c) \/ Accept(c) \/ Refuse(c)
        BY <1>5 DEF Serve
    <2>2. UNCHANGED <<cart, lastOrder, tab, keys, sent, picks, confirmed>>
        BY <1>5 DEF Serve
    <2> QED BY <2>1, <2>2, AnswerPreserves, AcceptPreserves
<1>6. ASSUME NEW c \in calls, Lose(c) \/ Failed(c) PROVE CartInv'
    BY <1>6, LosePreserves
<1>7. ASSUME NEW c \in calls, Succeed(c) PROVE CartInv'
    BY <1>7, SucceedPreserves
<1>8. CASE UNCHANGED vars
    <2>1. Asked' = Asked
        BY <1>8, SameAsked DEF vars
    <2> QED BY <1>8, <2>1
            DEF vars, CartInv, Typed, TabsFit, AskedFits, Spent, OneKeyPerCart, OneOrderPerKey,
                HeardFits, AnswersFit, ConfirmedFits
<1> QED BY <1>1, <1>2, <1>3, <1>4, <1>5, <1>6, <1>7, <1>8 DEF Next

-----------------------------------------------------------------------------
(***************************************************************************)
(* The bounds of TypeOK.  A call makes at most one order and renews at     *)
(* most one key, so the calls still to be answered are what is left for    *)
(* them.                                                                   *)
(***************************************************************************)
Ids(S) == {c.id : c \in S}
Undecided == {c \in calls : c.answer = "none"}

Limits ==
    /\ cart \in Carts
    /\ picks <= MaxPicks /\ sent <= MaxSends /\ Len(keys) <= MaxPages
    /\ lastOrder \in 0..Len(orders)
    /\ \A t \in Tabs : tab[t].going \in 0..Len(orders)
    /\ \A x \in Asked : x.cart \in Carts \ {NoCart}

Numbered ==
    /\ \A c \in calls : c.id \in 1..sent /\ c.order \in 0..Len(orders)
    /\ \A c, d \in calls : c.id = d.id => c = d

OneOrderPerCall == Len(orders) + Cardinality(Ids(Undecided)) <= sent
OneRenewalPerCall == \A p \in DOMAIN keys : keys[p] + Cardinality(Ids(calls)) <= sent

SoldFits == Sold <= Capacity

CartBounds == CartInv /\ Limits /\ Numbered /\ OneOrderPerCall /\ OneRenewalPerCall /\ SoldFits

LEMMA IdsCounted ==
    ASSUME CartBounds
    PROVE  /\ IsFiniteSet(Ids(calls)) /\ IsFiniteSet(Ids(Undecided))
           /\ Cardinality(Ids(calls)) \in 0..sent /\ Cardinality(Ids(Undecided)) \in Nat
           /\ sent \in Nat /\ Ids(calls) \subseteq 1..sent /\ Ids(Undecided) \subseteq Ids(calls)
<1>1. sent \in Nat /\ Ids(calls) \subseteq 1..sent /\ Ids(Undecided) \subseteq Ids(calls)
    BY DEF CartBounds, CartInv, Typed, Numbered, Ids, Undecided
<1>2. IsFiniteSet(1..sent) /\ Cardinality(1..sent) = sent
    BY <1>1, FS_Interval
<1>3. /\ IsFiniteSet(Ids(calls)) /\ IsFiniteSet(Ids(Undecided))
      /\ Cardinality(Ids(calls)) <= sent
    BY <1>1, <1>2, FS_Subset
<1> QED BY <1>1, <1>3, FS_CardinalityType

\* What is left does not grow while nothing is sent, ordered or renewed.
LEMMA CountsKept ==
    ASSUME CartBounds, sent' = sent, orders' = orders, Ids(calls') \subseteq Ids(calls),
           Ids(Undecided') \subseteq Ids(Undecided), keys' \in Seq(Nat),
           \A p \in DOMAIN keys' : keys'[p] = 0 \/ (p \in DOMAIN keys /\ keys'[p] = keys[p])
    PROVE  OneOrderPerCall' /\ OneRenewalPerCall' /\ SoldFits'
<1>1. /\ IsFiniteSet(Ids(calls)) /\ IsFiniteSet(Ids(Undecided)) /\ sent \in Nat
      /\ Cardinality(Ids(calls)) \in 0..sent /\ Cardinality(Ids(Undecided)) \in Nat
    BY IdsCounted
<1>2. /\ Cardinality(Ids(calls')) <= Cardinality(Ids(calls)) /\ Cardinality(Ids(calls')) \in Nat
      /\ Cardinality(Ids(Undecided')) <= Cardinality(Ids(Undecided))
      /\ Cardinality(Ids(Undecided')) \in Nat
    BY <1>1, FS_Subset, FS_CardinalityType
<1>3. Len(orders) \in Nat
    BY OrderNumbers DEF CartBounds
<1>4. OneOrderPerCall'
    BY <1>1, <1>2, <1>3 DEF CartBounds, OneOrderPerCall
<1>5. OneRenewalPerCall'
    <2> SUFFICES ASSUME NEW p \in DOMAIN keys'
                 PROVE  keys'[p] + Cardinality(Ids(calls')) <= sent
        BY DEF OneRenewalPerCall
    <2>1. CASE keys'[p] = 0
        BY <1>1, <1>2, <2>1
    <2>2. CASE p \in DOMAIN keys /\ keys'[p] = keys[p]
        <3>1. keys[p] + Cardinality(Ids(calls)) <= sent
            BY <2>2 DEF CartBounds, OneRenewalPerCall
        <3>2. keys'[p] \in Nat
            OBVIOUS
        <3> QED BY <1>1, <1>2, <2>2, <3>1, <3>2
    <2> QED BY <2>1, <2>2
<1>6. SoldFits'
    BY DEF CartBounds, SoldFits, Sold
<1> QED BY <1>4, <1>5, <1>6

LEMMA InitBounds == Init => CartBounds
<1> SUFFICES ASSUME Init PROVE CartBounds
    OBVIOUS
<1>1. /\ keys = <<>> /\ orders = <<>> /\ calls = {} /\ cart = NoCart /\ lastOrder = 0
      /\ tab = [t \in Tabs |-> [shows |-> "event", page |-> 0, going |-> 0]] /\ sent = 0 /\ picks = 0
    BY DEF Init
<1>2. DOMAIN orders = {} /\ Len(orders) = 0 /\ DOMAIN keys = {} /\ Len(keys) = 0
    BY <1>1
<1>3. Asked = {} /\ Ids(Undecided) = {}
    BY <1>1, <1>2 DEF Asked, Ids, Undecided
<1>4. Limits /\ Numbered /\ OneRenewalPerCall
    BY <1>1, <1>2, <1>3, CartAssumption DEF Limits, Numbered, OneRenewalPerCall, Carts
<1>5. OneOrderPerCall
    BY <1>1, <1>2, <1>3, FS_EmptySet DEF OneOrderPerCall
<1>6. SoldFits
    <2> DEFINE f == [n \in DOMAIN orders |-> orders[n].cart.quantity]
    <2>1. DOMAIN f = {} /\ Sold = SumFunctionOnSet(f, DOMAIN f)
        BY <1>2 DEF Sold, SumFunction
    <2> HIDE DEF f
    <2>2. Sold = 0
        BY <2>1, SumEmpty
    <2> QED BY <2>2, CartAssumption DEF SoldFits
<1> QED BY <1>4, <1>5, <1>6, InitFits DEF CartBounds

-----------------------------------------------------------------------------
(***************************************************************************)
(* Steps of the pages.                                                     *)
(***************************************************************************)
LEMMA KeysGrow ==
    ASSUME NEW s \in Seq(Nat), NEW r, r = s \/ (r = Append(s, 0) /\ Len(s) < MaxPages),
           Len(s) <= MaxPages
    PROVE  /\ r \in Seq(Nat) /\ Len(r) <= MaxPages
           /\ \A p \in DOMAIN r : r[p] = 0 \/ (p \in DOMAIN s /\ r[p] = s[p])
<1>1. CASE r = s
    BY <1>1
<1>2. CASE r = Append(s, 0) /\ Len(s) < MaxPages
    <2>1. /\ Len(s) \in Nat /\ DOMAIN s = 1..Len(s) /\ r \in Seq(Nat) /\ Len(r) = Len(s) + 1
          /\ DOMAIN r = 1..(Len(s) + 1) /\ r[Len(s) + 1] = 0 /\ \A p \in 1..Len(s) : r[p] = s[p]
        BY <1>2
    <2>2. Len(r) <= MaxPages
        <3>1. \A n \in Nat : n < MaxPages => n + 1 <= MaxPages
            BY CartAssumption
        <3>2. Len(s) \in Nat /\ Len(s) < MaxPages
            BY <1>2, <2>1
        <3> QED BY <2>1, <3>1, <3>2
    <2>3. ASSUME NEW p \in DOMAIN r PROVE r[p] = 0 \/ (p \in DOMAIN s /\ r[p] = s[p])
        <3>1. CASE p \in 1..Len(s)
            BY <2>1, <3>1
        <3>2. CASE p = Len(s) + 1
            BY <2>1, <3>2
        <3> QED BY <2>1, <3>1, <3>2
    <2> QED BY <2>1, <2>2, <2>3
<1> QED BY <1>1, <1>2

\* Tabs move, keys are added, and nothing happens to calls and orders.
LEMMA PageBounds ==
    ASSUME CartBounds, CartInv', UNCHANGED <<calls, sent, orders, lastOrder>>,
           keys' = keys \/ (keys' = Append(keys, 0) /\ Len(keys) < MaxPages),
           cart' \in Carts, picks' <= MaxPicks,
           \A t \in Tabs : tab'[t].going \in {0, tab[t].going}
    PROVE  CartBounds'
<1>1. keys \in Seq(Nat) /\ Len(keys) \in Nat /\ Len(orders) \in Nat
    BY OrderNumbers DEF CartBounds, CartInv, Typed
<1>2. /\ keys' \in Seq(Nat) /\ Len(keys') <= MaxPages
      /\ \A p \in DOMAIN keys' : keys'[p] = 0 \/ (p \in DOMAIN keys /\ keys'[p] = keys[p])
    BY <1>1, KeysGrow DEF CartBounds, Limits
<1>3. Asked' = Asked
    BY SameAsked
<1>4. Limits'
    BY <1>1, <1>2, <1>3 DEF CartBounds, Limits
<1>5. Numbered'
    BY DEF CartBounds, Numbered
<1>6. Ids(calls') \subseteq Ids(calls) /\ Ids(Undecided') \subseteq Ids(Undecided)
    BY DEF Undecided
<1> QED BY <1>2, <1>4, <1>5, <1>6, CountsKept DEF CartBounds

LEMMA TabBounds ==
    ASSUME CartBounds, CartInv', NEW t \in Tabs,
           \/ Visit(t) \/ \E quantity \in 1..Capacity : goToCheckout(t, quantity)
           \/ Leave(t) \/ Continue(t) \/ Back(t) \/ Arrive(t)
    PROVE  CartBounds'
<1>1. tab \in [Tabs -> [shows : Screens, page : Nat, going : Nat]] /\ cart \in Carts
    BY DEF CartBounds, CartInv, TabsFit, Limits
<1>2. CASE Visit(t) \/ \E quantity \in 1..Capacity : goToCheckout(t, quantity)
    <2>1. /\ UNCHANGED <<calls, sent, orders, lastOrder>>
          /\ keys' = Append(keys, 0) /\ Len(keys) < MaxPages
          /\ tab' = [tab EXCEPT ![t] = [shows |-> "tickets", page |-> Len(keys) + 1, going |-> 0]]
        BY <1>2 DEF Visit, goToCheckout, OpenCheckout
    <2>2. cart' \in Carts /\ picks' <= MaxPicks
        <3>1. CASE Visit(t)
            BY <1>1, <3>1 DEF Visit, CartBounds, Limits
        <3>2. ASSUME NEW quantity \in 1..Capacity, goToCheckout(t, quantity)
              PROVE  cart' \in Carts /\ picks' <= MaxPicks
            <4>1. /\ picks < MaxPicks /\ picks' = picks + 1 /\ picks \in Nat
                  /\ cart' = [pick |-> picks', quantity |-> quantity]
                BY <3>2 DEF goToCheckout, CartBounds, CartInv, Typed
            <4>2. picks' \in 1..MaxPicks
                BY <4>1, CartAssumption
            <4> QED BY <4>1, <4>2, CartAssumption DEF Carts
        <3> QED BY <1>2, <3>1, <3>2
    <2>3. \A u \in Tabs : tab'[u].going \in {0, tab[u].going}
        BY <1>1, <2>1
    <2> QED BY <2>1, <2>2, <2>3, PageBounds
<1>3. CASE Leave(t) \/ Continue(t) \/ Back(t) \/ Arrive(t)
    <2>1. UNCHANGED <<cart, lastOrder, keys, calls, sent, picks, orders, confirmed>>
        BY <1>3 DEF Leave, Continue, Back, StepTo, Arrive
    <2>2. \A u \in Tabs : tab'[u].going \in {0, tab[u].going}
        <3>1. \/ tab' = [tab EXCEPT ![t] = [shows |-> "event", page |-> 0, going |-> 0]]
              \/ tab' = [tab EXCEPT ![t] = [shows |-> "done", page |-> 0, going |-> 0]]
              \/ \E to \in Screens : tab' = [tab EXCEPT ![t].shows = to]
            BY <1>3 DEF Leave, Continue, Back, StepTo, Arrive, Screens
        <3> QED BY <1>1, <3>1
    <2>3. cart' \in Carts /\ picks' <= MaxPicks
        BY <1>1, <2>1 DEF CartBounds, Limits
    <2> QED BY <2>1, <2>2, <2>3, PageBounds
<1> QED BY <1>2, <1>3

LEMMA SubmitBounds ==
    ASSUME CartBounds, CartInv', NEW t \in Tabs, submitOrder(t)
    PROVE  CartBounds'
<1> DEFINE new == [id |-> sent', tab |-> t, key |-> KeyOf(tab[t].page), cart |-> cart,
                   heard |-> TRUE, answer |-> "none", order |-> 0]
<1>1. /\ cart # NoCart /\ sent < MaxSends /\ sent' = sent + 1 /\ calls' = calls \cup {new}
      /\ UNCHANGED <<cart, lastOrder, tab, keys, picks, orders, confirmed>>
    BY DEF submitOrder, SendingKey
<1>2. new.id = sent' /\ new.key = KeyOf(tab[t].page) /\ new.cart = cart /\ new.order = 0
    OBVIOUS
<1> HIDE DEF new
<1>3. /\ IsFiniteSet(Ids(calls)) /\ IsFiniteSet(Ids(Undecided)) /\ sent \in Nat
      /\ Cardinality(Ids(calls)) \in 0..sent /\ Cardinality(Ids(Undecided)) \in Nat
    BY IdsCounted
<1>4. Len(orders) \in Nat /\ keys \in Seq(Nat)
    BY OrderNumbers DEF CartBounds, CartInv, Typed
<1>5. Limits'
    <2>1. \A x \in Asked' : x \in Asked \/ x.cart = cart
        BY <1>1, <1>2 DEF Asked
    <2>2. sent' <= MaxSends
        BY <1>1, <1>3, CartAssumption
    <2> QED BY <1>1, <2>1, <2>2 DEF CartBounds, Limits
<1>6. Numbered'
    <2>1. \A c \in calls : c.id \in 1..sent
        BY DEF CartBounds, Numbered
    <2> QED BY <1>1, <1>2, <1>3, <1>4, <2>1 DEF CartBounds, Numbered
<1>7. ASSUME NEW S, IsFiniteSet(S)
      PROVE  /\ Cardinality(S \cup {sent'}) <= Cardinality(S) + 1
             /\ Cardinality(S \cup {sent'}) \in Nat
    <2>1. Cardinality(S \cup {sent'}) \in {Cardinality(S), Cardinality(S) + 1}
        BY <1>7, FS_AddElement
    <2>2. Cardinality(S) \in Nat
        BY <1>7, FS_CardinalityType
    <2> QED BY <2>1, <2>2
<1>8. OneOrderPerCall'
    <2>1. Ids(Undecided') \subseteq Ids(Undecided) \cup {sent'}
        BY <1>1, <1>2 DEF Ids, Undecided
    <2>2. IsFiniteSet(Ids(Undecided) \cup {sent'})
        BY <1>3, FS_AddElement
    <2>3. Cardinality(Ids(Undecided')) <= Cardinality(Ids(Undecided) \cup {sent'})
          /\ Cardinality(Ids(Undecided')) \in Nat
        BY <2>1, <2>2, FS_Subset, FS_CardinalityType
    <2>4. Cardinality(Ids(Undecided')) <= Cardinality(Ids(Undecided)) + 1
        BY <1>3, <1>7, <2>3
    <2> QED BY <1>1, <1>3, <1>4, <2>3, <2>4 DEF CartBounds, OneOrderPerCall
<1>9. OneRenewalPerCall'
    <2>1. Ids(calls') \subseteq Ids(calls) \cup {sent'}
        BY <1>1, <1>2 DEF Ids
    <2>2. IsFiniteSet(Ids(calls) \cup {sent'})
        BY <1>3, FS_AddElement
    <2>3. Cardinality(Ids(calls')) <= Cardinality(Ids(calls) \cup {sent'})
          /\ Cardinality(Ids(calls')) \in Nat
        BY <2>1, <2>2, FS_Subset, FS_CardinalityType
    <2>4. Cardinality(Ids(calls')) <= Cardinality(Ids(calls)) + 1
        BY <1>3, <1>7, <2>3
    <2> SUFFICES ASSUME NEW p \in DOMAIN keys PROVE keys[p] + Cardinality(Ids(calls')) <= sent'
        BY <1>1 DEF OneRenewalPerCall
    <2>5. keys[p] + Cardinality(Ids(calls)) <= sent /\ keys[p] \in Nat
        BY <1>4 DEF CartBounds, OneRenewalPerCall
    <2> QED BY <1>1, <1>3, <2>3, <2>4, <2>5
<1>10. SoldFits'
    BY <1>1 DEF CartBounds, SoldFits, Sold
<1> QED BY <1>5, <1>6, <1>8, <1>9, <1>10 DEF CartBounds

-----------------------------------------------------------------------------
(***************************************************************************)
(* Steps of the calls.                                                     *)
(***************************************************************************)
\* Calls stay, end, are answered, or are not heard any more.
Continued ==
    /\ \A d \in calls' :
         /\ d.order \in 0..Len(orders')
         /\ \E c \in calls : d.id = c.id /\ d.cart = c.cart /\ (d.answer = "none" => c.answer = "none")
    /\ \A d, e \in calls' : d.id = e.id => d = e

LEMMA ContinuedFits ==
    ASSUME CartBounds, Continued, sent' = sent
    PROVE  /\ Numbered' /\ Ids(calls') \subseteq Ids(calls)
           /\ Ids(Undecided') \subseteq Ids(Undecided)
<1>1. Ids(calls') \subseteq Ids(calls)
    BY DEF Continued, Ids
<1>2. Ids(Undecided') \subseteq Ids(Undecided)
    <2> SUFFICES ASSUME NEW d \in calls', d.answer = "none" PROVE d.id \in Ids(Undecided)
        BY DEF Ids, Undecided
    <2> QED BY DEF Continued, Ids, Undecided
<1>3. Numbered'
    BY DEF CartBounds, Numbered, Continued
<1> QED BY <1>1, <1>2, <1>3

LEMMA CallsAskFor == \A c \in calls : \E y \in Asked : y.cart = c.cart
<1> SUFFICES ASSUME NEW c \in calls PROVE \E y \in Asked : y.cart = c.cart
    OBVIOUS
<1> DEFINE y == [key |-> c.key, cart |-> c.cart]
<1>1. y \in Asked /\ y.cart = c.cart
    BY DEF Asked
<1> QED BY <1>1

\* Nothing is ordered and no tab is told of an order.
LEMMA ContinuedBounds ==
    ASSUME CartBounds, CartInv', Continued, UNCHANGED <<cart, lastOrder, sent, picks, orders>>,
           keys' = keys \/ (keys' = Append(keys, 0) /\ Len(keys) < MaxPages),
           \A t \in Tabs : tab'[t].going \in {0, tab[t].going}
    PROVE  CartBounds'
<1>1. keys \in Seq(Nat) /\ Len(keys) \in Nat /\ Len(orders) \in Nat
    BY OrderNumbers DEF CartBounds, CartInv, Typed
<1>2. /\ keys' \in Seq(Nat) /\ Len(keys') <= MaxPages
      /\ \A p \in DOMAIN keys' : keys'[p] = 0 \/ (p \in DOMAIN keys /\ keys'[p] = keys[p])
    BY <1>1, KeysGrow DEF CartBounds, Limits
<1>3. \A x \in Asked' : \E y \in Asked : x.cart = y.cart
    <2>1. \A d \in calls' : \E y \in Asked : d.cart = y.cart
        BY CallsAskFor DEF Continued
    <2>2. \A n \in DOMAIN orders : orders[n] \in Asked
        BY DEF Asked
    <2>3. \A x \in Asked' : (\E d \in calls' : x.cart = d.cart) \/ \E n \in DOMAIN orders : x = orders[n]
        BY DEF Asked
    <2> QED BY <2>1, <2>2, <2>3
<1>4. Limits'
    BY <1>1, <1>2, <1>3 DEF CartBounds, Limits
<1>5. /\ Numbered' /\ Ids(calls') \subseteq Ids(calls) /\ Ids(Undecided') \subseteq Ids(Undecided)
    BY ContinuedFits
<1> QED BY <1>2, <1>4, <1>5, CountsKept DEF CartBounds

LEMMA AnswerBounds ==
    ASSUME CartBounds, CartInv', NEW c \in calls, Replay(c) \/ Refuse(c),
           UNCHANGED <<cart, lastOrder, tab, keys, sent, picks, confirmed>>
    PROVE  CartBounds'
<1>1. c \in CallNames /\ DOMAIN orders = 1..Len(orders) /\ Len(orders) \in Nat
    BY CallsAsked, OrderNumbers DEF CartBounds
<1>2. PICK d \in CallNames :
        /\ calls' = (calls \ {c}) \cup {d} /\ d.id = c.id /\ d.cart = c.cart /\ d.answer # "none"
        /\ d.order \in 0..Len(orders)
    <2>1. ASSUME NEW n \in OrderOf(c.key), Becomes(c, [c EXCEPT !.answer = "order", !.order = n])
          PROVE  \E d \in CallNames :
                    /\ calls' = (calls \ {c}) \cup {d} /\ d.id = c.id /\ d.cart = c.cart
                    /\ d.answer # "none" /\ d.order \in 0..Len(orders)
        <3> DEFINE d == [c EXCEPT !.answer = "order", !.order = n]
        <3>1. n \in 1..Len(orders) /\ n \in Nat
            BY <1>1 DEF OrderOf
        <3>2. /\ d \in CallNames /\ d.id = c.id /\ d.cart = c.cart /\ d.answer = "order" /\ d.order = n
              /\ calls' = (calls \ {c}) \cup {d}
            BY <1>1, <2>1, <3>1 DEF CallNames, Becomes
        <3> HIDE DEF d
        <3>3. d.order \in 0..Len(orders)
            BY <1>1, <3>1, <3>2
        <3> QED BY <3>2, <3>3
    <2>2. ASSUME Becomes(c, [c EXCEPT !.answer = "refused"])
          PROVE  \E d \in CallNames :
                    /\ calls' = (calls \ {c}) \cup {d} /\ d.id = c.id /\ d.cart = c.cart
                    /\ d.answer # "none" /\ d.order \in 0..Len(orders)
        <3> DEFINE d == [c EXCEPT !.answer = "refused"]
        <3>1. /\ d \in CallNames /\ d.id = c.id /\ d.cart = c.cart /\ d.answer = "refused"
              /\ d.order = c.order /\ calls' = (calls \ {c}) \cup {d}
            BY <1>1, <2>2 DEF CallNames, Becomes
        <3>2. c.order \in 0..Len(orders)
            BY DEF CartBounds, Numbered
        <3> HIDE DEF d
        <3> QED BY <3>1, <3>2
    <2> QED BY <2>1, <2>2 DEF Replay, Refuse
<1>3. orders' = orders
    BY DEF Replay, Refuse
<1>4. Continued
    BY <1>2, <1>3 DEF Continued, CartBounds, Numbered
<1>5. \A t \in Tabs : tab'[t].going \in {0, tab[t].going}
    OBVIOUS
<1> QED BY <1>3, <1>4, <1>5, ContinuedBounds

LEMMA LoseBounds ==
    ASSUME CartBounds, CartInv', NEW c \in calls, Lose(c) \/ Failed(c)
    PROVE  CartBounds'
<1>1. UNCHANGED <<cart, lastOrder, tab, keys, sent, picks, orders, confirmed>>
    BY DEF Lose, Failed
<1>2. \/ calls' = calls \ {c}
      \/ calls' = (calls \ {c}) \cup Unheard(c)
    BY DEF Lose, Failed
<1>3. \A d \in Unheard(c) : d.id = c.id /\ d.cart = c.cart /\ d.order = c.order /\ c.answer = "none"
    <2>1. c \in CallNames
        BY CallsAsked DEF CartBounds
    <2> QED BY <2>1 DEF Unheard, CallNames
<1>4. \A d, e \in Unheard(c) : d = e
    BY DEF Unheard
<1>5. Continued
    BY <1>1, <1>2, <1>3, <1>4 DEF Continued, CartBounds, Numbered
<1>6. \A t \in Tabs : tab'[t].going \in {0, tab[t].going}
    BY <1>1
<1> QED BY <1>1, <1>5, <1>6, ContinuedBounds

LEMMA ReloadBounds ==
    ASSUME CartBounds, CartInv', NEW t \in Tabs, Reload(t)
    PROVE  CartBounds'
<1>1. UNCHANGED <<cart, lastOrder, sent, picks, orders, confirmed>>
    BY DEF Reload
<1>2. \A c \in calls :
        /\ c \in CallNames
        /\ \A d \in Unheard(c) :
             /\ d.id = c.id /\ d.cart = c.cart /\ d.order = c.order /\ c.answer = "none"
             /\ ~c.heard => d = c
    <2> SUFFICES ASSUME NEW c \in calls, NEW d \in Unheard(c)
                 PROVE  /\ d.id = c.id /\ d.cart = c.cart /\ d.order = c.order /\ c.answer = "none"
                        /\ ~c.heard => d = c
        BY CallsAsked DEF CartBounds
    <2>1. c \in CallNames /\ d = [c EXCEPT !.heard = FALSE] /\ c.answer = "none"
        BY CallsAsked DEF CartBounds, Unheard
    <2>2. d.id = c.id /\ d.cart = c.cart /\ d.order = c.order
        BY <2>1 DEF CallNames
    <2>3. ASSUME ~c.heard PROVE d = c
        <3>1. c.heard = FALSE
            BY <2>1, <2>3 DEF CallNames
        <3> QED BY <2>1, <3>1 DEF CallNames
    <2> QED BY <2>1, <2>2, <2>3
<1>3. \A c \in calls : \A d, e \in Unheard(c) : d = e
    BY DEF Unheard
<1>4. \A d \in calls' :
        \/ d \in calls /\ (d.tab # t \/ ~d.heard)
        \/ \E c \in calls : c.tab = t /\ d \in Unheard(c)
    BY DEF Reload
<1>5. \A d, e \in calls' : d.id = e.id => d = e
    <2> SUFFICES ASSUME NEW d \in calls', NEW e \in calls', d.id = e.id PROVE d = e
        OBVIOUS
    <2>1. \A b, c \in calls : b.id = c.id => b = c
        BY DEF CartBounds, Numbered
    <2> QED BY <1>2, <1>3, <1>4, <2>1
<1>6. Continued
    BY <1>1, <1>2, <1>4, <1>5 DEF Continued, CartBounds, Numbered
<1>7. /\ keys' = keys \/ (keys' = Append(keys, 0) /\ Len(keys) < MaxPages)
      /\ \A u \in Tabs : tab'[u].going \in {0, tab[u].going}
    <2>1. tab \in [Tabs -> [shows : Screens, page : Nat, going : Nat]]
        BY DEF CartBounds, CartInv, TabsFit
    <2> QED BY <2>1 DEF Reload, OpenCheckout
<1> QED BY <1>1, <1>6, <1>7, ContinuedBounds

\* The answer that the page hears: one call less, one renewal more.
LEMMA SucceedBounds ==
    ASSUME CartBounds, CartInv', NEW c \in calls, Succeed(c)
    PROVE  CartBounds'
<1> DEFINE p == c.key.page
<1>1. /\ c \in CallNames /\ p \in DOMAIN keys /\ keys \in Seq(Nat)
      /\ c.order \in DOMAIN orders /\ DOMAIN orders = 1..Len(orders) /\ Len(orders) \in Nat
    BY CallsAsked, OrderNumbers DEF Succeed, CartBounds, CartInv, Typed, AnswersFit
<1>2. /\ lastOrder' = c.order /\ cart' = NoCart /\ keys' = [keys EXCEPT ![p] = @ + 1]
      /\ tab' = [tab EXCEPT ![c.tab].going = c.order] /\ calls' = calls \ {c}
      /\ UNCHANGED <<sent, picks, orders>>
    BY DEF Succeed, Renewed
<1> HIDE DEF p
<1>3. Limits'
    <2>1. \A t \in Tabs : tab'[t].going \in {tab[t].going, c.order}
        <3>1. tab \in [Tabs -> [shows : Screens, page : Nat, going : Nat]] /\ c.tab \in Tabs
            BY <1>1 DEF CartBounds, CartInv, TabsFit, CallNames
        <3> QED BY <1>2, <3>1
    <2>2. Asked' \subseteq Asked
        BY <1>2 DEF Asked
    <2>3. Len(keys') = Len(keys)
        BY <1>1, <1>2
    <2> QED BY <1>1, <1>2, <2>1, <2>2, <2>3 DEF CartBounds, Limits, Carts
<1>4. Numbered'
    BY <1>2 DEF CartBounds, Numbered
<1>5. /\ IsFiniteSet(Ids(calls)) /\ IsFiniteSet(Ids(Undecided)) /\ sent \in Nat
      /\ Cardinality(Ids(calls)) \in 0..sent /\ Cardinality(Ids(Undecided)) \in Nat
    BY IdsCounted
<1>6. OneOrderPerCall'
    <2>1. Ids(Undecided') \subseteq Ids(Undecided)
        BY <1>2 DEF Ids, Undecided
    <2>2. /\ Cardinality(Ids(Undecided')) <= Cardinality(Ids(Undecided))
          /\ Cardinality(Ids(Undecided')) \in Nat
        BY <1>5, <2>1, FS_Subset, FS_CardinalityType
    <2> QED BY <1>1, <1>2, <1>5, <2>2 DEF CartBounds, OneOrderPerCall
<1>7. OneRenewalPerCall'
    <2>1. Ids(calls') = Ids(calls) \ {c.id} /\ c.id \in Ids(calls)
        BY <1>2 DEF Ids, CartBounds, Numbered
    <2>2. Cardinality(Ids(calls) \ {c.id}) = Cardinality(Ids(calls)) - 1
        BY <1>5, <2>1, FS_RemoveElement
    <2>3. Cardinality(Ids(calls')) = Cardinality(Ids(calls)) - 1
        BY <2>1, <2>2, Zenon
    <2> SUFFICES ASSUME NEW q \in DOMAIN keys PROVE keys'[q] + Cardinality(Ids(calls')) <= sent'
        BY <1>1, <1>2 DEF OneRenewalPerCall
    <2>4. keys[q] + Cardinality(Ids(calls)) <= sent /\ keys[q] \in Nat
        BY <1>1 DEF CartBounds, OneRenewalPerCall
    <2>5. keys'[q] = keys[q] \/ keys'[q] = keys[q] + 1
        BY <1>1, <1>2
    <2> QED BY <1>2, <1>5, <2>3, <2>4, <2>5
<1>8. SoldFits'
    BY <1>2 DEF CartBounds, SoldFits, Sold
<1> QED BY <1>3, <1>4, <1>6, <1>7, <1>8 DEF CartBounds

\* One order more.
LEMMA SoldAppend ==
    ASSUME CartInv, NEW o \in [key : KeyNames, cart : Picked], orders' = Append(orders, o)
    PROVE  Sold' = Sold + o.cart.quantity
<1> DEFINE S == [key : KeyNames, cart : Picked]
           N == Len(orders)
           f == [n \in DOMAIN orders |-> orders[n].cart.quantity]
           g == [n \in DOMAIN orders' |-> orders'[n].cart.quantity]
<1>1. orders \in Seq(S) /\ N \in Nat /\ DOMAIN orders = 1..N
    BY OrderNumbers
<1>2. \A n \in 1..N : orders[n].cart.quantity \in Nat
    <2> SUFFICES ASSUME NEW n \in 1..N PROVE orders[n].cart.quantity \in Nat
        OBVIOUS
    <2>1. orders[n] \in [key : KeyNames, cart : Picked]
        BY <1>1, OrdersAsked
    <2> QED BY <2>1 DEF Picked
<1>3. o \in S /\ o.cart.quantity \in Nat
    BY DEF Picked
<1> HIDE DEF S
<1>4. /\ Len(orders') = N + 1 /\ DOMAIN orders' = (1..N) \cup {N + 1} /\ N + 1 \notin 1..N
      /\ orders'[N + 1] = o /\ \A n \in 1..N : orders'[n] = orders[n]
    BY <1>1, <1>3
<1>5. /\ DOMAIN f = 1..N /\ DOMAIN g = (1..N) \cup {N + 1} /\ Natural(f, 1..N)
      /\ Natural(g, (1..N) \cup {N + 1}) /\ g[N + 1] = o.cart.quantity
      /\ \A n \in 1..N : g[n] = f[n]
    BY <1>1, <1>2, <1>3, <1>4 DEF Natural
<1>6. Sold = SumFunctionOnSet(f, DOMAIN f) /\ Sold' = SumFunctionOnSet(g, DOMAIN g)
    BY DEF Sold, SumFunction
<1> HIDE DEF f, g
<1>7. IsFiniteSet(1..N)
    BY <1>1, FS_Interval
<1>8. SumFunctionOnSet(g, (1..N) \cup {N + 1}) = g[N + 1] + SumFunctionOnSet(g, 1..N)
    BY <1>4, <1>5, <1>7, SumAdd
<1>9. SumFunctionOnSet(g, 1..N) = SumFunctionOnSet(f, 1..N)
    BY <1>5, <1>7, SumAgree
<1>10. SumFunctionOnSet(f, 1..N) \in Nat
    BY <1>5, <1>7, SumType
<1>11. Sold = SumFunctionOnSet(f, 1..N) /\ Sold' = SumFunctionOnSet(g, (1..N) \cup {N + 1})
    BY <1>5, <1>6, Zenon
<1> QED BY <1>3, <1>5, <1>8, <1>9, <1>10, <1>11

\* A call is decided, and its order is one more.
LEMMA AcceptBounds ==
    ASSUME CartBounds, CartInv', NEW c \in calls, c.answer = "none", Accept(c),
           UNCHANGED <<cart, lastOrder, tab, keys, sent, picks, confirmed>>
    PROVE  CartBounds'
<1> DEFINE S == [key : KeyNames, cart : Picked]
           N == Len(orders)
<1>1. /\ c \in CallNames /\ orders \in Seq(S) /\ N \in Nat /\ DOMAIN orders = 1..N
      /\ keys \in Seq(Nat)
    BY CallsAsked, OrderNumbers DEF CartBounds, CartInv, Typed
<1>2. PICK o \in S : o.cart = c.cart /\ o.key = c.key /\ orders' = Append(orders, o)
    <2> DEFINE o == [key |-> c.key, cart |-> c.cart]
    <2>1. o \in S /\ o.key = c.key /\ o.cart = c.cart /\ orders' = Append(orders, o)
        BY <1>1 DEF CallNames, Accept
    <2> QED BY <2>1
<1>3. /\ Len(orders') = N + 1 /\ DOMAIN orders' = 1..(N + 1)
      /\ orders'[N + 1] = o /\ \A n \in DOMAIN orders : orders'[n] = orders[n]
    <2> HIDE DEF S
    <2> QED BY <1>1, <1>2
<1>4. PICK d \in CallNames :
        /\ calls' = (calls \ {c}) \cup {d} /\ d.id = c.id /\ d.key = c.key /\ d.cart = c.cart
        /\ d.answer = "order" /\ d.order = N + 1
    <2> DEFINE d == [c EXCEPT !.answer = "order", !.order = N + 1]
    <2> N + 1 \in Nat
        BY <1>1
    <2> HIDE DEF N
    <2>1. /\ d \in CallNames /\ d.id = c.id /\ d.key = c.key /\ d.cart = c.cart
          /\ d.answer = "order" /\ d.order = N + 1
        BY <1>1 DEF CallNames
    <2>2. calls' = (calls \ {c}) \cup {d}
        BY <1>3 DEF Accept, Becomes
    <2> HIDE DEF d
    <2> QED BY <2>1, <2>2
<1>5. \A e \in calls : e.id \in 1..sent /\ e.order \in 0..N
    BY DEF CartBounds, Numbered
<1>6. Continued
    <2>1. \A e \in calls' : e.order \in 0..Len(orders')
        BY <1>1, <1>3, <1>4, <1>5
    <2> QED BY <1>4, <2>1 DEF Continued, CartBounds, Numbered
<1>7. /\ Numbered' /\ Ids(calls') \subseteq Ids(calls) /\ Ids(Undecided') \subseteq Ids(Undecided)
    BY <1>6, ContinuedFits
<1>8. Limits'
    <2>1. \A x \in Asked' : \E y \in Asked : x.cart = y.cart
        <3>1. \A n \in DOMAIN orders' : orders'[n].cart = c.cart \/ orders'[n] \in Asked
            BY <1>1, <1>2, <1>3 DEF Asked
        <3>2. \A e \in calls' : \E b \in calls : e.cart = b.cart
            BY <1>6 DEF Continued
        <3>3. \A b \in calls : \E y \in Asked : y.cart = b.cart
            BY CallsAskFor
        <3>4. ASSUME NEW x \in Asked', NEW e \in calls', x = [key |-> e.key, cart |-> e.cart]
              PROVE  \E y \in Asked : x.cart = y.cart
            BY <3>2, <3>3, <3>4
        <3>5. ASSUME NEW n \in DOMAIN orders' PROVE \E y \in Asked : orders'[n].cart = y.cart
            BY <3>1, <3>3
        <3> QED BY <3>4, <3>5 DEF Asked
    <2>2. lastOrder \in 0..(N + 1) /\ \A t \in Tabs : tab[t].going \in 0..(N + 1)
        BY <1>1 DEF CartBounds, Limits
    <2> QED BY <1>3, <2>1, <2>2 DEF CartBounds, Limits
<1>9. /\ IsFiniteSet(Ids(calls)) /\ IsFiniteSet(Ids(Undecided)) /\ sent \in Nat
      /\ Cardinality(Ids(calls)) \in 0..sent /\ Cardinality(Ids(Undecided)) \in Nat
    BY IdsCounted
<1>10. OneOrderPerCall'
    <2>1. c.id \in Ids(Undecided)
        BY DEF Ids, Undecided
    <2>2. Ids(Undecided') \subseteq Ids(Undecided) \ {c.id}
        <3>1. \A e \in calls' : e.answer = "none" => e \in calls \ {c}
            BY <1>4
        <3> QED BY <3>1 DEF Ids, Undecided, CartBounds, Numbered
    <2>3. /\ Cardinality(Ids(Undecided) \ {c.id}) = Cardinality(Ids(Undecided)) - 1
          /\ IsFiniteSet(Ids(Undecided) \ {c.id})
        BY <1>9, <2>1, FS_RemoveElement
    <2>4. /\ Cardinality(Ids(Undecided')) <= Cardinality(Ids(Undecided) \ {c.id})
          /\ Cardinality(Ids(Undecided')) \in Nat
        BY <2>2, <2>3, FS_Subset, FS_CardinalityType
    <2> QED BY <1>1, <1>3, <1>9, <2>3, <2>4 DEF CartBounds, OneOrderPerCall
<1>11. OneRenewalPerCall'
    <2>1. /\ Cardinality(Ids(calls')) <= Cardinality(Ids(calls)) /\ Cardinality(Ids(calls')) \in Nat
        BY <1>7, <1>9, FS_Subset, FS_CardinalityType
    <2> SUFFICES ASSUME NEW p \in DOMAIN keys PROVE keys[p] + Cardinality(Ids(calls')) <= sent
        BY DEF OneRenewalPerCall
    <2>2. keys[p] + Cardinality(Ids(calls)) <= sent /\ keys[p] \in Nat
        BY <1>1 DEF CartBounds, OneRenewalPerCall
    <2> QED BY <1>9, <2>1, <2>2
<1>12. SoldFits'
    <2>1. Sold' = Sold + c.cart.quantity
        BY <1>2, SoldAppend DEF CartBounds
    <2> QED BY <2>1 DEF Accept, SoldFits
<1> QED BY <1>7, <1>8, <1>10, <1>11, <1>12 DEF CartBounds

LEMMA NextBounds == CartBounds /\ [Next]_vars => CartBounds'
<1> SUFFICES ASSUME CartBounds, [Next]_vars PROVE CartBounds'
    OBVIOUS
<1>1. CartInv'
    BY NextPreserves DEF CartBounds
<1>2. ASSUME NEW t \in Tabs,
             \/ Visit(t) \/ \E quantity \in 1..Capacity : goToCheckout(t, quantity)
             \/ Leave(t) \/ Continue(t) \/ Back(t) \/ Arrive(t)
      PROVE  CartBounds'
    BY <1>1, <1>2, TabBounds
<1>3. ASSUME NEW t \in Tabs, submitOrder(t) PROVE CartBounds'
    BY <1>1, <1>3, SubmitBounds
<1>4. ASSUME NEW t \in Tabs, Reload(t) PROVE CartBounds'
    BY <1>1, <1>4, ReloadBounds
<1>5. ASSUME NEW c \in calls, Serve(c) PROVE CartBounds'
    <2>1. /\ Replay(c) \/ Accept(c) \/ Refuse(c)
          /\ c.answer = "none"
          /\ UNCHANGED <<cart, lastOrder, tab, keys, sent, picks, confirmed>>
        BY <1>5 DEF Serve
    <2> QED BY <1>1, <2>1, AnswerBounds, AcceptBounds
<1>6. ASSUME NEW c \in calls, Lose(c) \/ Failed(c) PROVE CartBounds'
    BY <1>1, <1>6, LoseBounds
<1>7. ASSUME NEW c \in calls, Succeed(c) PROVE CartBounds'
    BY <1>1, <1>7, SucceedBounds
<1>8. CASE UNCHANGED vars
    <2>1. /\ UNCHANGED <<calls, sent, orders, lastOrder, keys, cart, picks, tab>>
        BY <1>8 DEF vars
    <2>2. cart' \in Carts /\ picks' <= MaxPicks
        BY <2>1 DEF CartBounds, Limits
    <2> QED BY <1>1, <2>1, <2>2, PageBounds
<1> QED BY <1>2, <1>3, <1>4, <1>5, <1>6, <1>7, <1>8 DEF Next

LEMMA BoundsImply == CartBounds => TypeOK
<1> SUFFICES ASSUME CartBounds PROVE TypeOK
    OBVIOUS
<1>1. /\ DOMAIN orders = 1..Len(orders) /\ Len(orders) \in Nat /\ keys \in Seq(Nat)
      /\ Len(keys) \in Nat /\ DOMAIN keys = 1..Len(keys) /\ sent \in 0..MaxSends /\ picks \in 0..MaxPicks
    BY OrderNumbers, CartAssumption DEF CartBounds, CartInv, Typed, Limits
<1>2. Cardinality(Ids(Undecided)) \in Nat /\ Cardinality(Ids(calls)) \in Nat
    BY IdsCounted
<1>3. Len(orders) <= MaxSends
    BY <1>1, <1>2, CartAssumption DEF CartBounds, OneOrderPerCall
<1>4. \A p \in DOMAIN keys : p \in 1..MaxPages /\ keys[p] \in 0..MaxSends
    <2> SUFFICES ASSUME NEW p \in DOMAIN keys PROVE p \in 1..MaxPages /\ keys[p] \in 0..MaxSends
        OBVIOUS
    <2>1. keys[p] \in Nat /\ keys[p] + Cardinality(Ids(calls)) <= sent /\ Len(keys) <= MaxPages
        BY <1>1 DEF CartBounds, OneRenewalPerCall, Limits
    <2> QED BY <1>1, <1>2, <2>1, CartAssumption
<1>5. \A x \in Asked : x.key \in Keys /\ x.cart \in Carts \ {NoCart}
    <2> SUFFICES ASSUME NEW x \in Asked PROVE x.key \in Keys /\ x.cart \in Carts \ {NoCart}
        OBVIOUS
    <2>1. x.key \in KeyNames
        BY AskedTyped DEF CartBounds, CartInv
    <2>2. x.key.page \in DOMAIN keys /\ x.key.renewed <= keys[x.key.page]
        BY DEF CartBounds, CartInv, AskedFits
    <2>3. x.key.page \in 1..MaxPages /\ x.key.renewed \in 0..MaxSends
        BY <1>4, <2>1, <2>2, CartAssumption DEF KeyNames
    <2>4. x.key \in Keys
        BY <2>1, <2>3 DEF KeyNames, Keys
    <2> QED BY <2>4 DEF CartBounds, Limits
<1>6. calls \subseteq Calls
    <2> SUFFICES ASSUME NEW c \in calls PROVE c \in Calls
        OBVIOUS
    <2>1. c \in CallNames
        BY CallsAsked DEF CartBounds
    <2>2. c.key \in Keys /\ c.cart \in Carts \ {NoCart}
        <3> DEFINE x == [key |-> c.key, cart |-> c.cart]
        <3>1. x \in Asked /\ x.key = c.key /\ x.cart = c.cart
            BY DEF Asked
        <3> HIDE DEF x
        <3> QED BY <1>5, <3>1
    <2>3. c.id \in 1..MaxSends /\ c.order \in 0..Len(orders)
        BY <1>1, CartAssumption DEF CartBounds, Numbered
    <2> QED BY <2>1, <2>2, <2>3 DEF CallNames, Calls
<1>7. orders \in Seq([key : Keys, cart : Carts \ {NoCart}])
    <2> DEFINE T == [key : Keys, cart : Carts \ {NoCart}]
    <2>1. \A n \in 1..Len(orders) : orders[n] \in T
        <3> SUFFICES ASSUME NEW n \in 1..Len(orders) PROVE orders[n] \in T
            OBVIOUS
        <3>1. orders[n] \in Asked /\ orders[n] \in [key : KeyNames, cart : Picked]
            BY <1>1, OrdersAsked DEF Asked, CartBounds
        <3> QED BY <1>5, <3>1
    <2>2. orders \in Seq([key : KeyNames, cart : Picked])
        BY OrderNumbers DEF CartBounds
    <2> HIDE DEF T
    <2>3. orders = [n \in 1..Len(orders) |-> orders[n]]
        BY <2>2
    <2>4. orders \in Seq(T)
        BY <1>1, <2>1, <2>3, SeqDef
    <2> QED BY <2>4 DEF T
<1>8. tab \in [Tabs -> [shows : Screens, page : 0..Len(keys), going : 0..Len(orders)]]
    <2> DEFINE R == [shows : Screens, page : 0..Len(keys), going : 0..Len(orders)]
    <2>1. ASSUME NEW t \in Tabs PROVE tab[t] \in R
        <3>1. tab[t] \in [shows : Screens, page : Nat, going : Nat]
            BY DEF CartBounds, CartInv, TabsFit
        <3>2. tab[t].page \in 0..Len(keys) /\ tab[t].going \in 0..Len(orders)
            BY DEF CartBounds, CartInv, TabsFit, Limits
        <3> QED BY <3>1, <3>2
    <2>2. tab = [t \in Tabs |-> tab[t]]
        BY DEF CartBounds, CartInv, TabsFit
    <2> HIDE DEF R
    <2>3. tab \in [Tabs -> R]
        BY <2>1, <2>2
    <2> QED BY <2>3 DEF R
<1>9. confirmed \subseteq DOMAIN orders
    BY DEF CartBounds, CartInv, ConfirmedFits
<1> QED BY <1>1, <1>3, <1>6, <1>7, <1>8, <1>9 DEF TypeOK, CartBounds, Limits, SoldFits

-----------------------------------------------------------------------------
\* The invariant holds in every reachable state, for any number of tabs, pages, carts
\* and calls.
THEOREM CartInductive == Spec => []CartInv
<1>1. Init => CartInv
    BY InitFits
<1>2. CartInv /\ [Next]_vars => CartInv'
    BY NextPreserves
<1> QED BY <1>1, <1>2, PTL DEF Spec

\* PageBuysOnce: a checkout page never has a cart ordered twice, however its calls are
\* lost, repeated, or overtaken, and whatever other tabs do to the cart.
THEOREM PagesBuyOnce == Spec => []PageBuysOnce
<1>1. CartInv => PageBuysOnce
    BY InvImplies
<1> QED BY <1>1, CartInductive, PTL

\* AnsweredAfresh: a page is never answered with an order that it has confirmed.
THEOREM AnswersAreFresh == Spec => []AnsweredAfresh
<1>1. CartInv => AnsweredAfresh
    BY InvImplies
<1> QED BY <1>1, CartInductive, PTL

LEMMA BoundsInductive == Spec => []CartBounds
<1>1. Init => CartBounds
    BY InitBounds
<1>2. CartBounds /\ [Next]_vars => CartBounds'
    BY NextBounds
<1> QED BY <1>1, <1>2, PTL DEF Spec

\* TypeOK: no more is sold than there is, and there is no more than one order for a call
\* of POST /order, nor one renewal of a key.
THEOREM CartTypeCorrect == Spec => []TypeOK
<1>1. CartBounds => TypeOK
    BY BoundsImply
<1> QED BY <1>1, BoundsInductive, PTL

=============================================================================
