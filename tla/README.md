# Ticket-Ja: a TLA+ model of the system

Ticket-Ja sells event tickets: a NestJS server over one PostgreSQL database
(Prisma), a response cache, and a Nuxt client. This directory models the parts of it
where requests, tabs and statements meet. TLC checks small instances; TLAPS proves the
invariants for every instance.

## 1. The system

| Component | State | Operations that change it | Interacts through | Modelled in |
|---|---|---|---|---|
| Checkout (`src/order/order.service.ts`) | orders, items, tickets, payments | `create` | category stock, coupon uses, the unique key | `Checkout`, `BoxOffice` |
| Order pricing (same file) | none | subtotal, fee, discount | called by `create` | `Pricing` |
| Payment settlement (`src/payment`) | order, payment and ticket status, stock | `markOrderPaid`, `releaseOrder` | called by admin and cron | `Settlement`, `Reservation` |
| Reservation expiry (`src/order/order-expiration`) | a list in memory for each tick | `expirePendingReservations` | calls `releaseOrder` | `Settlement` |
| Administration (`src/admin`) | organizer applications | `confirmPayment`, `rejectPayment`, approve, reject | calls settlement | `Settlement`, `Accounts` |
| Tickets (`src/ticket`) | ticket status | `markAsUsed` | races with `releaseOrder` | `Settlement` |
| Coupons (`src/coupon`) | coupon rows | create, update, delete | read and incremented by `create` | `Checkout`, `Catalog`, `Console` |
| Events, categories, venues | catalogue rows, event status, stock, capacity | create, update, delete, `updateStatus` | read and decremented by `create` | `Catalog`, `Console` |
| Validators (`src/common/validators`) | none | dates, sales window | called by events and categories | `Console` |
| Sessions (`src/auth`) | refresh tokens | login, refresh, logout, expiry | users | `Accounts`, `Session` |
| Organizer applications (`src/auth`, `src/admin`) | application, profile, role | submit, approve, reject | users | `Accounts` |
| Users (`src/user`) | user rows | create, delete | orders by foreign key | `Accounts` |
| Access control (`src/auth/guards`, `pipes`) | none | none | reads the token and the user | `Access`, `Accounts` |
| Web client (`client/app`) | cart, idempotency key, tokens, event form | submit, retry, refresh, save | HTTP, local storage, cookies | `Cart`, `Session`, `Console`, `Access` |
| Platform (`src/main.ts`, filters, health, rate limits) | none of the program's own | none | wraps the controllers | not modelled |

What makes each hard, and what must hold:

- **Checkout.** Handlers of one process and of several interleave at every `await`,
  over row locks. It must be atomic, never sell stock twice, lock in one order, end,
  make one order per key, give all senders of a key that order, and count coupon uses.
- **Settlement and expiry.** `releaseOrder` and `markOrderPaid` read a status without
  a lock and then act on it. Two administrators, and ticks of the job that overlap,
  may act on one order. What one commit changes must stay together, an order must be
  settled once, stock must come back once, and every reservation must end.
- **Check-in.** Two gates may read one ticket, while its order is being canceled.
- **Catalogue.** Every request reads, checks and writes in statements of their own, with
  no transaction. Nothing may lose the rows it refers to, the venue's capacity must
  hold, and a canceled event must stay canceled.
- **Accounts.** A login and a deletion, an approval and a resubmission, a refresh and a
  logout overlap; two tokens of one second are one string. Role and profile must agree,
  what is deleted must leave nothing, and a revoked token must stay revoked.
- **Client, session.** Tabs share cookies, and every `await` of `refreshUser` is a point
  where another tab signs in or out. What is stored must be of one sign-in.
- **Client, cart.** A key must outlive a lost response, and not a new cart; answers come
  late, after the page was left or reloaded.
- **Console.** The form reads a cached view and saves in two requests; each update is
  checked against what it gives and not against what it keeps.

`PROJECT.json` lists every hazard at its line.

## 2. Modules

| Module | What it is |
|---|---|
| `BoxOffice` | what `POST /order` promises: a whole order in one step, or nothing |
| `Checkout` | `OrderService.create`, one action for each statement it sends |
| `Reservation` | the life of an order as `docs/PAYMENTS.md` states it |
| `Settlement` | `markOrderPaid`, `releaseOrder`, the expiry job and `markAsUsed` |
| `Catalog` | the requests about events, categories, venues and coupons, against sales |
| `Accounts` | registration, sessions, applications, reviews and deletion of accounts |
| `Access` | the routes with their guards and DTOs, the pages with their middleware and the requests they make, as tables |
| `Session` | the auth store of each tab, the cookies they share, `refreshUser`; extends `Access` |
| `Cart` | the stored cart, the checkout page's key, the calls of `POST /order` |
| `Pricing` | the amounts of an order, in cents |
| `Console` | the owner's event form, the dates, the sales window and a coupon; extends `Pricing` |
| `MC*` | the instances that TLC checks |
| `*Proofs` | the theorems, one module for each of `Checkout`, `Settlement`, `Catalog`, `Accounts`, `Session`, `Cart`, `Console` |
| `SumTheorems` | sums of natural numbers over a finite set: the stock, capacity and sales of the other proofs |

### How the database is modelled

A Prisma `$transaction` runs at READ COMMITTED. A read sees what is committed and
takes no lock. An `UPDATE` waits until no other transaction has written the row, then
evaluates its WHERE on the row as committed, and keeps the row. An `INSERT` waits for
an uncommitted row with its unique key. In `Checkout` and `Settlement` one variable,
`holds`, serves as the lock table and as the log of uncommitted writes; the commit
applies the log in one step and a rollback drops it. A request never writes one row
twice, so each logged row has one effect. In `Catalog` and `Accounts` a request is a
list of statements (`Statements`), and `task[w]` is how far a worker has come and what
it has read; single statements commit by themselves, a write that would break a foreign
key or a unique column is refused, and a transaction is one step, its commit: the rows
and keys its checks rest on are locked until then.

### Checkout

`pc` is the statement a request is about to run, `seen` the `maxUses` it read, `given`
what it was answered. `Lookup`, `Validate`, `Reserve`/`SoldOut`, `ReadCoupon`,
`Redeem`, `Insert`/`DuplicateKey`, `Recover`, `Commit` and `Respond` are the
statements of `create` in order. `Validate` is one step: its reads take no lock and
its checks are on what they returned. `Fail` is the 5 s limit, a lost connection or a
restart, at any point, also after the commit and before the response. `CloseSales` and
`EditCoupon` are the other writers of what a checkout reads.

Abstracted: names, prices, codes and times. An event is in `selling` while it is
published, has not begun and its categories are in their sales window. A coupon is
`active` while it is active and not expired. A code that names no coupon and a
category that does not exist are refused like an inadmissible request, and are left
out. A category id is a number, and `<` is the order of `sort()`. The lines of one
category are summed before anything else, so a request is a function from categories to
quantities; the DTO requires one item with a quantity of at least one.

### Settlement

A worker runs one call of `PaymentService` (`call`), as a database connection of the
pool does. `Place` is a checkout that commits: `Checkout` implements that step, and its
locks are free before and after. `found` is the list in memory of the expiry job;
`FindExpired` may run while earlier releases are still under way. `ReturnItem` takes
the items in any order, since the list that was read has no ORDER BY. `Fail` loses
one transaction, `Crash` all of them and the list. `DeadlockVictim` rolls back one
call of a circle of waiting calls. The order and its items are read without a lock, in
one step with the check of the status, and every later statement is by id: that is
where two calls can both act. `releases` and `admitted` are history: no action reads them.

### Catalog

A row is a value, `Absent` before it is created and `Deleted` after. `Begin` takes a
request from `Asks`; a read statement checks what the service checks there, and ends
the request if it throws; the write is the last statement. `Sell` is a checkout that
commits, `live` and `void` count the tickets of orders that are not, and are, canceled:
`VenueService.update` counts both, `CategoryService` only the first. Two
variables are history: `disturbed` has the events that were moved, or written to while a
request that sizes them up (of a category, a venue, or a move) was between its reads and
its write; `raced` has those whose status was written while another status change was
between its reads and its write. The ownership checks compare with a column that never changes,
so they narrow who sends a request and not what it does. Names, dates and prices are left out.

### Accounts

`clock` counts seconds, and a token is its user and the second it was signed in: two
refreshes within one second make the same string. `TokenLife` is the age at which the
library refuses a token and `RowLife` the one at which the row does, since the two parse
one setting differently. `given` is what clients have been sent; they present any of it.
`contested` is history, like `disturbed`. Passwords, names and e-mail wording are left out.

### Session, Cart and Console

`Session`: `tab` is the auth store of each tab, `cookie` what all tabs store, `asking`
the `refreshUser` call of each with what it has received. `Load` is a page load,
`handle401` the interceptor of `useApi`. The server is `roleOf`, `issued` and `live`;
`Accounts` takes its handlers apart. `mixed` is history: an answer was stored with a
session it was not asked for, the defect listed in section 4. `Served` evaluates the
tables of `Access` for the role that is stored and the role in the token.

`Cart`: a call carries its key, its cart, whether its page still hears it, and its
answer. `Lose` drops a call before or after the server acts on it, `Reload` stops the
scripts of a tab, `Succeed` is `onSuccess`, whichever page the tab shows by then. The
server takes one step for each call, which is what `BoxOffice` and the proofs of
`Checkout` justify. A change of the local storage is seen by other tabs at once.

`Console`: a handler is one step. `cached` is the status in the answer that the cache
interceptor keeps, `form` the event form with the view it was opened from. `apart` is
history: dates, or the type and value of a coupon, were saved in parts that no check
has seen together. `old` is history: the status changed since the view was read.
Amounts are in cents, a percentage in hundredths; `Rounded` is `toDecimalPlaces(2)`. The
value of a coupon comes in a request with any number of decimals, here in thousandths:
`ValueAccepted` checks it as it came, and `Stored` rounds it as the column does.

## 3. Runs

| Run | Shows | States |
|---|---|---|
| `checkout_shared` | keys, answers, coupon limit, no circle of waiting, every request ends, implements `BoxOffice` | 7 390 |
| `checkout_edited` | no ticket and no coupon use is lost or counted twice while coupons are edited and sales close; requests with and without a key, of two events, with a coupon of another event | 160 320 |
| `settlement_race` | payment and order agree, canceled tickets stay canceled, one admission, releases are whole, nothing is oversold but what came back twice, only releases deadlock | 237 332 |
| `settlement_ends` | every reservation ends | 139 436 |
| `settlement_serial` | one settlement at a time implements `Reservation` | 29 018 |
| `catalog_race` | rows keep what they refer to, sold events were published, used coupons keep their event; events fit their venues unless moved, or written to under a check of the capacity; CANCELED is final unless two status changes overlapped | 929 530 |
| `accounts` | nothing is left of deleted accounts, roles and profiles agree, identities are unique, revoked tokens stay revoked, approvals act on what is pending | 2 140 855 |
| `session` | what tabs and cookies hold is of one sign-in, and the pages that open are served | 1 880 184 |
| `cart` | a checkout page buys a cart once and is not answered with an order it has confirmed | 1 577 968 |
| `console` | dates fit unless saved in parts, amounts add up, what the form offers is accepted unless its view is stale | 276 232 |

Two runs end in a violation and show where the code and its documents differ:

| Run | What happens |
|---|---|
| `settlement_settled_twice` | confirm and release both read PENDING; both commit |
| `checkout_duplicate` | a duplicate is refused for want of the stock its first send took |

**Bounds.** In `checkout_shared`, one user sends two carts under one key (the page keeps
its key until a send succeeds, and the cart may change in between), and another user
wants what the first cart holds. So the two sends hold no common row and race to the
unique key, the first cart and the stranger can lock two categories in two orders, the
second of which sells out with the first reserved, and the second send and the stranger
race for the last use of the coupon. Each of these needs two requests; none is lost to
a lock they share. `checkout_duplicate` uses equal carts: two sends of one and a
stranger's. In `checkout_edited` two of four requests redeem the coupon, with stock for
both, one brings a coupon of another event and one mixes two events; the limit is edited
to zero and to none.

Settlement: two orders over the same two categories let two releases cross; two workers
are the fewest that race, and two gates likewise; one failure (`MaxFailures`) falls at
every point. `settlement_race` has one ticket, which both gates read, and stock for one
order, so that a second order exists only on stock that came back. `settlement_ends` has
stock for both orders, no ticket and no gate, because a check-in holds nothing that a
release could wait for. Workers, and gates, are interchangeable in `settlement_race`,
which checks invariants only.

`catalog_race`: every kind of request on rows where it meets another one, two at a time
and three in all (`MaxAsks`), so that a third can follow on what a race of two left. One
event is on sale with one ticket left and room for one more, one is a draft at the same
venue, one is to be created. `accounts`: two requests at a time and five in all, enough
to register, submit, approve and delete a user against another request; three seconds,
in which a row expires (`RowLife` 1) before its token does (`TokenLife` 3). The three
users share two addresses and two documents. `session`: two tabs, a buyer who is
approved and an administrator, and three pairs of tokens (`MaxIssued`), enough for two
sign-ins and a renewal between. `cart`: two tabs, three checkout pages (so that one is
left, reloaded or doubled), two carts and three calls; capacity for one of the carts or
for both, by their quantities. `console`: two instants order any two dates in every way;
the coupon values lie on both sides of each bound and of what the column rounds to it (0.004
to 0.00, 100.004 to 100.00), the prices around each rounding.

**Deadlock.** `checkout_*`, `catalog_race` and `accounts` stop when every request has
ended, and `session` when the token pairs are used up. The other runs never stop and are
checked for it.

**Fairness.** Checkout: each request's next statement is weakly fair: the event loop
resumes every handler, and a lock that stays free is granted. `Submit`, `Fail`,
`CloseSales` and `EditCoupon` need not happen. Settlement: deadlines pass, the
job runs every minute, statements run and deadlocks are detected (weak). A release
that is listed begins, though workers are taken by others again and again (strong:
the pool serves its queue in turn). A call that waits for its last item gets it, though
calls that were deadlock victims come back for it again and again (strong: waiters are
queued on a row). Failures are bounded: without a bound no database call need ever end.
The other modules state no liveness: an owner, a tab or a network may stop for ever, and
the code promises no more than that nothing goes wrong.

## 4. Where the code and its documents differ

`PROJECT.json` quotes each line. Two are shown by runs (above). The others were met
while modelling, and are marked in the model by a history variable that the property
about them excludes, or by what an action does:

- a limit lowered while a checkout is past its read is exceeded by one (`EditCoupon`);
- a coupon whose event is deleted applies to every event (`DeleteEvent`);
- moving an event, or two capacity checks at once, exceed the venue (`disturbed`), and two
  status changes at once leave CANCELED (`raced`);
- an approval acts on an application that was rejected or resubmitted since; a submission
  past its reads outlives the approval; one document is given twice (`contested`);
- one refresh token used twice at once yields two sessions, and nothing revokes the
  tokens of a user together (`Accounts`);
- a partial update is checked only for what it gives: coupons over 100 %, ends before
  starts (`apart`); a value is checked before the column rounds it, so that 0.004 passes
  for more than zero and is kept as 0.00 (`Stored`); forms shift dates by
  the offset of the time zone, and an event without artists cannot be saved;
- a link is shown to organizers that only administrators may open (`Links`);
- an answer of `refreshUser` is stored with whatever session is there (`mixed`), and an
  answer of `POST /order` empties whatever cart is there (`Succeed`).

## 5. Proofs

The theorems hold for any numbers of requests, rows, tabs, workers and tokens, from the
assumptions stated beside the constants: quantities are natural numbers, category ids
are numbers, the null values are none of the values they stand beside, each request and
each order asks for something, the rows of `Catalog` at first are rows that its services
could have made one request at a time, and where a largest element or a count is needed
the sets are finite.

**Sums.** Stock, capacity and sales are sums over rows. What a sum comes to for every
finite set would take an induction whose theorem has an operator parameter. `SumTheorems`
goes round it: `SumIsCount` shows that a sum of natural numbers is the number of its
units, a unit being a pair of an element and a number up to its term. Two functions that
both add up terms agree on every subset, because a smallest subset on which they differed
would, without one element, be a smaller one (`StrictSubsetOrdering` is well founded). The
other facts (`SumAdd`, `SumAgree`, `SumMonotone`, `SumReplace`) then follow from those of
the library about cardinalities and from the equation of the sum itself.

**Checkout.** `OneOrderPerKey` is not inductive. The invariant adds what every held row
means: who holds a category row still had enough when it took it, and nobody else can
have changed it since; who holds a coupon row is past its redemption; who holds a key
row is about to commit and no committed order has that key; no two hold one row; and
rows are taken in ascending order. From it follow `TypeOK` (so stock is never
negative), `OneOrderPerKey`, `ResponsesAgree` and `CouponAccounting`. Through any
edits of `maxUses` a coupon is used no more often than the highest limit it was given
allows (`CouponWithinSomeLimit`); if there are none, that is `CouponWithinLimit`.
`NoWaitCycle` follows by looking at a largest category that somebody in the circle waits
for: its holder waits for a larger one.
`ImplementsBoxOffice` follows by mapping each step: `Commit` is `Accept`, because the
rows a committing request holds are exactly those it wants; every other step changes
nothing that `BoxOffice` sees. `StockAccounting` follows too, `SumAdd` taking the order
that commits into the sum of the others: stock is the capacity less what all committed
orders ask for, so no rollback keeps a ticket and no two decrements are one.

**Settlement.** The invariant adds that a call names a placed order, that an order
never placed has left no trace on its tickets, and that a ticket that is still to be
admitted has no admission behind it. From it follow `TypeOK`, `PaymentAgrees`,
`CanceledOrderVoidsTickets`, `AdmittedOnce` and `ReleasedWhole`, with settlements
overlapping in every way. `LedgerBalances` adds the books: stock and what PENDING and PAID
orders ask for come, at every moment, to the capacity and what was given back once too
often. `NoOversell` is what they say without the stock, and `SerialNeverOversells` that
with one settlement at a time the last term is zero, as the documents have it.
`DeadlocksAreBetweenReleases` follows from what a call holds at each of its statements
(`HoldsFit`): in a circle nobody waits for the order row, since whoever holds that is about
to commit; hence nobody waits for a payment, hence nobody for tickets. `SerialImplements`
adds one hypothesis, that there are never two settlements at once: then the order of a
call past its read is still PENDING, and every commit is a step of `Reservation`. The violation above shows that the hypothesis
is needed. It says too what a lock on the order row in the first read would give.

**Catalog.** `RowsHaveTheirParents` is inductive with the types, because each delete is
held back by the foreign keys. The invariant adds that what was sold, or found on sale by
a checkout, is of an event that was published; that a coupon without an event is of a
deleted one, and that a use of a coupon in its own event left an item there, which holds
the event; and, for `CanceledIsFinal`, that what a status change has read still allows
it unless the event is raced or deleted. `CapacityUnlessDisturbed` needs the same of numbers: what
a category request has read of its event (quantity, capacity, stock on sale, tickets sold)
is still so, and what a venue request has counted still covers each event there, unless the
event is disturbed (`CapacityInv`). Every step either keeps, removes or disturbs an event
(`Effect`), and a sale moves a ticket from one sum to the other. So a check that passed is
right when its write comes, and fits the event to its venue.

**Accounts.** The four invariants hold together: an approval needs the application that
its transaction deletes, a deletion needs that nothing refers to the user. The invariant
adds what each request knows at each of its statements (`TasksFine`) and, for
`ApprovesWhatIsPending`, that what a review has read stands unless the application is
contested (`ReadsStand`). `RevokedStaysRevoked` is an action property: a token enters
`stored` only from a signature of this second or from the hand of a request.

**Session.** `SessionsAreWhole` is not inductive. The invariant adds that roles only
grow, so that a call that finds another role than its token's finds ORGANIZER, for good,
and the pair it is given says so; that as long as the cookies hold the token of a call,
its tab does too, as it was loaded (an answer that fits the tab then fits the cookies);
and that a pair on its way is nowhere yet. So the role by which pages open is the one in
the token, and `PagesAlwaysServed` is left with the tables of `Access`: route by route,
request by request and page by page, what the pages of a role ask for is granted to that
role, and its links lead to pages that open (`TablesAgree`).

**Cart.** `PageBuysOnce` is not inductive. The invariant adds that a key is renewed in
the step that empties the cart, so that a cart once sent under a key that its page has
renewed is never the cart again (`Spent`); hence a page sends one cart under one key
only, and a key has one order. A page hears of one call at a time, sent under the key it
has, so that an answer it hears was not confirmed before. `TypeOK` bounds what is sold and
made: a call that is answered has made one order at most, and a renewal comes with an
answer that is heard, so there are no more of either than calls; and `Sold` never passes
the capacity, since `Accept` compares the sum that it adds to.

**Console.** The invariant adds what the form and the cached view know, and that a
coupon whose type and value were checked together is in range, 0.00 and 100 % included
(`StoredWithin`: rounding leads from a bound to the bound, never past it). `TotalsAddUp`
then rests on lemmas about rounding: a half-up quotient grows with its dividend and changes by no more than it.

**Only model-checked.** `EveryRequestEnds` and `EveryReservationEnds`: liveness under
fairness is out of the prover's reach. Every other invariant and action property of the
passing runs is stated by a theorem; `CouponWithinLimit` and `ImplementsReservation` under
the hypotheses named above. That the promises of the documents fail where section 3 says
so is shown by the two runs that end in a violation.

## 6. Plan

Done: `Checkout` with `BoxOffice`, `Settlement` with `Reservation`, `Catalog`,
`Accounts`, `Access` with `Session`, `Cart`, `Pricing` with `Console`, and their
theorems. What is left:

1. `Shop`: `Checkout` and `Settlement` over one lock table, with the crossing of sorted
   and unsorted locks. Property: who can be a deadlock victim.
2. `Cart` over `Checkout` itself, in place of one step for each call, as a refinement.
3. The ledger of `Settlement` carried over to the counts of `Catalog`, as one account of a
   category from its creation to the last release.

## 7. Not modelled

Rate limits, health probes, error formatting, the seed and the wording and layout of
pages: wiring and presentation with no state the services read. The response cache is
modelled where a form acts on it (`Console`) and nowhere else: other listings and lookups
only read. Time zones appear as a finding and not in `Console`, whose instants have none.
In `Cart` a change of the local storage reaches the other tabs at once; in a browser it
is an event that follows shortly. In `Console` a handler is one step, and `Catalog` has
the interleavings. Roles come from approvals only, since no route changes them otherwise.
The scheduler: the job runs at any time after a deadline. PostgreSQL, Prisma, the router
and the JWT library are modelled only by what the code relies on.
