------------------------------- MODULE Console -------------------------------
(***************************************************************************)
(* The owner's console: the event form, which saves an event in two        *)
(* requests from a view that the server may have cached, the sales window  *)
(* of the event's category, and a coupon, with the rules that the services *)
(* check on what each request gives and keep for what it leaves out.       *)
(*                                                                         *)
(* A handler is one step here; Catalog takes the same handlers apart.      *)
(***************************************************************************)
EXTENDS Pricing

CONSTANTS
    MaxTime,       \* bound: instants
    Values,        \* coupon values that requests give, in thousandths
    Prices,        \* prices of the category, in cents
    MaxQuantity    \* bound: tickets of an order

ASSUME ConsoleAssumption ==
    /\ MaxTime \in Nat /\ MaxQuantity \in Nat
    /\ Values \subseteq Int /\ Prices \subseteq Nat

VARIABLES
    event,         \* status, startDate and endDate of the event
    cached,        \* the status in the answer that CacheInterceptor keeps
    form,          \* the event form of the owner
    category,      \* salesStart and salesEnd of the category, or NoCategory
    coupon         \* discountType and value of the coupon, or NoCoupon

vars == <<event, cached, form, category, coupon>>

EventStatus == {"DRAFT", "PUBLISHED", "FINISHED", "CANCELED"}
Times == 1..MaxTime
NoTime == 0        \* null, or a field that a request leaves out
Given == Times \cup {NoTime}

(***************************************************************************)
(* apart is history: the dates have been saved in parts that no check has  *)
(* seen together.  old is history: the status has changed since the view   *)
(* was read.                                                               *)
(***************************************************************************)
NoCategory == [start |-> NoTime, end |-> NoTime, exists |-> FALSE, apart |-> FALSE]
NoCoupon == [type |-> "FIXED", value |-> 1, exists |-> FALSE, apart |-> FALSE]
NoView == [status |-> "DRAFT", old |-> FALSE]

Views == [status : EventStatus, old : BOOLEAN]
Closed == [at |-> "closed", view |-> NoView, chosen |-> "DRAFT"]

Init ==
    /\ \E start \in Times : event = [status |-> "DRAFT", start |-> start, end |-> NoTime, apart |-> FALSE]
    /\ cached = {}
    /\ form = Closed
    /\ category = NoCategory
    /\ coupon = NoCoupon

\* A field that a request leaves out keeps its value.
Merged(given, kept) == IF given = NoTime THEN kept ELSE given
Kept(given, kept) == given = NoTime /\ kept # NoTime

(***************************************************************************)
(* The event.                                                              *)
(***************************************************************************)
ALLOWED_TRANSITIONS ==
    [DRAFT |-> {"PUBLISHED", "CANCELED"}, PUBLISHED |-> {"FINISHED", "CANCELED"},
     FINISHED |-> {"CANCELED"}, CANCELED |-> {}]

EndsAfterStart(start, end) == end = NoTime \/ end >= start

TransitionAllowed(status) ==
    /\ status \in ALLOWED_TRANSITIONS[event.status]
    /\ status = "PUBLISHED" => category.exists

Aged(view, old) == [status |-> view.status, old |-> old]

SetStatus(status) ==
    /\ event' = [event EXCEPT !.status = status]
    /\ cached' = {Aged(view, TRUE) : view \in cached}

\* PATCH event/:id/status by an administrator or from another window.
updateStatus(status) ==
    /\ TransitionAllowed(status)
    /\ SetStatus(status)
    /\ form' = [form EXCEPT !.view = Aged(@, form.at # "closed")]
    /\ UNCHANGED <<category, coupon>>

\* Mutant: a draft can be finished.
STATUS_TRANSITIONS_FINISHED ==
    [DRAFT |-> {"DRAFT", "PUBLISHED", "FINISHED", "CANCELED"},
     PUBLISHED |-> {"PUBLISHED", "FINISHED", "CANCELED"},
     FINISHED |-> {"FINISHED", "CANCELED"}, CANCELED |-> {"CANCELED"}]

\* EventFormPage reads GET event/:id, which the server answers from its cache for a
\* minute; the form offers the statuses that STATUS_TRANSITIONS has for what it read.
STATUS_TRANSITIONS ==
    [DRAFT |-> {"DRAFT", "PUBLISHED", "CANCELED"},
     PUBLISHED |-> {"PUBLISHED", "FINISHED", "CANCELED"},
     FINISHED |-> {"FINISHED", "CANCELED"}, CANCELED |-> {"CANCELED"}]

Fresh == [status |-> event.status, old |-> FALSE]

Open ==
    \E view \in IF cached = {} THEN {Fresh} ELSE cached :
        /\ cached' = {view}
        /\ form' = [at |-> "open", view |-> view, chosen |-> view.status]
        /\ UNCHANGED <<event, category, coupon>>

Expire ==
    /\ cached # {}
    /\ cached' = {}
    /\ UNCHANGED <<event, form, category, coupon>>

Close ==
    /\ form.at # "closed"
    /\ form' = Closed
    /\ UNCHANGED <<event, cached, category, coupon>>

\* Moving the start takes the sales window of the category out of any check.
Apart(moved) == [category EXCEPT !.apart = @ \/ (category.exists /\ moved)]

\* EventForm.onSubmit, and the first request of EventFormPage.onSubmit: PUT event/:id
\* with the dates of the form, an emptied end left out.
Save(start, end, status) ==
    /\ form.at \in {"open", "refused", "failed"}
    /\ status \in STATUS_TRANSITIONS[form.view.status]
    /\ IF EndsAfterStart(start, end)
       THEN /\ event' = [status |-> event.status, start |-> start,
                         end |-> Merged(end, event.end), apart |-> Kept(end, event.end)]
            /\ category' = Apart(start # event.start)
            /\ form' = IF status = form.view.status THEN Closed
                       ELSE [form EXCEPT !.at = "saved", !.chosen = status]
       ELSE /\ form' = [form EXCEPT !.at = "failed"]
            /\ UNCHANGED <<event, category>>
    /\ UNCHANGED <<cached, coupon>>

\* The second request: PATCH event/:id/status.
Patch ==
    /\ form.at = "saved"
    /\ IF TransitionAllowed(form.chosen)
       THEN SetStatus(form.chosen) /\ form' = Closed
       ELSE form' = [form EXCEPT !.at = "refused"] /\ UNCHANGED <<event, cached>>
    /\ UNCHANGED <<category, coupon>>

\* The second request gets no answer: the form stays open, what was done stays done.
LoseAnswer ==
    /\ form.at = "saved"
    /\ \/ form' = [form EXCEPT !.at = "failed"] /\ UNCHANGED <<event, cached>>
       \/ /\ TransitionAllowed(form.chosen)
          /\ SetStatus(form.chosen)
          /\ form' = [form EXCEPT !.at = "failed", !.view = Aged(@, TRUE)]
    /\ UNCHANGED <<category, coupon>>

(***************************************************************************)
(* The category and its sales window.                                      *)
(***************************************************************************)
\* Mutant: sales may end after the event has started.
assertSalesWindowLate(start, end) ==
    /\ start # NoTime /\ end # NoTime => start < end
    /\ start # NoTime => start < event.start

assertSalesWindow(start, end) ==
    /\ end # NoTime => end <= event.start
    /\ start # NoTime /\ end # NoTime => start < end
    /\ start # NoTime => start < event.start

CreateCategory(start, end) ==
    /\ ~category.exists
    /\ assertSalesWindow(start, end)
    /\ category' = [start |-> start, end |-> end, exists |-> TRUE, apart |-> FALSE]
    /\ UNCHANGED <<event, cached, form, coupon>>

\* Only the bounds that the request gives are looked at.
UpdateCategory(start, end) ==
    /\ category.exists
    /\ assertSalesWindow(start, end)
    /\ category' = [start |-> Merged(start, category.start), end |-> Merged(end, category.end),
                    exists |-> TRUE,
                    apart |-> IF start = NoTime /\ end = NoTime THEN category.apart
                              ELSE Kept(start, category.start) \/ Kept(end, category.end)]
    /\ UNCHANGED <<event, cached, form, coupon>>

RemoveCategory ==
    /\ category.exists
    /\ category' = NoCategory
    /\ UNCHANGED <<event, cached, form, coupon>>

(***************************************************************************)
(* The coupon.                                                             *)
(***************************************************************************)
CreateCoupon(type, value) ==
    /\ ~coupon.exists
    /\ ValueAccepted(type, value)
    /\ coupon' = [type |-> type, value |-> Stored(value), exists |-> TRUE, apart |-> FALSE]
    /\ UNCHANGED <<event, cached, form, category>>

\* A request that gives only one of discountType and value is not checked.
UpdateCoupon(type, value) ==
    /\ coupon.exists
    /\ \/ /\ ValueAccepted(type, value)
          /\ coupon' = [type |-> type, value |-> Stored(value), exists |-> TRUE, apart |-> FALSE]
       \/ coupon' = [type |-> type, value |-> coupon.value, exists |-> TRUE, apart |-> TRUE]
       \/ coupon' = [type |-> coupon.type, value |-> Stored(value), exists |-> TRUE, apart |-> TRUE]
    /\ UNCHANGED <<event, cached, form, category>>

DeleteCoupon ==
    /\ coupon.exists
    /\ coupon' = NoCoupon
    /\ UNCHANGED <<event, cached, form, category>>

Next ==
    \/ \E status \in EventStatus : updateStatus(status)
    \/ Open \/ Expire \/ Close \/ Patch \/ LoseAnswer
    \/ \E start \in Times, end \in Given, status \in EventStatus : Save(start, end, status)
    \/ \E start, end \in Given : CreateCategory(start, end) \/ UpdateCategory(start, end)
    \/ RemoveCategory
    \/ \E type \in DiscountTypes, value \in Values : CreateCoupon(type, value) \/ UpdateCoupon(type, value)
    \/ DeleteCoupon

Spec == Init /\ [][Next]_vars

-----------------------------------------------------------------------------
\* Each variable has its type, and the stored value of a coupon is not negative, and no
\* more than 100 % of a PERCENTAGE, unless type and value were given apart.  It may be
\* zero: what is checked is the value before it is rounded (assertCouponValue).
TypeOK ==
    /\ event \in [status : EventStatus, start : Times, end : Given, apart : BOOLEAN]
    /\ cached \subseteq Views /\ \A u, v \in cached : u = v
    /\ form \in [at : {"closed", "open", "saved", "refused", "failed"}, view : Views,
                 chosen : EventStatus]
    /\ category \in [start : Given, end : Given, exists : BOOLEAN, apart : BOOLEAN]
    /\ coupon \in [type : DiscountTypes, value : Int, exists : BOOLEAN, apart : BOOLEAN]
    /\ coupon.apart \/ (coupon.value >= 0 /\ (coupon.type = "PERCENTAGE" => coupon.value <= 10000))

\* The dates of an event and of its category fit together, as the messages of
\* event.validator.ts say, unless they were saved in parts: a start without the end
\* that is kept, one bound of a window without the other, or the event moved after.
DatesFit ==
    /\ event.apart \/ EndsAfterStart(event.start, event.end)
    /\ category.apart \/
         /\ category.end # NoTime => category.end <= event.start
         /\ category.start # NoTime => category.start < event.start
         /\ category.start # NoTime /\ category.end # NoTime => category.start < category.end

\* The statuses that the form offers are those the API accepts: its change of status is
\* refused only if the status has changed since its view was read from the database, or
\* if the event has no category to publish.
RefusedOnlyWhenStale ==
    [][form.at = "saved" /\ form'.at = "refused" =>
         \/ form.view.old
         \/ form.chosen = "PUBLISHED" /\ ~category.exists]_vars

\* No coupon takes more than the subtotal, none that was checked adds to it, and one
\* more ticket never makes an order cheaper, for all the rounding of fee and discount.
TotalsAddUp ==
    coupon.exists => \A price \in Prices, quantity \in 1..MaxQuantity :
        LET subtotal == calculateSubtotal(price, quantity)
            more == calculateSubtotal(price, quantity + 1)
        IN /\ Discount(coupon, subtotal) <= subtotal
           /\ coupon.apart \/ Discount(coupon, subtotal) >= 0
           /\ Total(subtotal, Discount(coupon, subtotal)) <= Total(more, Discount(coupon, more))

=============================================================================
