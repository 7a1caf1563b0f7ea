------------------------------ MODULE MCCatalog ------------------------------
(***************************************************************************)
(* A published event e1 with one category and room for one more ticket, a  *)
(* draft e2 at the same venue, an event e3 to be created at another venue, *)
(* and a venue v3 to be created.                                           *)
(***************************************************************************)
EXTENDS Catalog, TLC

CONSTANTS w1, w2, e1, e2, e3, c1, c2, c3, v1, v2, v3, k1, k2

TheEvents == {e1, e2, e3}
TheCategories == {c1, c2, c3}
TheVenues == {v1, v2, v3}
TheCoupons == {k1, k2}

TheEventOf == c1 :> e1 @@ c2 :> e1 @@ c3 :> e2
TheMadeFor == k1 :> e1 @@ k2 :> e2

TheSetup ==
    [status |-> e1 :> "PUBLISHED" @@ e2 :> "DRAFT" @@ e3 :> Absent,
     venueOf |-> e1 :> v1 @@ e2 :> v1 @@ e3 :> NoVenue,
     capacity |-> v1 :> 2 @@ v2 :> 1 @@ v3 :> Absent,
     stock |-> c1 :> 1 @@ c2 :> Absent @@ c3 :> 0,
     couponOf |-> k1 :> e1 @@ k2 :> Absent]

On(op, id, size, venue) == [op |-> op, id |-> id, size |-> size, venue |-> venue]

TheAsks ==
    {On("createCategory", c2, 1, NoVenue), On("updateCategory", c1, 2, NoVenue),
     On("removeCategory", c1, 0, NoVenue), On("removeCategory", c3, 0, NoVenue),
     On("createEvent", e3, 0, v2), On("moveEvent", e1, 0, v2),
     On("deleteEvent", e1, 0, NoVenue), On("deleteEvent", e2, 0, NoVenue),
     On("publish", e2, 0, NoVenue), On("finish", e1, 0, NoVenue),
     On("cancel", e1, 0, NoVenue), On("createVenue", v3, 1, NoVenue),
     On("resizeVenue", v1, 1, NoVenue), On("deleteVenue", v2, 0, NoVenue),
     On("createCoupon", k2, 0, NoVenue), On("deleteCoupon", k1, 0, NoVenue)}

WorkerSymmetry == Permutations({w1, w2})

=============================================================================
