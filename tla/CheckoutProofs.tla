---------------------------- MODULE CheckoutProofs ----------------------------
(***************************************************************************)
(* What holds of Checkout for any requests, categories, coupons and keys.  *)
(*                                                                         *)
(* The invariants a run checks are not inductive as they stand: that a     *)
(* commit leaves a stock of at least 0 rests on what the transaction       *)
(* learned when it took the row's lock.  Locks says what a request holds   *)
(* at each statement and what each row it holds still guarantees.          *)
(***************************************************************************)
EXTENDS Checkout, SumTheorems

USE CatalogAssumption, RequestAssumption

\* The rows of the three tables are distinct.
LEMMA RowsDistinct ==
    /\ \A c, d : CategoryRow(c) = CategoryRow(d) <=> c = d
    /\ \A k, l : CouponRow(k) = CouponRow(l) <=> k = l
    /\ \A c, k : CategoryRow(c) # CouponRow(k)
    /\ \A c, r : CategoryRow(c) # KeyRow(r)
    /\ \A k, r : CouponRow(k) # KeyRow(r)
    /\ \A r, s : KeyRow(r) = KeyRow(s) <=> UserOf[r] = UserOf[s] /\ KeyOf[r] = KeyOf[s]
  BY DEF CategoryRow, CouponRow, KeyRow


-------------------------------------------------------------------------------
(* The inductive invariant *)

\* At most one open transaction has written a row.
Exclusive ==
    \A r, s \in Requests : r # s => holds[r] \cap holds[s] = {}

\* Outside its writing statements a request holds nothing.
NothingHeld ==
    \A r \in Requests :
        pc[r] \notin {"reserve", "coupon", "redeem", "insert", "inserted"} => holds[r] = {}

\* The committed stock of a row that is held still covers what its holder will take.
StockCoversHolds ==
    \A r \in Requests, c \in Categories :
        CategoryRow(c) \in holds[r] => Demand[r][c] > 0 /\ stock[c] >= Demand[r][c]

AllReserved ==
    \A r \in Requests : pc[r] \in {"coupon", "redeem", "insert", "inserted"} =>
        \A c \in Categories : Demand[r][c] > 0 => CategoryRow(c) \in holds[r]

CouponAsked ==
    \A r \in Requests : pc[r] \in {"coupon", "redeem"} => CouponOf[r] \in Coupons

CouponHeld ==
    \A r \in Requests, k \in Coupons :
        CouponRow(k) \in holds[r] <=> (k = CouponOf[r] /\ pc[r] \in {"insert", "inserted"})

KeyHeld ==
    \A r, s \in Requests :
        KeyRow(s) \in holds[r] <=>
            (pc[r] = "inserted" /\ KeyOf[r] # NoKey /\ KeyRow(s) = KeyRow(r))

KeyUnused == \A r \in Requests : pc[r] = "inserted" => Existing(r) = {}

OrdersCommitted ==
    \A r \in Requests :
        /\ r \in orders => pc[r] \in {"committed", "answered", "failed"}
        /\ pc[r] = "committed" => r \in orders

\* An answer is the one order that it can be.
Answers(r, o) ==
    /\ given[r] = {o}
    /\ UserOf[o] = UserOf[r]
    /\ KeyOf[o] = KeyOf[r]
    /\ KeyOf[r] = NoKey => o = r

Answered ==
    \A r \in Requests : pc[r] = "answered" => \E o \in orders : Answers(r, o)

Locks ==
    /\ Exclusive /\ NothingHeld /\ StockCoversHolds /\ AllReserved
    /\ CouponAsked /\ CouponHeld /\ KeyHeld

Records == KeyUnused /\ OrdersCommitted /\ OneOrderPerKey /\ Answered

IInv == TypeOK /\ Locks /\ Records

-------------------------------------------------------------------------------
(* Type correctness *)

Rows == {CategoryRow(c) : c \in Categories} \cup {CouponRow(k) : k \in Coupons}
          \cup {KeyRow(r) : r \in Requests}
PcValues == InFlight \cup Ended \cup {"idle"}

\* The three ways in which a step touches a request's own state.
LEMMA GotoType ==
    ASSUME TypeOK, NEW r \in Requests, NEW state \in PcValues, Goto(r, state)
    PROVE  pc' \in [Requests -> PcValues]
  BY DEF TypeOK, Goto, PcValues

LEMMA WriteType ==
    ASSUME TypeOK, NEW r \in Requests, NEW row \in Rows, Write(r, row)
    PROVE  holds' \in [Requests -> SUBSET Rows]
  BY DEF TypeOK, Write, Rows

LEMMA RollbackType ==
    ASSUME TypeOK, NEW r \in Requests, NEW state \in PcValues, Rollback(r, state)
    PROVE  TypeOK'
  BY DEF TypeOK, Rollback, Release, Goto, PcValues, db

LEMMA TypeInit == Init => TypeOK
  BY DEF Init, TypeOK, CouponRows, Limits, PcValues, InFlight, Ended, InTransaction

LEMMA TypeNext == TypeOK /\ Locks /\ [Next]_vars => TypeOK'
  <1> SUFFICES ASSUME TypeOK, StockCoversHolds, CouponAsked, [Next]_vars PROVE TypeOK'
    BY DEF Locks
  <1> USE DEF PcValues, InFlight, InTransaction, Ended, Rows
  <1>1. CASE UNCHANGED vars
    BY <1>1 DEF TypeOK, vars
  <1>2. ASSUME NEW r \in Requests, Submit(r) PROVE TypeOK'
    BY <1>2 DEF Submit, Goto, TypeOK, db
  <1>3. ASSUME NEW r \in Requests, Lookup(r) PROVE TypeOK'
    <2>1. Existing(r) \subseteq Requests
      BY DEF Existing, TypeOK
    <2>2. CASE Existing(r) # {}
      <3>1. /\ Goto(r, "answered") /\ given' = [given EXCEPT ![r] = Existing(r)]
            /\ UNCHANGED <<db, holds, seen>>
        BY <1>3, <2>2 DEF Lookup
      <3>2. given' \in [Requests -> SUBSET Requests]
        BY <2>1, <3>1 DEF TypeOK
      <3> QED
        BY <3>1, <3>2 DEF Goto, TypeOK, db
    <2>3. CASE Existing(r) = {}
      BY <1>3, <2>3 DEF Lookup, Goto, TypeOK, db
    <2> QED
      BY <2>2, <2>3
  <1>4. ASSUME NEW r \in Requests, Validate(r) PROVE TypeOK'
    BY <1>4 DEF Validate, Goto, TypeOK, db
  <1>5. ASSUME NEW r \in Requests, NEW c \in Categories, Reserve(r, c) PROVE TypeOK'
    BY <1>5 DEF Reserve, Goto, Write, TypeOK, db, AfterReservation
  <1>6. ASSUME NEW r \in Requests, NEW c \in Categories, SoldOut(r, c) PROVE TypeOK'
    BY <1>6, RollbackType DEF SoldOut
  <1>7. ASSUME NEW r \in Requests, ReadCoupon(r) PROVE TypeOK'
    <2>1. CASE Rollback(r, "rejected")
      BY <2>1, RollbackType
    <2>2. CASE /\ seen' = [seen EXCEPT ![r] = coupon[CouponOf[r]].limit]
               /\ Goto(r, "redeem")
               /\ UNCHANGED <<db, holds, given>>
      <3>1. CouponOf[r] \in Coupons
        BY <1>7 DEF ReadCoupon, CouponAsked
      <3>2. coupon[CouponOf[r]].limit \in Limits
        BY <3>1 DEF TypeOK, CouponRows
      <3> QED
        BY <2>2, <3>2 DEF Goto, TypeOK, db
    <2> QED
      BY <1>7, <2>1, <2>2 DEF ReadCoupon
  <1>8. ASSUME NEW r \in Requests, Redeem(r) PROVE TypeOK'
    <2>1. CASE Rollback(r, "rejected")
      BY <2>1, RollbackType
    <2>2. CASE /\ Write(r, CouponRow(CouponOf[r]))
               /\ Goto(r, "insert")
               /\ UNCHANGED <<db, seen, given>>
      <3>1. CouponRow(CouponOf[r]) \in Rows
        BY <1>8 DEF Redeem, CouponAsked, Rows
      <3>2. holds' \in [Requests -> SUBSET Rows]
        BY <2>2, <3>1, WriteType
      <3> QED
        BY <2>2, <3>2 DEF Goto, TypeOK, db
    <2> QED
      BY <1>8, <2>1, <2>2 DEF Redeem
  <1>9. ASSUME NEW r \in Requests, Insert(r) PROVE TypeOK'
    <2>1. holds' \in [Requests -> SUBSET Rows]
      <3>1. CASE KeyOf[r] = NoKey
        BY <1>9, <3>1 DEF Insert, TypeOK
      <3>2. CASE KeyOf[r] # NoKey
        BY <1>9, <3>2, WriteType DEF Insert
      <3> QED
        BY <3>1, <3>2
    <2> QED
      BY <1>9, <2>1 DEF Insert, Goto, TypeOK, db
  <1>10. ASSUME NEW r \in Requests, DuplicateKey(r) PROVE TypeOK'
    BY <1>10, RollbackType DEF DuplicateKey
  <1>11. ASSUME NEW r \in Requests, Recover(r) PROVE TypeOK'
    <2>1. Existing(r) \subseteq Requests
      BY DEF Existing, TypeOK
    <2>2. CASE Existing(r) # {}
      <3>1. /\ Goto(r, "answered") /\ given' = [given EXCEPT ![r] = Existing(r)]
            /\ UNCHANGED <<db, holds, seen>>
        BY <1>11, <2>2 DEF Recover
      <3>2. given' \in [Requests -> SUBSET Requests]
        BY <2>1, <3>1 DEF TypeOK
      <3> QED
        BY <3>1, <3>2 DEF Goto, TypeOK, db
    <2>3. CASE Existing(r) = {}
      BY <1>11, <2>3 DEF Recover, Goto, TypeOK, db
    <2> QED
      BY <2>2, <2>3
  <1>12. ASSUME NEW r \in Requests, Commit(r) PROVE TypeOK'
    <2>1. stock' \in [Categories -> Nat]
      <3>1. ASSUME NEW c \in Categories, CategoryRow(c) \in holds[r]
            PROVE  stock[c] - Demand[r][c] \in Nat
        BY <3>1 DEF TypeOK, StockCoversHolds
      <3> QED
        BY <1>12, <3>1 DEF Commit, TypeOK
    <2>2. coupon' \in [Coupons -> CouponRows]
      BY <1>12 DEF Commit, TypeOK, UseOne, CouponRows
    <2> QED
      BY <1>12, <2>1, <2>2 DEF Commit, Goto, Release, TypeOK
  <1>13. ASSUME NEW r \in Requests, Respond(r) PROVE TypeOK'
    BY <1>13 DEF Respond, Goto, TypeOK, db
  <1>14. ASSUME NEW r \in Requests, Fail(r) PROVE TypeOK'
    BY <1>14, RollbackType DEF Fail
  <1>15. ASSUME NEW e \in Events, CloseSales(e) PROVE TypeOK'
    BY <1>15 DEF CloseSales, TypeOK
  <1>16. ASSUME NEW k \in Coupons, NEW active \in BOOLEAN,
                NEW limit \in NewLimits \cup {coupon[k].limit}, EditCoupon(k, limit, active)
         PROVE TypeOK'
    BY <1>16 DEF EditCoupon, TypeOK, CouponRows, Limits
  <1> QED
    BY <1>1, <1>2, <1>3, <1>4, <1>5, <1>6, <1>7, <1>8, <1>9, <1>10, <1>11, <1>12,
       <1>13, <1>14, <1>15, <1>16 DEF Next, Step

-------------------------------------------------------------------------------
(* Locks *)

HoldingStates == {"reserve", "coupon", "redeem", "insert", "inserted"}
BeforeWriting == {"idle", "lookup", "validate", "recover", "committed"}

LEMMA LocksInit == Init => Locks
  BY DEF Init, Locks, Exclusive, NothingHeld, StockCoversHolds, AllReserved,
         CouponAsked, CouponHeld, KeyHeld

LEMMA LocksStutter == Locks /\ UNCHANGED <<stock, holds, pc>> => Locks'
  BY DEF Locks, Exclusive, NothingHeld, StockCoversHolds, AllReserved,
         CouponAsked, CouponHeld, KeyHeld

\* A step between two states in which nothing is held.
LEMMA LocksQuiet ==
    ASSUME TypeOK, Locks, NEW r \in Requests, pc[r] \in BeforeWriting,
           NEW state \in BeforeWriting \cup Ended \cup {"reserve"},
           Goto(r, state), UNCHANGED <<stock, holds>>
    PROVE  Locks'
  <1> USE DEF BeforeWriting, Ended
  <1>1. holds[r] = {}
    BY DEF Locks, NothingHeld
  <1>2. Exclusive' /\ NothingHeld' /\ StockCoversHolds'
    BY <1>1 DEF Locks, Exclusive, NothingHeld, StockCoversHolds, Goto, TypeOK
  <1>3. AllReserved' /\ CouponAsked'
    BY DEF Locks, AllReserved, CouponAsked, Goto, TypeOK
  <1>4. CouponHeld'
    BY <1>1 DEF Locks, CouponHeld, Goto, TypeOK
  <1>5. KeyHeld'
    BY <1>1 DEF Locks, KeyHeld, Goto, TypeOK
  <1> QED
    BY <1>2, <1>3, <1>4, <1>5 DEF Locks

\* A step that gives up everything the request holds, and no stock that others hold.
LEMMA LocksReleased ==
    ASSUME TypeOK, Locks, NEW r \in Requests, NEW state \in BeforeWriting \cup Ended,
           Goto(r, state), Release(r),
           \A c \in Categories :
               stock'[c] # stock[c] => CategoryRow(c) \in holds[r]
    PROVE  Locks'
  <1> USE DEF BeforeWriting, Ended
  <1>1. /\ pc' = [pc EXCEPT ![r] = state]
        /\ holds' = [holds EXCEPT ![r] = {}]
    BY DEF Goto, Release
  <1>2. Exclusive' /\ NothingHeld'
    BY <1>1 DEF Locks, Exclusive, NothingHeld, TypeOK
  <1>3. StockCoversHolds'
    <2> SUFFICES ASSUME NEW s \in Requests, NEW c \in Categories,
                        CategoryRow(c) \in holds'[s]
                 PROVE  Demand[s][c] > 0 /\ stock'[c] >= Demand[s][c]
      BY DEF StockCoversHolds
    <2>1. s # r /\ CategoryRow(c) \in holds[s]
      BY <1>1 DEF TypeOK
    <2>2. stock'[c] = stock[c]
      BY <2>1 DEF Locks, Exclusive
    <2> QED
      BY <2>1, <2>2 DEF Locks, StockCoversHolds
  <1>4. AllReserved' /\ CouponAsked'
    BY <1>1 DEF Locks, AllReserved, CouponAsked, TypeOK
  <1>5. CouponHeld'
    BY <1>1 DEF Locks, CouponHeld, TypeOK
  <1>6. KeyHeld'
    BY <1>1 DEF Locks, KeyHeld, TypeOK
  <1> QED
    BY <1>2, <1>3, <1>4, <1>5, <1>6 DEF Locks

LEMMA ExclusiveWrite ==
    ASSUME TypeOK, Exclusive, NEW r \in Requests, NEW row, Free(row, r), Write(r, row)
    PROVE  Exclusive'
  <1>1. holds' = [holds EXCEPT ![r] = holds[r] \cup {row}]
    BY DEF Write
  <1>2. \A s \in Requests \ {r} : row \notin holds[s]
    BY DEF Free
  <1> QED
    BY <1>1, <1>2 DEF TypeOK, Exclusive

LEMMA LocksReserve ==
    ASSUME TypeOK, Locks, NEW r \in Requests, NEW c \in Categories, Reserve(r, c)
    PROVE  Locks'
  <1>1. /\ pc[r] = "reserve"
        /\ pc' = [pc EXCEPT ![r] = IF Unreserved(r) = {c} THEN AfterReservation(r)
                                                          ELSE "reserve"]
        /\ holds' = [holds EXCEPT ![r] = @ \cup {CategoryRow(c)}]
        /\ stock' = stock
        /\ c \in Unreserved(r) /\ stock[c] >= Demand[r][c]
        /\ \A s \in Requests \ {r} : CategoryRow(c) \notin holds[s]
    BY DEF Reserve, Goto, Write, db, NextCategory, Free, Enough
  <1>2. \A s \in Requests : holds'[s] = IF s = r THEN holds[s] \cup {CategoryRow(c)}
                                                 ELSE holds[s]
    BY <1>1 DEF TypeOK
  <1>3. pc'[r] \in {"reserve", "coupon", "insert"} /\ \A s \in Requests \ {r} : pc'[s] = pc[s]
    BY <1>1 DEF TypeOK, AfterReservation
  <1>4. Exclusive' /\ NothingHeld'
    BY <1>1, <1>2, <1>3 DEF Locks, Exclusive, NothingHeld
  <1>5. StockCoversHolds'
    BY <1>1, <1>2, RowsDistinct DEF Locks, StockCoversHolds, Unreserved, Wanted
  <1>6. AllReserved'
    <2>1. ASSUME pc'[r] # "reserve", NEW d \in Categories, Demand[r][d] > 0
          PROVE  CategoryRow(d) \in holds'[r]
      <3>1. Unreserved(r) = {c}
        BY <1>1, <2>1 DEF TypeOK
      <3> QED
        <4>1. CASE d = c
          BY <4>1, <1>2
        <4>2. CASE d # c
          BY <2>1, <3>1, <4>2, <1>2 DEF Unreserved, Wanted
        <4> QED
          BY <4>1, <4>2
    <2> QED
      BY <2>1, <1>2, <1>3 DEF Locks, AllReserved
  <1>7. CouponAsked'
    BY <1>1, <1>3 DEF Locks, CouponAsked, AfterReservation, TypeOK
  <1>8. CouponHeld'
    <2>1. \A k \in Coupons : CouponRow(k) \notin holds'[r]
      BY <1>1, <1>2, RowsDistinct DEF Locks, CouponHeld
    <2>2. pc'[r] = "insert" => CouponOf[r] = NoCoupon
      BY <1>1 DEF AfterReservation, TypeOK
    <2>3. ASSUME NEW s \in Requests \ {r}, NEW k \in Coupons
          PROVE  CouponRow(k) \in holds'[s]
                   <=> (k = CouponOf[s] /\ pc'[s] \in {"insert", "inserted"})
      <3>1. holds'[s] = holds[s] /\ pc'[s] = pc[s]
        BY <1>2, <1>3
      <3> QED
        BY <3>1 DEF Locks, CouponHeld
    <2>4. ASSUME NEW k \in Coupons
          PROVE  ~(k = CouponOf[r] /\ pc'[r] \in {"insert", "inserted"})
      BY <2>2, <1>3, RequestAssumption
    <2> QED
      BY <2>1, <2>3, <2>4 DEF CouponHeld
  <1>9. KeyHeld'
    BY <1>1, <1>2, <1>3, RowsDistinct DEF Locks, KeyHeld
  <1> QED
    BY <1>4, <1>5, <1>6, <1>7, <1>8, <1>9 DEF Locks

\* The coupon is checked and its use will be written next.
LEMMA LocksReadCoupon ==
    ASSUME TypeOK, Locks, NEW r \in Requests, pc[r] = "coupon", Goto(r, "redeem"),
           UNCHANGED <<stock, holds>>
    PROVE  Locks'
  <1>1. pc' = [pc EXCEPT ![r] = "redeem"]
    BY DEF Goto
  <1>2. Exclusive' /\ NothingHeld' /\ StockCoversHolds' /\ AllReserved' /\ CouponAsked'
    BY <1>1 DEF Locks, Exclusive, NothingHeld, StockCoversHolds, AllReserved, CouponAsked,
                TypeOK
  <1>3. CouponHeld' /\ KeyHeld'
    BY <1>1 DEF Locks, CouponHeld, KeyHeld, TypeOK
  <1> QED
    BY <1>2, <1>3 DEF Locks

LEMMA LocksRedeem ==
    ASSUME TypeOK, Locks, NEW r \in Requests, pc[r] = "redeem",
           Free(CouponRow(CouponOf[r]), r), Write(r, CouponRow(CouponOf[r])),
           Goto(r, "insert"), stock' = stock
    PROVE  Locks'
  <1>1. pc' = [pc EXCEPT ![r] = "insert"]
    BY DEF Goto
  <1>2. holds' = [holds EXCEPT ![r] = holds[r] \cup {CouponRow(CouponOf[r])}]
    BY DEF Write
  <1>3. CouponOf[r] \in Coupons
    BY DEF Locks, CouponAsked
  <1>4. \A s \in Requests, c \in Categories :
            CategoryRow(c) \in holds'[s] <=> CategoryRow(c) \in holds[s]
    BY <1>2, RowsDistinct DEF TypeOK
  <1>5. \A s, q \in Requests : KeyRow(q) \in holds'[s] <=> KeyRow(q) \in holds[s]
    BY <1>2, RowsDistinct DEF TypeOK
  <1>6. \A s \in Requests, k \in Coupons :
            CouponRow(k) \in holds'[s] <=>
                (CouponRow(k) \in holds[s] \/ (s = r /\ k = CouponOf[r]))
    BY <1>2, RowsDistinct DEF TypeOK
  <1>7. Exclusive'
    BY ExclusiveWrite DEF Locks
  <1>8. NothingHeld' /\ CouponAsked'
    BY <1>1, <1>2 DEF Locks, NothingHeld, CouponAsked, TypeOK
  <1>9. StockCoversHolds' /\ AllReserved'
    BY <1>1, <1>4 DEF Locks, StockCoversHolds, AllReserved, TypeOK
  <1>10. CouponHeld'
    BY <1>1, <1>3, <1>6 DEF Locks, CouponHeld, TypeOK
  <1>11. KeyHeld'
    BY <1>1, <1>5 DEF Locks, KeyHeld, TypeOK
  <1> QED
    BY <1>7, <1>8, <1>9, <1>10, <1>11 DEF Locks

LEMMA LocksInsert ==
    ASSUME TypeOK, Locks, NEW r \in Requests, Insert(r)
    PROVE  Locks'
  <1>1. pc[r] = "insert" /\ pc' = [pc EXCEPT ![r] = "inserted"] /\ stock' = stock
    BY DEF Insert, Goto, db
  <1>2. holds' = [holds EXCEPT ![r] = holds[r] \cup
                    (IF KeyOf[r] = NoKey THEN {} ELSE {KeyRow(r)})]
    BY DEF Insert, Write, TypeOK
  <1>3. \A s \in Requests, c \in Categories :
            CategoryRow(c) \in holds'[s] <=> CategoryRow(c) \in holds[s]
    BY <1>2, RowsDistinct DEF TypeOK
  <1>4. \A s \in Requests, k \in Coupons :
            CouponRow(k) \in holds'[s] <=> CouponRow(k) \in holds[s]
    BY <1>2, RowsDistinct DEF TypeOK
  <1>5. \A s, q \in Requests :
            KeyRow(q) \in holds'[s] <=>
                (KeyRow(q) \in holds[s] \/ (s = r /\ KeyOf[r] # NoKey /\ KeyRow(q) = KeyRow(r)))
    BY <1>2 DEF TypeOK
  <1>6. Exclusive'
    <2>1. CASE KeyOf[r] = NoKey
      BY <2>1 DEF Insert, Locks, Exclusive
    <2>2. CASE KeyOf[r] # NoKey
      BY <2>2, ExclusiveWrite DEF Insert, Locks
    <2> QED
      BY <2>1, <2>2
  <1>7. NothingHeld' /\ CouponAsked'
    BY <1>1, <1>2 DEF Locks, NothingHeld, CouponAsked, TypeOK
  <1>8. StockCoversHolds' /\ AllReserved'
    BY <1>1, <1>3 DEF Locks, StockCoversHolds, AllReserved, TypeOK
  <1>9. CouponHeld'
    BY <1>1, <1>4 DEF Locks, CouponHeld, TypeOK
  <1>10. KeyHeld'
    BY <1>1, <1>5 DEF Locks, KeyHeld, TypeOK
  <1> QED
    BY <1>6, <1>7, <1>8, <1>9, <1>10 DEF Locks

LEMMA LocksRollback ==
    ASSUME TypeOK, Locks, NEW r \in Requests, NEW state \in Ended \cup {"recover"},
           Rollback(r, state)
    PROVE  Locks'
  BY LocksReleased DEF Rollback, db, BeforeWriting

LEMMA LocksNext == TypeOK /\ Locks /\ [Next]_vars => Locks'
  <1> SUFFICES ASSUME TypeOK, Locks, [Next]_vars PROVE Locks'
    OBVIOUS
  <1> USE DEF BeforeWriting, Ended
  <1>1. CASE UNCHANGED vars
    BY <1>1, LocksStutter DEF vars
  <1>2. ASSUME NEW r \in Requests, Submit(r) PROVE Locks'
    BY <1>2, LocksQuiet DEF Submit, db
  <1>3. ASSUME NEW r \in Requests, Lookup(r) PROVE Locks'
    BY <1>3, LocksQuiet DEF Lookup, db
  <1>4. ASSUME NEW r \in Requests, Validate(r) PROVE Locks'
    BY <1>4, LocksQuiet DEF Validate, db
  <1>5. ASSUME NEW r \in Requests, NEW c \in Categories, Reserve(r, c) PROVE Locks'
    BY <1>5, LocksReserve
  <1>6. ASSUME NEW r \in Requests, NEW c \in Categories, SoldOut(r, c) PROVE Locks'
    BY <1>6, LocksRollback DEF SoldOut
  <1>7. ASSUME NEW r \in Requests, ReadCoupon(r) PROVE Locks'
    BY <1>7, LocksRollback, LocksReadCoupon DEF ReadCoupon, db
  <1>8. ASSUME NEW r \in Requests, Redeem(r) PROVE Locks'
    BY <1>8, LocksRollback, LocksRedeem DEF Redeem, db
  <1>9. ASSUME NEW r \in Requests, Insert(r) PROVE Locks'
    BY <1>9, LocksInsert
  <1>10. ASSUME NEW r \in Requests, DuplicateKey(r) PROVE Locks'
    BY <1>10, LocksRollback DEF DuplicateKey
  <1>11. ASSUME NEW r \in Requests, Recover(r) PROVE Locks'
    BY <1>11, LocksQuiet DEF Recover, db
  <1>12. ASSUME NEW r \in Requests, Commit(r) PROVE Locks'
    <2>1. \A c \in Categories : stock'[c] # stock[c] => CategoryRow(c) \in holds[r]
      BY <1>12 DEF Commit
    <2> QED
      BY <1>12, <2>1, LocksReleased DEF Commit
  <1>13. ASSUME NEW r \in Requests, Respond(r) PROVE Locks'
    BY <1>13, LocksQuiet DEF Respond, db
  <1>14. ASSUME NEW r \in Requests, Fail(r) PROVE Locks'
    BY <1>14, LocksRollback DEF Fail
  <1>15. ASSUME NEW e \in Events, CloseSales(e) PROVE Locks'
    BY <1>15, LocksStutter DEF CloseSales
  <1>16. ASSUME NEW k \in Coupons, NEW active \in BOOLEAN,
                NEW limit \in NewLimits \cup {coupon[k].limit}, EditCoupon(k, limit, active)
         PROVE Locks'
    BY <1>16, LocksStutter DEF EditCoupon
  <1> QED
    BY <1>1, <1>2, <1>3, <1>4, <1>5, <1>6, <1>7, <1>8, <1>9, <1>10, <1>11, <1>12,
       <1>13, <1>14, <1>15, <1>16 DEF Next, Step

-------------------------------------------------------------------------------
(* Orders, keys and responses *)

LEMMA RecordsInit == Init => Records
  BY DEF Init, Records, KeyUnused, OrdersCommitted, OneOrderPerKey, Answered

LEMMA RecordsStutter == Records /\ UNCHANGED <<orders, pc, given>> => Records'
  BY DEF Records, KeyUnused, OrdersCommitted, OneOrderPerKey, Answered, Answers, Existing

\* A step that neither inserts, commits nor answers.
LEMMA RecordsQuiet ==
    ASSUME TypeOK, Records, NEW r \in Requests, pc[r] \notin {"answered", "failed"},
           NEW state \in PcValues \ {"inserted", "committed", "answered"},
           pc[r] = "committed" => state = "failed",
           Goto(r, state), UNCHANGED <<orders, given>>
    PROVE  Records'
  <1>1. pc' = [pc EXCEPT ![r] = state]
    BY DEF Goto
  <1>2. KeyUnused' /\ OneOrderPerKey'
    BY <1>1 DEF Records, KeyUnused, OneOrderPerKey, Existing, TypeOK
  <1>3. OrdersCommitted'
    BY <1>1 DEF Records, OrdersCommitted, TypeOK
  <1>4. Answered'
    BY <1>1 DEF Records, Answered, Answers, TypeOK
  <1> QED
    BY <1>2, <1>3, <1>4 DEF Records

LEMMA RecordsAnswer ==
    ASSUME TypeOK, Records, NEW r \in Requests, pc[r] \in {"lookup", "recover", "committed"},
           NEW o \in orders, UserOf[o] = UserOf[r], KeyOf[o] = KeyOf[r],
           KeyOf[r] = NoKey => o = r,
           given' = [given EXCEPT ![r] = {o}], Goto(r, "answered"), orders' = orders
    PROVE  Records'
  <1>1. pc' = [pc EXCEPT ![r] = "answered"]
    BY DEF Goto
  <1>2. KeyUnused' /\ OneOrderPerKey'
    BY <1>1 DEF Records, KeyUnused, OneOrderPerKey, Existing, TypeOK
  <1>3. OrdersCommitted'
    BY <1>1 DEF Records, OrdersCommitted, TypeOK
  <1>4. Answered'
    BY <1>1 DEF Records, Answered, Answers, TypeOK
  <1> QED
    BY <1>2, <1>3, <1>4 DEF Records

\* The unique constraint leaves one order to answer a key with.
LEMMA RecordsExisting ==
    ASSUME TypeOK, Records, NEW r \in Requests, pc[r] \in {"lookup", "recover"},
           Existing(r) # {}, given' = [given EXCEPT ![r] = Existing(r)],
           Goto(r, "answered"), orders' = orders
    PROVE  Records'
  <1>1. PICK o \in Existing(r) : TRUE
    OBVIOUS
  <1>2. /\ o \in orders /\ KeyOf[r] # NoKey
        /\ KeyOf[o] = KeyOf[r] /\ UserOf[o] = UserOf[r]
    BY <1>1 DEF Existing
  <1>3. Existing(r) = {o}
    BY <1>1, <1>2 DEF Existing, Records, OneOrderPerKey
  <1> QED
    BY <1>2, <1>3, RecordsAnswer

LEMMA RecordsInsert ==
    ASSUME TypeOK, Records, NEW r \in Requests, Insert(r)
    PROVE  Records'
  <1>1. /\ pc[r] = "insert" /\ Existing(r) = {} /\ pc' = [pc EXCEPT ![r] = "inserted"]
        /\ UNCHANGED <<orders, given>>
    BY DEF Insert, Goto, db
  <1>2. KeyUnused' /\ OneOrderPerKey'
    BY <1>1 DEF Records, KeyUnused, OneOrderPerKey, Existing, TypeOK
  <1>3. OrdersCommitted'
    BY <1>1 DEF Records, OrdersCommitted, TypeOK
  <1>4. Answered'
    BY <1>1 DEF Records, Answered, Answers, TypeOK
  <1> QED
    BY <1>2, <1>3, <1>4 DEF Records

\* Two open transactions never both hold the key that one of them commits.
LEMMA InsertedKeysDiffer ==
    ASSUME TypeOK, Locks, NEW r \in Requests, NEW s \in Requests, r # s,
           pc[r] = "inserted", pc[s] = "inserted", KeyOf[r] # NoKey
    PROVE  KeyOf[s] # KeyOf[r] \/ UserOf[s] # UserOf[r]
  <1> SUFFICES ASSUME KeyOf[s] = KeyOf[r], UserOf[s] = UserOf[r] PROVE FALSE
    OBVIOUS
  <1>1. KeyRow(r) = KeyRow(s)
    BY RowsDistinct
  <1>2. KeyRow(r) \in holds[r] /\ KeyRow(r) \in holds[s]
    BY <1>1 DEF Locks, KeyHeld
  <1> QED
    BY <1>2 DEF Locks, Exclusive

LEMMA RecordsCommit ==
    ASSUME TypeOK, Locks, Records, NEW r \in Requests, Commit(r)
    PROVE  Records'
  <1>1. /\ pc[r] = "inserted" /\ pc' = [pc EXCEPT ![r] = "committed"]
        /\ orders' = orders \cup {r} /\ given' = given
    BY DEF Commit, Goto
  <1>2. Existing(r) = {}
    BY <1>1 DEF Records, KeyUnused
  <1>3. KeyUnused'
    <2> SUFFICES ASSUME NEW s \in Requests, pc'[s] = "inserted" PROVE Existing(s)' = {}
      BY DEF KeyUnused
    <2>1. s # r /\ pc[s] = "inserted"
      BY <1>1 DEF TypeOK
    <2>2. Existing(s) = {}
      BY <2>1 DEF Records, KeyUnused
    <2>3. KeyOf[s] # NoKey => KeyOf[r] # KeyOf[s] \/ UserOf[r] # UserOf[s]
      BY <1>1, <2>1, InsertedKeysDiffer
    <2> QED
      BY <1>1, <2>2, <2>3 DEF Existing
  <1>4. OneOrderPerKey'
    <2>1. \A s \in orders :
             ~(KeyOf[r] # NoKey /\ KeyOf[s] = KeyOf[r] /\ UserOf[s] = UserOf[r])
      BY <1>2 DEF Existing
    <2> QED
      BY <1>1, <2>1 DEF Records, OneOrderPerKey
  <1>5. OrdersCommitted'
    BY <1>1 DEF Records, OrdersCommitted, TypeOK
  <1>6. Answered'
    BY <1>1 DEF Records, Answered, Answers, TypeOK
  <1> QED
    BY <1>3, <1>4, <1>5, <1>6 DEF Records

LEMMA RecordsNext == TypeOK /\ Locks /\ Records /\ [Next]_vars => Records'
  <1> SUFFICES ASSUME TypeOK, Locks, Records, [Next]_vars PROVE Records'
    OBVIOUS
  <1> USE DEF PcValues, InFlight, InTransaction, Ended
  <1>1. CASE UNCHANGED vars
    BY <1>1, RecordsStutter DEF vars
  <1>2. ASSUME NEW r \in Requests, Submit(r) PROVE Records'
    BY <1>2, RecordsQuiet DEF Submit, db
  <1>3. ASSUME NEW r \in Requests, Lookup(r) PROVE Records'
    BY <1>3, RecordsQuiet, RecordsExisting DEF Lookup, db
  <1>4. ASSUME NEW r \in Requests, Validate(r) PROVE Records'
    BY <1>4, RecordsQuiet DEF Validate, db
  <1>5. ASSUME NEW r \in Requests, NEW c \in Categories, Reserve(r, c) PROVE Records'
    BY <1>5, RecordsQuiet DEF Reserve, db, AfterReservation
  <1>6. ASSUME NEW r \in Requests, NEW c \in Categories, SoldOut(r, c) PROVE Records'
    BY <1>6, RecordsQuiet DEF SoldOut, Rollback, db
  <1>7. ASSUME NEW r \in Requests, ReadCoupon(r) PROVE Records'
    BY <1>7, RecordsQuiet DEF ReadCoupon, Rollback, db
  <1>8. ASSUME NEW r \in Requests, Redeem(r) PROVE Records'
    BY <1>8, RecordsQuiet DEF Redeem, Rollback, db
  <1>9. ASSUME NEW r \in Requests, Insert(r) PROVE Records'
    BY <1>9, RecordsInsert
  <1>10. ASSUME NEW r \in Requests, DuplicateKey(r) PROVE Records'
    BY <1>10, RecordsQuiet DEF DuplicateKey, Rollback, db
  <1>11. ASSUME NEW r \in Requests, Recover(r) PROVE Records'
    BY <1>11, RecordsQuiet, RecordsExisting DEF Recover, db
  <1>12. ASSUME NEW r \in Requests, Commit(r) PROVE Records'
    BY <1>12, RecordsCommit
  <1>13. ASSUME NEW r \in Requests, Respond(r) PROVE Records'
    <2>1. r \in orders
      BY <1>13 DEF Respond, Records, OrdersCommitted
    <2> QED
      BY <1>13, <2>1, RecordsAnswer DEF Respond, db
  <1>14. ASSUME NEW r \in Requests, Fail(r) PROVE Records'
    BY <1>14, RecordsQuiet DEF Fail, Rollback, db
  <1>15. ASSUME NEW e \in Events, CloseSales(e) PROVE Records'
    BY <1>15, RecordsStutter DEF CloseSales
  <1>16. ASSUME NEW k \in Coupons, NEW active \in BOOLEAN,
                NEW limit \in NewLimits \cup {coupon[k].limit}, EditCoupon(k, limit, active)
         PROVE Records'
    BY <1>16, RecordsStutter DEF EditCoupon
  <1> QED
    BY <1>1, <1>2, <1>3, <1>4, <1>5, <1>6, <1>7, <1>8, <1>9, <1>10, <1>11, <1>12,
       <1>13, <1>14, <1>15, <1>16 DEF Next, Step

-------------------------------------------------------------------------------
(* Theorems *)

THEOREM Inductive == Spec => []IInv
  <1>1. Init => IInv
    BY TypeInit, LocksInit, RecordsInit DEF IInv
  <1>2. IInv /\ [Next]_vars => IInv'
    BY TypeNext, LocksNext, RecordsNext DEF IInv
  <1> QED
    BY <1>1, <1>2, PTL DEF Spec

\* Every variable keeps its type; in particular no stock ever falls below 0, however
\* many checkouts decrement a row at once.
THEOREM TypeCorrect == Spec => []TypeOK
  <1>1. IInv => TypeOK
    BY DEF IInv
  <1> QED
    BY <1>1, Inductive, PTL

\* A user's key buys one order.
THEOREM OneOrder == Spec => []OneOrderPerKey
  <1>1. IInv => OneOrderPerKey
    BY DEF IInv, Records
  <1> QED
    BY <1>1, Inductive, PTL

\* Responses carry one committed order of the user, and the same one for one key.
THEOREM Responses == Spec => []ResponsesAgree
  <1>1. ASSUME IInv PROVE ResponsesAgree
    <2> SUFFICES ASSUME NEW r \in Requests, pc[r] = "answered"
                 PROVE  \E o \in orders :
                          /\ given[r] = {o}
                          /\ UserOf[o] = UserOf[r]
                          /\ KeyOf[r] = NoKey => o = r
                          /\ \A s \in Requests :
                               (/\ pc[s] = "answered"
                                /\ KeyOf[r] # NoKey
                                /\ KeyOf[s] = KeyOf[r]
                                /\ UserOf[s] = UserOf[r]) => given[s] = {o}
      BY DEF ResponsesAgree
    <2>1. PICK o \in orders : Answers(r, o)
      BY <1>1 DEF IInv, Records, Answered
    <2>2. ASSUME NEW s \in Requests, pc[s] = "answered", KeyOf[r] # NoKey,
                 KeyOf[s] = KeyOf[r], UserOf[s] = UserOf[r]
          PROVE  given[s] = {o}
      <3>1. PICK p \in orders : Answers(s, p)
        BY <1>1, <2>2 DEF IInv, Records, Answered
      <3>2. p = o
        BY <1>1, <2>1, <2>2, <3>1 DEF Answers, IInv, Records, OneOrderPerKey
      <3> QED
        BY <3>1, <3>2 DEF Answers
    <2> QED
      BY <2>1, <2>2 DEF Answers
  <1> QED
    BY <1>1, Inductive, PTL

\* What a commit does to the committed tables is one Accept of the abstract office.
LEMMA CommitAccepts ==
    ASSUME IInv, NEW r \in Requests, Commit(r)
    PROVE  Office!Accept(r)
  <1>1. pc[r] = "inserted" /\ orders' = orders \cup {r}
    BY DEF Commit
  <1>2. r \notin orders
    BY <1>1 DEF IInv, Records, OrdersCommitted
  <1>3. Office!SameKey(r) = {}
    BY <1>1 DEF IInv, Records, KeyUnused, Existing, Office!SameKey
  <1>4. ASSUME NEW c \in Categories
        PROVE  /\ stock[c] >= Demand[r][c]
               /\ stock'[c] = stock[c] - Demand[r][c]
    <2>1. CASE CategoryRow(c) \in holds[r]
      BY <2>1 DEF IInv, Locks, StockCoversHolds, Commit
    <2>2. CASE CategoryRow(c) \notin holds[r]
      <3>1. Demand[r][c] = 0
        <4>1. ~(Demand[r][c] > 0)
          BY <1>1, <2>2 DEF IInv, Locks, AllReserved
        <4>2. Demand[r][c] \in Nat
          OBVIOUS
        <4> QED
          BY <4>1, <4>2
      <3> QED
        BY <2>2, <3>1 DEF IInv, TypeOK, Commit
    <2> QED
      BY <2>1, <2>2
  <1>5. stock' = [c \in Categories |-> stock[c] - Demand[r][c]]
    BY <1>4 DEF Commit
  <1>6. ASSUME NEW k \in Coupons
        PROVE  coupon'[k].uses = IF CouponOf[r] = k THEN coupon[k].uses + 1
                                                    ELSE coupon[k].uses
    <2>1. CouponRow(k) \in holds[r] <=> k = CouponOf[r]
      BY <1>1 DEF IInv, Locks, CouponHeld
    <2> QED
      BY <2>1 DEF Commit, UseOne
  <1> QED
    BY <1>1, <1>2, <1>3, <1>4, <1>5, <1>6 DEF Office!Accept

\* The statements, locks and rollbacks of create implement the atomic office.
THEOREM Implements == Spec => ImplementsBoxOffice
  <1>1. Init => Office!Init
    BY DEF Init, Office!Init
  <1>2. ASSUME IInv, [Next]_vars PROVE [Office!Next]_Office!vars
    <2>1. ASSUME NEW r \in Requests, Commit(r) PROVE Office!Next
      BY <1>2, <2>1, CommitAccepts DEF Office!Next
    <2>2. ASSUME NEW k \in Coupons, NEW active \in BOOLEAN,
                 NEW limit \in NewLimits \cup {coupon[k].limit}, EditCoupon(k, limit, active)
          PROVE  UNCHANGED Office!vars
      <3>1. \A l \in Coupons : coupon'[l].uses = coupon[l].uses
        BY <1>2, <2>2 DEF EditCoupon, IInv, TypeOK
      <3> QED
        BY <2>2, <3>1 DEF EditCoupon, Office!vars
    <2>3. CASE UNCHANGED <<stock, coupon, orders>>
      BY <2>3 DEF Office!vars
    <2>4. \/ \E r \in Requests : Commit(r)
          \/ \E k \in Coupons, active \in BOOLEAN :
               \E limit \in NewLimits \cup {coupon[k].limit} : EditCoupon(k, limit, active)
          \/ UNCHANGED <<stock, coupon, orders>>
      BY <1>2 DEF Next, Step, Submit, Lookup, Validate, Reserve, SoldOut, ReadCoupon,
           Redeem, Insert, DuplicateKey, Recover, Respond, Fail, CloseSales, Rollback, db, vars
    <2> QED
      BY <2>1, <2>2, <2>3, <2>4
  <1> QED
    BY <1>1, <1>2, Inductive, PTL DEF Spec, Office!Spec, ImplementsBoxOffice

-------------------------------------------------------------------------------
(* Stock *)

\* The tickets of category c in the orders of S.
Asked(S, c) == [r \in S |-> Demand[r][c]]

\* One more order asks for its own tickets.
LEMMA AskedAdd ==
    ASSUME NEW S \in SUBSET Requests, NEW r \in Requests \ S, NEW c \in Categories
    PROVE  SumFunctionOnSet(Asked(S \cup {r}, c), S \cup {r})
             = Demand[r][c] + SumFunctionOnSet(Asked(S, c), S)
  <1> DEFINE T == S \cup {r}
             f == Asked(T, c)
             g == Asked(S, c)
  <1>1. IsFiniteSet(S)
    BY FS_Subset
  <1>2. Natural(f, S \cup {r}) /\ Natural(f, S) /\ Natural(g, S)
    BY DEF Natural, Asked
  <1>3. f[r] = Demand[r][c] /\ \A x \in S : f[x] = g[x]
    BY DEF Asked
  <1> HIDE DEF f, g
  <1>4. SumFunctionOnSet(f, S) = SumFunctionOnSet(g, S)
    BY <1>1, <1>2, <1>3, SumAgree
  <1>5. SumFunctionOnSet(f, S \cup {r}) = f[r] + SumFunctionOnSet(f, S)
    BY <1>1, <1>2, SumAdd
  <1> QED
    BY <1>3, <1>4, <1>5 DEF f, g

\* Every ticket is in stock or in one order.
THEOREM NoTicketLost == Spec => []StockAccounting
  <1>1. ASSUME Init PROVE StockAccounting
    <2>1. \A f : SumFunctionOnSet(f, {}) = 0
      BY SumEmpty
    <2>2. \A c \in Categories : SumFunctionOnSet([r \in orders |-> Demand[r][c]], orders) = 0
      BY <1>1, <2>1 DEF Init
    <2> QED
      BY <1>1, <2>2 DEF Init, StockAccounting
  <1>2. ASSUME IInv, StockAccounting, [Next]_vars PROVE StockAccounting'
    <2>1. ASSUME NEW r \in Requests, Commit(r), NEW c \in Categories
          PROVE  stock'[c] + SumFunctionOnSet([s \in orders' |-> Demand[s][c]], orders')
                   = Capacity[c]
      <3>1. /\ r \notin orders /\ orders' = orders \cup {r}
            /\ stock'[c] = stock[c] - Demand[r][c]
        BY <1>2, <2>1, CommitAccepts DEF Office!Accept
      <3>2. orders \in SUBSET Requests /\ stock[c] \in Nat
        BY <1>2 DEF IInv, TypeOK
      <3>3. IsFiniteSet(orders) /\ Natural(Asked(orders, c), orders)
        BY <3>2, FS_Subset DEF Natural, Asked
      <3>4. SumFunctionOnSet(Asked(orders, c), orders) \in Nat
        BY <3>3, SumType
      <3>5. SumFunctionOnSet(Asked(orders', c), orders')
              = Demand[r][c] + SumFunctionOnSet(Asked(orders, c), orders)
        BY <3>1, <3>2, AskedAdd
      <3>6. stock[c] + SumFunctionOnSet(Asked(orders, c), orders) = Capacity[c]
        BY <1>2 DEF StockAccounting, Asked
      <3>7. Demand[r][c] \in Nat
        OBVIOUS
      <3>8. stock'[c] + SumFunctionOnSet(Asked(orders', c), orders') = Capacity[c]
        BY <3>1, <3>2, <3>4, <3>5, <3>6, <3>7
      <3> QED
        BY <3>8 DEF Asked
    <2>2. CASE UNCHANGED <<stock, orders>>
      BY <1>2, <2>2 DEF StockAccounting
    <2>3. (\E r \in Requests : Commit(r)) \/ UNCHANGED <<stock, orders>>
      BY <1>2 DEF Next, Step, Submit, Lookup, Validate, Reserve, SoldOut, ReadCoupon, Redeem,
           Insert, DuplicateKey, Recover, Respond, Fail, CloseSales, EditCoupon, Rollback, db, vars
    <2> QED
      BY <2>1, <2>2, <2>3 DEF StockAccounting
  <1> QED
    BY <1>1, <1>2, Inductive, PTL DEF Spec

-------------------------------------------------------------------------------
(* Coupons *)

\* The limits that coupon k is ever given, at first or by an edit.
Allowed(k) == {LimitOf[k]} \cup NewLimits

\* What a checkout reads of maxUses is such a limit, and the row that it has locked had
\* a use left by one of them.
LimitsGiven ==
    /\ \A k \in Coupons : coupon[k].limit \in Allowed(k)
    /\ \A r \in Requests :
         pc[r] = "redeem" => seen[r] \in Allowed(CouponOf[r])
    /\ \A r \in Requests, k \in Coupons :
         CouponRow(k) \in holds[r] =>
             \E limit \in Allowed(k) : Below(coupon[k].uses, limit)

WithinSomeLimit ==
    \A k \in Coupons : \E limit \in Allowed(k) : limit = NoLimit \/ coupon[k].uses <= limit

LEMMA UseOneRow ==
    ASSUME NEW row
    PROVE  UseOne(row).limit = row.limit /\ UseOne(row).uses = row.uses + 1
  BY DEF UseOne

LEMMA LimitsNext ==
    ASSUME IInv, IInv', LimitsGiven, WithinSomeLimit, [Next]_vars
    PROVE  LimitsGiven' /\ WithinSomeLimit'
  <1> USE DEF LimitsGiven, WithinSomeLimit
  <1>1. CASE UNCHANGED <<coupon, holds, seen, pc>>
    BY <1>1
  <1>2. ASSUME NEW r \in Requests, NEW state \in PcValues \ {"redeem"},
               Goto(r, state), UNCHANGED <<coupon, holds, seen>>
        PROVE  LimitsGiven' /\ WithinSomeLimit'
    BY <1>2 DEF Goto, IInv, TypeOK
  <1>3. ASSUME NEW r \in Requests, NEW state \in PcValues \ {"redeem"}, Rollback(r, state)
        PROVE  LimitsGiven' /\ WithinSomeLimit'
    BY <1>3 DEF Rollback, Release, Goto, db, IInv, TypeOK
  <1>4. ASSUME NEW r \in Requests, NEW c \in Categories, Reserve(r, c)
        PROVE  LimitsGiven' /\ WithinSomeLimit'
    <2>1. /\ pc' = [pc EXCEPT ![r] = IF Unreserved(r) = {c} THEN AfterReservation(r)
                                                            ELSE "reserve"]
          /\ holds' = [holds EXCEPT ![r] = @ \cup {CategoryRow(c)}]
          /\ UNCHANGED <<coupon, seen>>
      BY <1>4 DEF Reserve, Goto, Write, db
    <2>2. \A s \in Requests, k \in Coupons :
             CouponRow(k) \in holds'[s] => CouponRow(k) \in holds[s]
      BY <2>1, RowsDistinct DEF IInv, TypeOK
    <2>3. \A s \in Requests : pc'[s] = "redeem" => pc[s] = "redeem"
      BY <2>1 DEF IInv, TypeOK, AfterReservation
    <2> QED
      BY <2>1, <2>2, <2>3
  <1>5. ASSUME NEW r \in Requests, ReadCoupon(r)
        PROVE  LimitsGiven' /\ WithinSomeLimit'
    <2>1. CASE /\ seen' = [seen EXCEPT ![r] = coupon[CouponOf[r]].limit]
               /\ Goto(r, "redeem")
               /\ UNCHANGED <<db, holds, given>>
      <3>1. CouponOf[r] \in Coupons
        BY <1>5 DEF ReadCoupon, IInv, Locks, CouponAsked
      <3> QED
        BY <2>1, <3>1 DEF Goto, db, IInv, TypeOK
    <2> QED
      BY <1>3, <1>5, <2>1 DEF ReadCoupon, PcValues, Ended
  <1>6. ASSUME NEW r \in Requests, Redeem(r)
        PROVE  LimitsGiven' /\ WithinSomeLimit'
    <2>1. CASE /\ Write(r, CouponRow(CouponOf[r]))
               /\ Goto(r, "insert")
               /\ UNCHANGED <<db, seen, given>>
               /\ Redeemable(r, CouponOf[r])
      <3>1. CouponOf[r] \in Coupons /\ seen[r] \in Allowed(CouponOf[r])
        BY <1>6 DEF Redeem, IInv, Locks, CouponAsked
      <3>2. \E limit \in Allowed(CouponOf[r]) : Below(coupon[CouponOf[r]].uses, limit)
        BY <2>1, <3>1 DEF Redeemable
      <3>3. /\ pc' = [pc EXCEPT ![r] = "insert"]
            /\ holds' = [holds EXCEPT ![r] = @ \cup {CouponRow(CouponOf[r])}]
            /\ UNCHANGED <<coupon, seen>>
        BY <2>1 DEF Write, Goto, db
      <3>4. \A s \in Requests, k \in Coupons :
               CouponRow(k) \in holds'[s] =>
                   (CouponRow(k) \in holds[s] \/ k = CouponOf[r])
        BY <3>3, RowsDistinct DEF IInv, TypeOK
      <3>5. \A s \in Requests : pc'[s] = "redeem" => pc[s] = "redeem"
        BY <3>3 DEF IInv, TypeOK
      <3> QED
        BY <3>2, <3>3, <3>4, <3>5
    <2> QED
      BY <1>3, <1>6, <2>1 DEF Redeem, PcValues, Ended
  <1>7. ASSUME NEW r \in Requests, Insert(r)
        PROVE  LimitsGiven' /\ WithinSomeLimit'
    <2>1. /\ pc' = [pc EXCEPT ![r] = "inserted"]
          /\ holds' = [holds EXCEPT ![r] = @ \cup
                          (IF KeyOf[r] = NoKey THEN {} ELSE {KeyRow(r)})]
          /\ UNCHANGED <<coupon, seen>>
      BY <1>7 DEF Insert, Goto, Write, db, IInv, TypeOK
    <2>2. \A s \in Requests, k \in Coupons :
             CouponRow(k) \in holds'[s] => CouponRow(k) \in holds[s]
      BY <2>1, RowsDistinct DEF IInv, TypeOK
    <2>3. \A s \in Requests : pc'[s] = "redeem" => pc[s] = "redeem"
      BY <2>1 DEF IInv, TypeOK
    <2> QED
      BY <2>1, <2>2, <2>3
  <1>8. ASSUME NEW r \in Requests, Commit(r)
        PROVE  LimitsGiven' /\ WithinSomeLimit'
    <2>1. /\ pc' = [pc EXCEPT ![r] = "committed"]
          /\ holds' = [holds EXCEPT ![r] = {}]
          /\ seen' = seen
          /\ \A k \in Coupons :
               coupon'[k] = IF CouponRow(k) \in holds[r] THEN UseOne(coupon[k]) ELSE coupon[k]
      BY <1>8 DEF Commit, Goto, Release
    <2>2. \A k \in Coupons : coupon'[k].limit = coupon[k].limit
      BY <2>1, UseOneRow
    <2>3. \A s \in Requests : pc'[s] = "redeem" => pc[s] = "redeem"
      BY <2>1 DEF IInv, TypeOK
    <2>4. ASSUME NEW s \in Requests, NEW k \in Coupons, CouponRow(k) \in holds'[s]
          PROVE  \E limit \in Allowed(k) : Below(coupon'[k].uses, limit)
      <3>1. s # r /\ CouponRow(k) \in holds[s]
        BY <2>1, <2>4 DEF IInv, TypeOK
      <3>2. CouponRow(k) \notin holds[r]
        BY <3>1 DEF IInv, Locks, Exclusive
      <3> QED
        BY <2>1, <3>1, <3>2
    <2>5. ASSUME NEW k \in Coupons
          PROVE  \E limit \in Allowed(k) : limit = NoLimit \/ coupon'[k].uses <= limit
      <3>1. CASE CouponRow(k) \in holds[r]
        <4>1. PICK limit \in Allowed(k) : Below(coupon[k].uses, limit)
          BY <3>1
        <4>2. coupon'[k].uses = coupon[k].uses + 1 /\ coupon[k].uses \in Nat
          BY <2>1, <3>1, UseOneRow DEF IInv, TypeOK, CouponRows
        <4>3. limit = NoLimit \/ limit \in Nat
          BY DEF Allowed
        <4> QED
          BY <4>1, <4>2, <4>3 DEF Below
      <3>2. CASE CouponRow(k) \notin holds[r]
        BY <2>1, <3>2
      <3> QED
        BY <3>1, <3>2
    <2> QED
      BY <2>1, <2>2, <2>3, <2>4, <2>5
  <1>9. ASSUME NEW k \in Coupons, NEW active \in BOOLEAN,
               NEW limit \in NewLimits \cup {coupon[k].limit}, EditCoupon(k, limit, active)
        PROVE  LimitsGiven' /\ WithinSomeLimit'
    <2>1. \A l \in Coupons : /\ coupon'[l].limit \in NewLimits \cup {coupon[l].limit}
                             /\ coupon'[l].uses = coupon[l].uses
      BY <1>9 DEF EditCoupon, IInv, TypeOK
    <2>2. UNCHANGED <<holds, seen, pc>>
      BY <1>9 DEF EditCoupon
    <2>3. \A l \in Coupons : coupon'[l].limit \in Allowed(l)
      BY <2>1 DEF Allowed
    <2> QED
      BY <2>1, <2>2, <2>3
  <1>10. ASSUME NEW r \in Requests,
                \/ Submit(r) \/ Lookup(r) \/ Validate(r) \/ Recover(r) \/ Respond(r)
         PROVE  LimitsGiven' /\ WithinSomeLimit'
    BY <1>2, <1>10 DEF Submit, Lookup, Validate, Recover, Respond, db, PcValues, Ended,
       InFlight, InTransaction
  <1>11. ASSUME NEW r \in Requests,
                \/ \E c \in Categories : SoldOut(r, c)
                \/ DuplicateKey(r) \/ Fail(r)
         PROVE  LimitsGiven' /\ WithinSomeLimit'
    BY <1>3, <1>11 DEF SoldOut, DuplicateKey, Fail, PcValues, Ended, InFlight
  <1>12. ASSUME NEW e \in Events, CloseSales(e)
         PROVE  LimitsGiven' /\ WithinSomeLimit'
    BY <1>1, <1>12 DEF CloseSales
  <1>13. CASE UNCHANGED vars
    BY <1>1, <1>13 DEF vars
  <1> QED
    BY <1>4, <1>5, <1>6, <1>7, <1>8, <1>9, <1>10, <1>11, <1>12, <1>13 DEF Next, Step

LEMMA LimitsInductive == Spec => [](LimitsGiven /\ WithinSomeLimit)
  <1>1. Init => LimitsGiven /\ WithinSomeLimit
    <2> SUFFICES ASSUME Init PROVE LimitsGiven /\ WithinSomeLimit
      OBVIOUS
    <2>1. \A k \in Coupons : coupon[k].limit = LimitOf[k] /\ coupon[k].uses = 0
      BY DEF Init
    <2>2. \A k \in Coupons : LimitOf[k] \in Allowed(k) /\ (LimitOf[k] = NoLimit \/ 0 <= LimitOf[k])
      BY DEF Allowed
    <2>3. \A r \in Requests : pc[r] # "redeem" /\ holds[r] = {}
      BY DEF Init
    <2> QED
      BY <2>1, <2>2, <2>3 DEF LimitsGiven, WithinSomeLimit
  <1>2. IInv /\ IInv' /\ LimitsGiven /\ WithinSomeLimit /\ [Next]_vars
          => LimitsGiven' /\ WithinSomeLimit'
    BY LimitsNext
  <1> QED
    BY <1>1, <1>2, Inductive, PTL DEF Spec

\* However checkouts and edits of maxUses interleave, a coupon is never used more often
\* than the highest limit it was given allows: a limit that is lowered under a checkout
\* may be exceeded, but by no use that no limit ever allowed.
THEOREM CouponWithinSomeLimit == Spec => []WithinSomeLimit
  <1> QED
    BY LimitsInductive, PTL

\* As long as maxUses is not edited, no interleaving of checkouts exceeds it: the limit
\* that the update's WHERE was given is still the limit.
THEOREM CouponLimit == NewLimits = {} => (Spec => []CouponWithinLimit)
  <1> SUFFICES ASSUME NewLimits = {} PROVE Spec => []CouponWithinLimit
    OBVIOUS
  <1>1. \A k \in Coupons : Allowed(k) = {LimitOf[k]}
    BY DEF Allowed
  <1>2. LimitsGiven /\ WithinSomeLimit => CouponWithinLimit
    BY <1>1 DEF LimitsGiven, WithinSomeLimit, CouponWithinLimit
  <1> QED
    BY <1>2, LimitsInductive, PTL

\* The orders that carry coupon k.
Carriers(k) == {r \in orders : CouponOf[r] = k}

\* currentUses counts the orders that carry the coupon: a rollback gives its use back,
\* and no two commits share one.
THEOREM Accounting == Spec => []CouponAccounting
  <1>1. Init => CouponAccounting
    BY FS_EmptySet DEF Init, CouponAccounting
  <1>2. ASSUME IInv, CouponAccounting, [Next]_vars PROVE CouponAccounting'
    <2>1. ASSUME NEW r \in Requests, Commit(r), NEW k \in Coupons
          PROVE  coupon'[k].uses = Cardinality({s \in orders' : CouponOf[s] = k})
      <3> DEFINE new == {s \in orders' : CouponOf[s] = k}
      <3>1. /\ pc[r] = "inserted" /\ orders' = orders \cup {r}
            /\ coupon'[k] = IF CouponRow(k) \in holds[r] THEN UseOne(coupon[k]) ELSE coupon[k]
        BY <2>1 DEF Commit
      <3>2. r \notin orders
        BY <3>1, <1>2 DEF IInv, Records, OrdersCommitted
      <3>3. CouponRow(k) \in holds[r] <=> k = CouponOf[r]
        BY <3>1, <1>2 DEF IInv, Locks, CouponHeld
      <3>4. IsFiniteSet(Carriers(k)) /\ coupon[k].uses = Cardinality(Carriers(k))
        <4>1. Carriers(k) \subseteq Requests
          BY <1>2 DEF Carriers, IInv, TypeOK
        <4> QED
          BY <1>2, <4>1, FS_Subset DEF Carriers, CouponAccounting
      <3>5. CASE k = CouponOf[r]
        <4>1. new = Carriers(k) \cup {r} /\ r \notin Carriers(k)
          BY <3>1, <3>2, <3>5 DEF Carriers
        <4>2. Cardinality(new) = Cardinality(Carriers(k)) + 1
          BY <3>4, <4>1, FS_AddElement
        <4> QED
          BY <3>1, <3>3, <3>4, <3>5, <4>2 DEF UseOne
      <3>6. CASE k # CouponOf[r]
        <4>1. new = Carriers(k)
          BY <3>1, <3>6 DEF Carriers
        <4> QED
          BY <3>1, <3>3, <3>4, <3>6, <4>1
      <3> QED
        BY <3>5, <3>6
    <2>2. ASSUME NEW k \in Coupons, NEW active \in BOOLEAN,
                 NEW limit \in NewLimits \cup {coupon[k].limit}, EditCoupon(k, limit, active)
          PROVE  CouponAccounting'
      <3>1. \A l \in Coupons : coupon'[l].uses = coupon[l].uses
        BY <1>2, <2>2 DEF EditCoupon, IInv, TypeOK
      <3> QED
        BY <1>2, <2>2, <3>1 DEF EditCoupon, CouponAccounting
    <2>3. CASE UNCHANGED <<coupon, orders>>
      BY <1>2, <2>3 DEF CouponAccounting
    <2>4. \/ \E r \in Requests : Commit(r)
          \/ \E k \in Coupons, active \in BOOLEAN :
               \E limit \in NewLimits \cup {coupon[k].limit} : EditCoupon(k, limit, active)
          \/ UNCHANGED <<coupon, orders>>
      BY <1>2 DEF Next, Step, Submit, Lookup, Validate, Reserve, SoldOut, ReadCoupon,
           Redeem, Insert, DuplicateKey, Recover, Respond, Fail, CloseSales, Rollback, db, vars
    <2>5. ASSUME NEW r \in Requests, Commit(r) PROVE CouponAccounting'
      BY <2>1, <2>5 DEF CouponAccounting
    <2> QED
      BY <2>2, <2>3, <2>4, <2>5
  <1> QED
    BY <1>1, <1>2, Inductive, PTL DEF Spec

-------------------------------------------------------------------------------
(* No circle of waiting checkouts *)

\* A reserving request holds the least of its categories.
Sorted ==
    \A r \in Requests, c, d \in Categories :
        (pc[r] = "reserve" /\ CategoryRow(c) \in holds[r] /\ d \in Unreserved(r)) => c < d

LEMMA SortedNext ==
    ASSUME IInv, Sorted, [Next]_vars
    PROVE  Sorted'
  <1>1. ASSUME NEW r \in Requests, NEW c \in Categories, Reserve(r, c) PROVE Sorted'
    <2>1. /\ pc[r] = "reserve" /\ NextCategory(r, c)
          /\ holds' = [holds EXCEPT ![r] = @ \cup {CategoryRow(c)}]
          /\ \A s \in Requests \ {r} : pc'[s] = pc[s] /\ holds'[s] = holds[s]
      BY <1>1 DEF Reserve, Goto, Write, IInv, TypeOK
    <2> SUFFICES ASSUME NEW s \in Requests, NEW b \in Categories, NEW d \in Categories,
                        pc'[s] = "reserve", CategoryRow(b) \in holds'[s],
                        d \in Unreserved(s)'
                 PROVE  b < d
      BY DEF Sorted
    <2>2. CASE s # r
      BY <2>1, <2>2 DEF Sorted, Unreserved, Wanted
    <2>3. CASE s = r
      <3>1. /\ \A e \in Categories :
                 CategoryRow(e) \in holds'[r] <=> (CategoryRow(e) \in holds[r] \/ e = c)
        BY <2>1, RowsDistinct DEF IInv, TypeOK
      <3>2. d \in Unreserved(r) /\ d # c
        BY <2>3, <3>1 DEF Unreserved, Wanted
      <3>3. c < d
        BY <2>1, <3>2 DEF NextCategory
      <3>4. c \in Unreserved(r)
        BY <2>1 DEF NextCategory
      <3>5. CASE b = c
        BY <3>3, <3>5
      <3>6. CASE CategoryRow(b) \in holds[r]
        BY <2>1, <3>2, <3>6 DEF Sorted
      <3> QED
        BY <2>3, <3>1, <3>5, <3>6
    <2> QED
      BY <2>2, <2>3
  <1>2. ASSUME NEW r \in Requests, pc'[r] # "reserve" \/ holds'[r] = {},
               \A s \in Requests \ {r} : pc'[s] = pc[s] /\ holds'[s] = holds[s]
        PROVE  Sorted'
    BY <1>2 DEF Sorted, Unreserved, Wanted
  <1>3. CASE UNCHANGED <<pc, holds>>
    BY <1>3 DEF Sorted, Unreserved, Wanted
  <1> USE DEF Goto, IInv, TypeOK
  <1>4. ASSUME NEW r \in Requests, Submit(r) \/ Lookup(r) \/ Recover(r) \/ Respond(r)
        PROVE  Sorted'
    BY <1>2, <1>4 DEF Submit, Lookup, Recover, Respond
  <1>5. ASSUME NEW r \in Requests, Validate(r) PROVE Sorted'
    <2>1. holds[r] = {}
      BY <1>5 DEF Validate, Locks, NothingHeld
    <2> QED
      BY <1>2, <1>5, <2>1 DEF Validate
  <1>6. ASSUME NEW r \in Requests, NEW state \in PcValues \ {"reserve"}, Rollback(r, state)
        PROVE  Sorted'
    BY <1>2, <1>6 DEF Rollback, Release
  <1>7. ASSUME NEW r \in Requests,
               \/ \E c \in Categories : SoldOut(r, c)
               \/ DuplicateKey(r) \/ Fail(r)
        PROVE  Sorted'
    BY <1>6, <1>7 DEF SoldOut, DuplicateKey, Fail, PcValues, Ended, InFlight
  <1>8. ASSUME NEW r \in Requests, ReadCoupon(r) PROVE Sorted'
    <2>1. CASE Rollback(r, "rejected")
      BY <1>6, <2>1 DEF PcValues, Ended
    <2>2. CASE Goto(r, "redeem") /\ UNCHANGED holds
      BY <1>2, <2>2
    <2> QED
      BY <1>8, <2>1, <2>2 DEF ReadCoupon
  <1>9. ASSUME NEW r \in Requests, Redeem(r) PROVE Sorted'
    <2>1. CASE Rollback(r, "rejected")
      BY <1>6, <2>1 DEF PcValues, Ended
    <2>2. CASE Goto(r, "insert") /\ Write(r, CouponRow(CouponOf[r]))
      BY <1>2, <2>2 DEF Write
    <2> QED
      BY <1>9, <2>1, <2>2 DEF Redeem
  <1>10. ASSUME NEW r \in Requests, Insert(r) PROVE Sorted'
    BY <1>2, <1>10 DEF Insert, Write
  <1>11. ASSUME NEW r \in Requests, Commit(r) PROVE Sorted'
    BY <1>2, <1>11 DEF Commit, Release
  <1>12. ASSUME NEW e \in Events, CloseSales(e) PROVE Sorted'
    BY <1>3, <1>12 DEF CloseSales
  <1>13. ASSUME NEW k \in Coupons, NEW active \in BOOLEAN,
                NEW limit \in NewLimits \cup {coupon[k].limit}, EditCoupon(k, limit, active)
         PROVE Sorted'
    BY <1>3, <1>13 DEF EditCoupon
  <1>14. CASE UNCHANGED vars
    BY <1>3, <1>14 DEF vars
  <1> QED
    BY <1>1, <1>4, <1>5, <1>7, <1>8, <1>9, <1>10, <1>11, <1>12, <1>13, <1>14
       DEF Next, Step

\* A set of categories that is not empty has a greatest one.
LEMMA GreatestCategory ==
    ASSUME NEW T \in SUBSET Categories, T # {}
    PROVE  \E c \in T : \A d \in T : ~(c < d)
  <1> DEFINE Above(c) == {e \in Categories : c < e}
             Aboves == {Above(c) : c \in T}
  <1>1. IsWellFoundedOn(StrictSubsetOrdering(Categories), FiniteSubsetsOf(Categories))
    BY FS_StrictSubsetOrderingWellFounded
  <1>2. Aboves \subseteq FiniteSubsetsOf(Categories) /\ Aboves # {}
    <2>1. FiniteSubsetsOf(Categories) = SUBSET Categories
      BY FS_FiniteSubsetsOfFinite
    <2>2. Aboves \subseteq SUBSET Categories
      OBVIOUS
    <2>3. Aboves # {}
      <3>1. PICK c \in T : TRUE
        OBVIOUS
      <3>2. Above(c) \in Aboves
        OBVIOUS
      <3> QED
        BY <3>2
    <2> QED
      BY <2>1, <2>2, <2>3
  <1>3. PICK least \in Aboves :
           \A other \in Aboves : <<other, least>> \notin StrictSubsetOrdering(Categories)
    BY <1>1, <1>2, WFMin
  <1>4. PICK c \in T : least = Above(c)
    OBVIOUS
  <1>5. ASSUME NEW d \in T, c < d PROVE FALSE
    <2> c \in Nat /\ d \in Nat /\ Categories \subseteq Nat
      OBVIOUS
    <2>1. Above(d) \subseteq Above(c)
      <3> SUFFICES ASSUME NEW e \in Categories, d < e PROVE c < e
        OBVIOUS
      <3> QED
        BY <1>5
    <2>2. d \in Above(c) /\ d \notin Above(d)
      BY <1>5
    <2>3. <<Above(d), Above(c)>> \in StrictSubsetOrdering(Categories)
      BY <2>1, <2>2 DEF StrictSubsetOrdering
    <2>4. Above(d) \in Aboves
      OBVIOUS
    <2> HIDE DEF Above, Aboves
    <2> QED
      BY <1>3, <1>4, <2>3, <2>4
  <1> QED
    BY <1>5

\* Whoever waits, waits for a request that is further on, or for one that waits for a
\* greater category: somebody can always go on.
THEOREM NoDeadlock == Spec => []NoWaitCycle
  <1>1. Init => Sorted
    BY DEF Init, Sorted
  <1>2. IInv /\ Sorted /\ [Next]_vars => Sorted'
    BY SortedNext
  <1>3. ASSUME IInv, Sorted PROVE NoWaitCycle
    <2> SUFFICES ASSUME NEW group \in SUBSET Requests, group # {}
                 PROVE  \E r \in group : \A s \in group : ~WaitsFor(r, s)
      BY Zenon DEF NoWaitCycle
    <2> SUFFICES ASSUME \A r \in group : \E s \in group : WaitsFor(r, s)
                 PROVE  FALSE
      BY Zenon
    <2>1. \A r \in group : pc[r] \in {"reserve", "redeem", "insert"}
      BY DEF WaitsFor
    <2>2. \A r \in group : pc[r] # "insert"
      <3> SUFFICES ASSUME NEW r \in group, pc[r] = "insert" PROVE FALSE
        OBVIOUS
      <3>1. PICK s \in group : WaitsFor(r, s)
        OBVIOUS
      <3>2. KeyRow(r) \in holds[s]
        BY <3>1 DEF WaitsFor
      <3>3. pc[s] = "inserted"
        BY <1>3, <3>2 DEF IInv, Locks, KeyHeld
      <3> QED
        BY <2>1, <3>3
    <2>3. \A r \in group : pc[r] # "redeem"
      <3> SUFFICES ASSUME NEW r \in group, pc[r] = "redeem" PROVE FALSE
        OBVIOUS
      <3>1. PICK s \in group : WaitsFor(r, s)
        OBVIOUS
      <3>2. CouponRow(CouponOf[r]) \in holds[s] /\ CouponOf[r] \in Coupons
        BY <1>3, <3>1 DEF WaitsFor, IInv, Locks, CouponAsked
      <3>3. pc[s] \in {"insert", "inserted"}
        BY <1>3, <3>2 DEF IInv, Locks, CouponHeld
      <3> QED
        BY <2>1, <2>2, <3>3
    <2> DEFINE next == {c \in Categories : \E r \in group : NextCategory(r, c)}
    <2>4. \A r \in group : pc[r] = "reserve"
      BY <2>1, <2>2, <2>3
    <2>5. \A r \in group : \E c \in Categories, s \in group :
             NextCategory(r, c) /\ CategoryRow(c) \in holds[s]
      BY <2>4 DEF WaitsFor
    <2>6. PICK c \in next : \A d \in next : ~(c < d)
      <3>1. next \in SUBSET Categories /\ next # {}
        BY <2>5
      <3> QED
        BY <3>1, GreatestCategory
    <2>7. PICK r \in group : NextCategory(r, c)
      OBVIOUS
    <2>8. PICK s \in group : CategoryRow(c) \in holds[s]
      <3>1. PICK b \in Categories, s \in group : NextCategory(r, b) /\ CategoryRow(b) \in holds[s]
        BY <2>5
      <3>2. c \in Unreserved(r) /\ b \in Unreserved(r) /\ c <= b /\ b <= c
        BY <2>7, <3>1 DEF NextCategory
      <3>3. c = b
        <4>1. c \in Categories /\ b \in Categories
          BY <3>2 DEF Unreserved, Wanted
        <4>2. c \in Nat /\ b \in Nat
          BY <4>1
        <4> QED
          BY <3>2, <4>2
      <3> QED
        BY <3>1, <3>3
    <2>9. PICK d \in Categories : NextCategory(s, d)
      BY <2>5
    <2>10. c < d
      BY <1>3, <2>4, <2>8, <2>9 DEF Sorted, NextCategory
    <2> QED
      BY <2>6, <2>9, <2>10
  <1> QED
    BY <1>1, <1>2, <1>3, Inductive, PTL DEF Spec

=============================================================================
