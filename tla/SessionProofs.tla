---------------------------- MODULE SessionProofs ----------------------------
(***************************************************************************)
(* The theorems of Session: what the tabs and the cookies hold, for any    *)
(* number of tabs, users and tokens.  The last part is about the tables of *)
(* Access: what the pages of a role ask for is granted to it.              *)
(***************************************************************************)
EXTENDS Session, SequenceTheorems, TLAPS

-----------------------------------------------------------------------------
(***************************************************************************)
(* The invariant.                                                          *)
(***************************************************************************)
Payload == [user : Users, role : Roles]
Sessions ==
    [user : Users \cup {NoUser}, role : Roles \cup {NoRole},
     access : Nat, refresh : Nat, mixed : BOOLEAN]
CallNames ==
    [at : Steps, access : Nat, user : Users \cup {NoUser}, role : Roles \cup {NoRole},
     refresh : Nat, got : Nat, mixed : BOOLEAN]

Typed ==
    /\ roleOf \in [Users -> Roles]
    /\ issued \in Seq(Payload) /\ Len(issued) <= MaxIssued
    /\ live \subseteq 1..Len(issued)
    /\ tab \in [Tabs -> Sessions] /\ cookie \in Sessions
    /\ asking \in [Tabs -> CallNames]
    /\ leaving \subseteq Tabs

\* A role is the one in the database, or the one from before an approval.
Grew(role, u) == role = roleOf[u] \/ (role = "BUYER" /\ roleOf[u] = "ORGANIZER")

IssuedFits == \A n \in DOMAIN issued : Grew(issued[n].role, issued[n].user)

HeldFits(s) ==
    /\ s.access \in 0..Len(issued) /\ s.refresh \in 0..Len(issued)
    /\ s.user = NoUser <=> s.role = NoRole
    /\ s.mixed \/ Whole(s) \/ (s.access = 0 /\ s.refresh = 0 /\ s.role = NoRole)

AllHeldFit == (\A t \in Tabs : HeldFits(tab[t])) /\ HeldFits(cookie)

\* What a call of refreshUser knows at each of its steps.  Only a role that has grown
\* since the token of the call leads to a renewal.
Asks(call) == call.access \in DOMAIN issued
Knows(call) ==
    /\ call.user = issued[call.access].user /\ call.role \in Roles
    /\ \/ call.role = roleOf[call.user]
       \/ call.role = "BUYER" /\ issued[call.access].role = "BUYER" /\ roleOf[call.user] = "ORGANIZER"
Renews(call) ==
    /\ call.user = issued[call.access].user /\ call.role \in Roles
    /\ call.refresh \in DOMAIN issued
    /\ call.mixed \/ (/\ call.refresh = call.access /\ call.role = "ORGANIZER"
                      /\ roleOf[call.user] = "ORGANIZER")
Got(call) ==
    /\ call.got \in DOMAIN issued
    /\ call.mixed \/ (issued[call.got].user = call.user /\ issued[call.got].role = call.role)

CallFits(call) ==
    /\ call.access \in 0..Len(issued) /\ call.refresh \in 0..Len(issued) /\ call.got \in 0..Len(issued)
    /\ call.at # "idle" => Asks(call)
    /\ call.at = "answered" => Knows(call)
    /\ call.at \in {"refresh", "checked", "issued"} => Renews(call)
    /\ call.at = "issued" => Got(call)

CallsFit == \A t \in Tabs : CallFits(asking[t])

\* The cookies hold what was stored last.  As long as they hold the token of a call, so
\* does its tab, as it was loaded.
CookieLeads ==
    \A t \in Tabs :
        asking[t].at \in {"me", "answered"} /\ cookie.access = asking[t].access =>
            tab[t].access = asking[t].access /\ (tab[t].mixed => cookie.mixed)

\* A pair that is on its way is nowhere yet.
Fresh(n) ==
    /\ \A t \in Tabs : tab[t].access # n /\ asking[t].access # n
    /\ cookie.access # n
GotFresh ==
    \A t \in Tabs : asking[t].at = "issued" =>
        /\ Fresh(asking[t].got)
        /\ \A u \in Tabs \ {t} : asking[u].at = "issued" => asking[u].got # asking[t].got

SessionInv == Typed /\ IssuedFits /\ AllHeldFit /\ CallsFit /\ CookieLeads /\ GotFresh

LEMMA InvImplies == SessionInv => TypeOK /\ SessionsAreWhole
<1> SUFFICES ASSUME SessionInv PROVE TypeOK /\ SessionsAreWhole
    OBVIOUS
<1>1. issued \in Seq(Payload) /\ Len(issued) \in Nat /\ Len(issued) <= MaxIssued /\ MaxIssued \in Nat
    BY SessionAssumption DEF SessionInv, Typed
<1>2. ASSUME NEW s \in Sessions, HeldFits(s)
      PROVE  s \in Stored /\ (s.user = NoUser <=> s.role = NoRole)
    <2>1. s.access \in 0..MaxIssued /\ s.refresh \in 0..MaxIssued
        BY <1>1, <1>2 DEF HeldFits
    <2> QED BY <1>2, <2>1 DEF Sessions, Stored, HeldFits
<1>3. ASSUME NEW t \in Tabs
      PROVE  asking[t] \in [at : Steps, access : 0..MaxIssued, user : Users \cup {NoUser},
                            role : Roles \cup {NoRole}, refresh : 0..MaxIssued,
                            got : 0..MaxIssued, mixed : BOOLEAN]
    <2>1. asking[t] \in CallNames /\ CallFits(asking[t])
        BY DEF SessionInv, Typed, CallsFit
    <2>2. /\ asking[t].access \in 0..MaxIssued /\ asking[t].refresh \in 0..MaxIssued
          /\ asking[t].got \in 0..MaxIssued
        BY <1>1, <2>1 DEF CallFits
    <2> QED BY <2>1, <2>2 DEF CallNames
<1>4. \A held \in Held : held \in Sessions /\ HeldFits(held)
    BY DEF SessionInv, Typed, AllHeldFit, Held
<1>5. tab \in [Tabs -> Stored] /\ cookie \in Stored
    <2>1. \A t \in Tabs : tab[t] \in Stored
        BY <1>2 DEF SessionInv, Typed, AllHeldFit
    <2> QED BY <1>2, <2>1 DEF SessionInv, Typed, AllHeldFit
<1>6. asking \in [Tabs -> [at : Steps, access : 0..MaxIssued, user : Users \cup {NoUser},
                            role : Roles \cup {NoRole}, refresh : 0..MaxIssued,
                            got : 0..MaxIssued, mixed : BOOLEAN]]
    BY <1>3 DEF SessionInv, Typed
<1>7. TypeOK
    BY <1>2, <1>4, <1>5, <1>6 DEF SessionInv, Typed, TypeOK, Payload
<1>8. SessionsAreWhole
    BY <1>4 DEF SessionsAreWhole, HeldFits
<1> QED BY <1>7, <1>8

LEMMA InitFits == Init => SessionInv
<1> SUFFICES ASSUME Init PROVE SessionInv
    OBVIOUS
<1>1. /\ issued = <<>> /\ live = {} /\ roleOf = FirstRole /\ cookie = SignedOut /\ leaving = {}
      /\ \A t \in Tabs : tab[t] = SignedOut /\ asking[t] = Idle
      /\ tab = [t \in Tabs |-> SignedOut] /\ asking = [t \in Tabs |-> Idle]
    BY DEF Init
<1>2. SignedOut \in Sessions /\ Idle \in CallNames
    BY DEF SignedOut, Sessions, Idle, CallNames, Steps
<1>3. issued \in Seq(Payload) /\ Len(issued) = 0 /\ DOMAIN issued = {} /\ MaxIssued \in Nat
    BY <1>1, SessionAssumption
<1>4. Typed
    BY <1>1, <1>2, <1>3, SessionAssumption DEF Typed
<1>5. HeldFits(SignedOut)
    BY <1>3 DEF HeldFits, SignedOut
<1>6. CallFits(Idle)
    BY <1>3 DEF CallFits, Idle
<1>7. SignedOut.access = 0 /\ Idle.at = "idle"
    BY DEF SignedOut, Idle
<1> QED BY <1>1, <1>3, <1>4, <1>5, <1>6, <1>7
        DEF SessionInv, IssuedFits, AllHeldFit, CallsFit, CookieLeads, GotFresh

-----------------------------------------------------------------------------
(***************************************************************************)
(* Token pairs are only added, and roles only grow: what fits still fits.  *)
(***************************************************************************)
Extends ==
    /\ issued' \in Seq(Payload) /\ Len(issued) <= Len(issued')
    /\ \A n \in DOMAIN issued : n \in DOMAIN issued' /\ issued'[n] = issued[n]

Grows ==
    \A u \in Users : roleOf'[u] = roleOf[u] \/ (roleOf[u] = "BUYER" /\ roleOf'[u] = "ORGANIZER")

LEMMA IssuedNumbers ==
    ASSUME Typed
    PROVE  /\ Len(issued) \in Nat /\ DOMAIN issued = 1..Len(issued)
           /\ \A n \in DOMAIN issued : issued[n] \in Payload
<1>1. issued \in Seq(Payload)
    BY DEF Typed
<1> QED BY <1>1

LEMMA Issues ==
    ASSUME Typed, NEW u \in Users, Issue(u)
    PROVE  /\ Extends /\ Len(issued') = Len(issued) + 1 /\ Len(issued') <= MaxIssued
           /\ DOMAIN issued' = DOMAIN issued \cup {Len(issued')}
           /\ Len(issued') \notin DOMAIN issued /\ Len(issued') \in Nat \ {0}
           /\ issued'[Len(issued')].user = u /\ issued'[Len(issued')].role = roleOf[u]
<1> DEFINE N == Len(issued)
<1>1. PICK p \in Payload : p.user = u /\ p.role = roleOf[u] /\ issued' = Append(issued, p)
    <2> DEFINE q == [user |-> u, role |-> roleOf[u]]
    <2>1. q \in Payload /\ q.user = u /\ q.role = roleOf[u] /\ issued' = Append(issued, q)
        BY DEF Issue, Typed, Payload
    <2> QED BY <2>1
<1>2. issued \in Seq(Payload) /\ N \in Nat /\ DOMAIN issued = 1..N /\ N < MaxIssued
    BY DEF Typed, Issue
<1>3. /\ issued' \in Seq(Payload) /\ Len(issued') = N + 1 /\ DOMAIN issued' = 1..(N + 1)
      /\ issued'[N + 1] = p /\ \A n \in 1..N : issued'[n] = issued[n]
    BY <1>1, <1>2
<1>4. /\ N + 1 \in Nat \ {0} /\ N + 1 <= MaxIssued /\ N + 1 \notin 1..N /\ N <= N + 1
      /\ 1..(N + 1) = (1..N) \cup {N + 1}
    BY <1>2, SessionAssumption
<1> QED BY <1>1, <1>2, <1>3, <1>4 DEF Extends

LEMMA HeldKept ==
    ASSUME Typed, Extends, NEW s \in Sessions, HeldFits(s)
    PROVE  HeldFits(s)'
<1>1. /\ Len(issued) \in Nat /\ Len(issued') \in Nat /\ Len(issued) <= Len(issued')
      /\ DOMAIN issued = 1..Len(issued)
    BY IssuedNumbers DEF Extends
<1>2. s.access \in 0..Len(issued) /\ s.refresh \in 0..Len(issued)
    BY DEF HeldFits
<1>3. s.access \in 0..Len(issued') /\ s.refresh \in 0..Len(issued')
    BY <1>1, <1>2
<1>4. Whole(s) => s.access \in DOMAIN issued
    BY <1>1, <1>2 DEF Whole
<1>5. Whole(s) => Whole(s)'
    BY <1>4 DEF Whole, Extends
<1> QED BY <1>3, <1>5 DEF HeldFits

LEMMA CallKept ==
    ASSUME Typed, IssuedFits, Extends, Grows, NEW c \in CallNames, CallFits(c)
    PROVE  CallFits(c)'
<1>1. /\ Len(issued) \in Nat /\ Len(issued') \in Nat /\ Len(issued) <= Len(issued')
      /\ \A n \in DOMAIN issued : issued[n].user \in Users
    BY IssuedNumbers DEF Extends, Payload
<1>2. /\ c.access \in 0..Len(issued') /\ c.refresh \in 0..Len(issued') /\ c.got \in 0..Len(issued')
    BY <1>1 DEF CallFits
<1>3. c.at # "idle" => Asks(c)'
    BY DEF CallFits, Asks, Extends
<1>4. ASSUME c.at = "answered" PROVE Knows(c)'
    <2>1. Knows(c) /\ c.access \in DOMAIN issued
        BY <1>4 DEF CallFits, Asks
    <2>2. issued'[c.access] = issued[c.access] /\ c.user \in Users
        BY <1>1, <2>1 DEF Extends, Knows
    <2>3. Grew(issued[c.access].role, c.user)
        BY <2>1 DEF IssuedFits, Knows
    <2>4. roleOf'[c.user] = roleOf[c.user] \/ (roleOf[c.user] = "BUYER" /\ roleOf'[c.user] = "ORGANIZER")
        BY <2>2 DEF Grows
    <2> QED BY <2>1, <2>2, <2>3, <2>4 DEF Knows, Grew
<1>5. ASSUME c.at \in {"refresh", "checked", "issued"} PROVE Renews(c)'
    <2>1. Renews(c) /\ c.access \in DOMAIN issued
        BY <1>5 DEF CallFits, Asks
    <2>2. issued'[c.access] = issued[c.access] /\ c.user \in Users
        BY <1>1, <2>1 DEF Extends, Renews
    <2>3. roleOf'[c.user] = roleOf[c.user] \/ (roleOf[c.user] = "BUYER" /\ roleOf'[c.user] = "ORGANIZER")
        BY <2>2 DEF Grows
    <2> QED BY <2>1, <2>2, <2>3 DEF Renews, Extends
<1>6. c.at = "issued" => Got(c)'
    BY DEF CallFits, Got, Extends
<1> QED BY <1>2, <1>3, <1>4, <1>5, <1>6 DEF CallFits

LEMMA NothingIssued ==
    ASSUME Typed, UNCHANGED <<roleOf, issued>>
    PROVE  Extends /\ Grows
BY DEF Typed, Extends, Grows

-----------------------------------------------------------------------------
(***************************************************************************)
(* What the actions have in common.                                        *)
(***************************************************************************)
LEMMA QuietPreserves ==
    ASSUME SessionInv, UNCHANGED <<roleOf, issued, tab, cookie, asking>>,
           live' \subseteq 1..Len(issued), leaving' \subseteq Tabs
    PROVE  SessionInv'
<1>1. Typed'
    BY DEF SessionInv, Typed
<1>2. IssuedFits' /\ CookieLeads' /\ GotFresh'
    BY DEF SessionInv, IssuedFits, Grew, CookieLeads, GotFresh, Fresh
<1>3. AllHeldFit' /\ CallsFit'
    BY DEF SessionInv, AllHeldFit, HeldFits, Whole, CallsFit, CallFits, Asks, Knows, Renews, Got
<1> QED BY <1>1, <1>2, <1>3 DEF SessionInv

\* A call of refreshUser moves on, or is over, and nothing else changes.
LEMMA CallMoves ==
    ASSUME SessionInv, NEW t \in Tabs, NEW c \in CallNames, CallFits(c),
           asking' = [asking EXCEPT ![t] = c],
           c.access \in {0, asking[t].access}, c.at # "issued",
           c.at \in {"me", "answered"} =>
               asking[t].at \in {"me", "answered"} /\ c.access = asking[t].access,
           UNCHANGED <<roleOf, issued, live, tab, cookie, leaving>>
    PROVE  SessionInv'
<1>1. asking \in [Tabs -> CallNames] /\ asking'[t] = c /\ \A u \in Tabs \ {t} : asking'[u] = asking[u]
    BY DEF SessionInv, Typed
<1>2. Typed'
    BY <1>1 DEF SessionInv, Typed
<1>3. IssuedFits' /\ AllHeldFit'
    BY DEF SessionInv, IssuedFits, Grew, AllHeldFit, HeldFits, Whole
<1>4. CallsFit'
    <2>1. \A d \in CallNames : CallFits(d) => CallFits(d)'
        BY DEF CallFits, Asks, Knows, Renews, Got
    <2>2. \A u \in Tabs : asking'[u] \in CallNames /\ CallFits(asking'[u])
        BY <1>1 DEF SessionInv, CallsFit
    <2>3. \A u \in Tabs : CallFits(asking[u])'
        BY <2>2 DEF CallFits, Asks, Knows, Renews, Got
    <2> QED BY <2>3 DEF CallsFit
<1>5. CookieLeads'
    BY <1>1 DEF SessionInv, CookieLeads
<1>6. GotFresh'
    <2>1. \A u \in Tabs : asking'[u].at = "issued" => u # t /\ asking'[u] = asking[u]
        BY <1>1
    <2>2. ASSUME NEW u \in Tabs, asking[u].at = "issued"
          PROVE  /\ asking[u].got # 0 /\ cookie.access # asking[u].got
                 /\ \A v \in Tabs : /\ tab[v].access # asking[u].got
                                   /\ asking[v].access # asking[u].got
        <3>1. Fresh(asking[u].got) /\ asking[u].got \in DOMAIN issued
            BY <2>2 DEF SessionInv, GotFresh, CallsFit, CallFits, Got
        <3>2. asking[u].got # 0
            BY <3>1, IssuedNumbers DEF SessionInv
        <3> QED BY <3>1, <3>2 DEF Fresh
    <2>3. \A v \in Tabs : asking'[v].access \in {0, asking[v].access}
        BY <1>1
    <2>4. \A u, v \in Tabs : u # v /\ asking[u].at = "issued" /\ asking[v].at = "issued"
                               => asking[v].got # asking[u].got
        BY DEF SessionInv, GotFresh
    <2> QED BY <2>1, <2>2, <2>3, <2>4 DEF GotFresh, Fresh
<1> QED BY <1>2, <1>3, <1>4, <1>5, <1>6 DEF SessionInv

\* A tab and the cookies change to a session whose tokens are new, or to none.
LEMMA SessionChanges ==
    ASSUME SessionInv, NEW t \in Tabs, NEW s \in Sessions, HeldFits(s)',
           Extends, Grows, roleOf' \in [Users -> Roles], IssuedFits', Len(issued') <= MaxIssued,
           live' \subseteq 1..Len(issued'), leaving' \subseteq Tabs,
           tab' = [tab EXCEPT ![t] = s], cookie' = s, asking' = asking,
           s.access \notin DOMAIN issued
    PROVE  SessionInv'
<1>1. tab \in [Tabs -> Sessions] /\ tab'[t] = s /\ \A u \in Tabs \ {t} : tab'[u] = tab[u]
    BY DEF SessionInv, Typed
<1>2. Typed'
    BY <1>1 DEF SessionInv, Typed, Extends
<1>3. AllHeldFit'
    <2>1. ASSUME NEW u \in Tabs PROVE HeldFits(tab[u])'
        <3>1. CASE u = t
            BY <1>1, <3>1 DEF HeldFits, Whole
        <3>2. ASSUME u # t PROVE HeldFits(tab[u])'
            <4>1. PICK r \in Sessions : r = tab[u] /\ HeldFits(r)
                BY DEF SessionInv, Typed, AllHeldFit
            <4>2. HeldFits(r)' /\ tab'[u] = r
                BY <1>1, <3>2, <4>1, HeldKept DEF SessionInv
            <4> QED BY <4>2 DEF HeldFits, Whole
        <3> QED BY <3>1, <3>2
    <2>2. HeldFits(cookie)'
        BY DEF HeldFits, Whole
    <2> QED BY <2>1, <2>2 DEF AllHeldFit
<1>4. CallsFit'
    BY CallKept DEF SessionInv, Typed, CallsFit
<1>5. \A u \in Tabs : asking[u].at # "idle" => asking[u].access # s.access
    BY DEF SessionInv, CallsFit, CallFits, Asks
<1>6. CookieLeads'
    BY <1>5 DEF CookieLeads
<1>7. GotFresh'
    <2>1. \A u \in Tabs : asking[u].at = "issued" => asking[u].got # s.access
        BY DEF SessionInv, CallsFit, CallFits, Got
    <2> QED BY <1>1, <2>1 DEF SessionInv, GotFresh, Fresh
<1> QED BY <1>2, <1>3, <1>4, <1>6, <1>7 DEF SessionInv

-----------------------------------------------------------------------------
(***************************************************************************)
(* Sign in, sign out, approval.                                            *)
(***************************************************************************)
LEMMA IssuedStillFits ==
    ASSUME SessionInv, NEW u \in Users, Issue(u), roleOf' = roleOf
    PROVE  IssuedFits'
<1>1. /\ DOMAIN issued' = DOMAIN issued \cup {Len(issued')}
      /\ issued'[Len(issued')].user = u /\ issued'[Len(issued')].role = roleOf[u]
      /\ \A n \in DOMAIN issued : issued'[n] = issued[n]
    BY Issues DEF SessionInv, Extends
<1> QED BY <1>1 DEF SessionInv, IssuedFits, Grew

LEMMA LoginPreserves ==
    ASSUME SessionInv, NEW t \in Tabs, NEW u \in Users, Login(t, u)
    PROVE  SessionInv'
<1>1. /\ Issue(u) /\ roleOf' = roleOf /\ asking' = asking /\ leaving' = leaving
    BY DEF Login
<1>2. PICK n \in Nat \ {0} :
        /\ n = Len(issued') /\ n = Len(issued) + 1 /\ n <= MaxIssued /\ n \notin DOMAIN issued
        /\ Extends /\ n \in DOMAIN issued' /\ issued'[n].user = u /\ issued'[n].role = roleOf[u]
    BY <1>1, Issues DEF SessionInv
<1>3. roleOf[u] \in Roles
    BY DEF SessionInv, Typed
<1>4. PICK s \in Sessions :
        /\ s.user = u /\ s.role = roleOf[u] /\ s.access = n /\ s.refresh = n
        /\ live' = live \cup {n} /\ tab' = [tab EXCEPT ![t] = s] /\ cookie' = s
    <2> DEFINE r == [user |-> u, role |-> roleOf[u], access |-> n, refresh |-> n, mixed |-> FALSE]
    <2>1. /\ r \in Sessions /\ r.user = u /\ r.role = roleOf[u] /\ r.access = n /\ r.refresh = n
        BY <1>2, <1>3 DEF Sessions
    <2>2. live' = live \cup {n} /\ tab' = [tab EXCEPT ![t] = r] /\ cookie' = r
        BY <1>2 DEF Login, SetSession
    <2> HIDE DEF r
    <2> QED BY <2>1, <2>2
<1>5. Whole(s)'
    <2>1. issued'[n] \in Payload
        BY <1>2 DEF Extends
    <2>2. issued'[n] = [user |-> s.user, role |-> s.role]
        BY <1>2, <1>4, <2>1 DEF Payload
    <2> QED BY <1>2, <1>4, <2>2 DEF Whole
<1>6. HeldFits(s)'
    <2>1. s.user # NoUser /\ s.role # NoRole
        BY <1>3, <1>4, SessionAssumption DEF Roles, NoRole
    <2>2. s.access \in 0..Len(issued') /\ s.refresh \in 0..Len(issued')
        BY <1>2, <1>4
    <2> QED BY <1>5, <2>1, <2>2 DEF HeldFits
<1>7. IssuedFits'
    BY <1>1, IssuedStillFits
<1>8. live' \subseteq 1..Len(issued')
    <2>1. live \subseteq 1..Len(issued) /\ Len(issued) \in Nat
        BY IssuedNumbers DEF SessionInv, Typed
    <2>2. 1..n = (1..Len(issued)) \cup {n}
        BY <1>2, <2>1
    <2> QED BY <1>2, <1>4, <2>1, <2>2
<1>9. Grows /\ roleOf' \in [Users -> Roles] /\ leaving' \subseteq Tabs
    BY <1>1 DEF SessionInv, Typed, Grows
<1> QED BY <1>1, <1>2, <1>4, <1>6, <1>7, <1>8, <1>9, SessionChanges

LEMMA ClearPreserves ==
    ASSUME SessionInv, NEW t \in Tabs, LoggedOut(t) \/ handle401(t)
    PROVE  SessionInv'
<1>1. /\ UNCHANGED <<roleOf, issued, live, asking>> /\ leaving' \subseteq leaving
      /\ tab' = [tab EXCEPT ![t] = SignedOut] /\ cookie' = SignedOut
    BY DEF LoggedOut, handle401, ClearSession, server
<1>2. SignedOut \in Sessions /\ SignedOut.access = 0
    BY DEF SignedOut, Sessions
<1>3. HeldFits(SignedOut)'
    <2>1. Len(issued) \in Nat
        BY IssuedNumbers DEF SessionInv
    <2> QED BY <1>1, <2>1 DEF HeldFits, SignedOut
<1>4. /\ Extends /\ Grows /\ IssuedFits' /\ roleOf' \in [Users -> Roles] /\ Len(issued') <= MaxIssued
      /\ live' \subseteq 1..Len(issued') /\ leaving' \subseteq Tabs
    BY <1>1, NothingIssued DEF SessionInv, Typed, IssuedFits, Grew
<1>5. SignedOut.access \notin DOMAIN issued
    BY <1>2, IssuedNumbers DEF SessionInv
<1>6. PICK s \in Sessions : s = SignedOut
    BY <1>2
<1>7. HeldFits(s)'
    BY <1>3, <1>6 DEF HeldFits, Whole, SignedOut
<1> QED BY <1>1, <1>4, <1>5, <1>6, <1>7, SessionChanges

LEMMA ApprovePreserves ==
    ASSUME SessionInv, NEW u \in Users, Approve(u)
    PROVE  SessionInv'
<1>1. /\ roleOf[u] = "BUYER" /\ roleOf' = [roleOf EXCEPT ![u] = "ORGANIZER"]
      /\ UNCHANGED <<issued, live, tab, cookie, asking, leaving>>
    BY DEF Approve
<1>2. Grows /\ roleOf' \in [Users -> Roles]
    BY <1>1 DEF SessionInv, Typed, Grows, Roles
<1>3. Extends
    BY <1>1 DEF SessionInv, Typed, Extends
<1>4. Typed'
    BY <1>1, <1>2 DEF SessionInv, Typed
<1>5. IssuedFits'
    <2>1. \A n \in DOMAIN issued : issued[n].user \in Users
        BY IssuedNumbers DEF SessionInv, Payload
    <2> QED BY <1>1, <1>2, <2>1 DEF SessionInv, IssuedFits, Grew, Grows
<1>6. AllHeldFit'
    BY <1>1 DEF SessionInv, AllHeldFit, HeldFits, Whole
<1>7. CallsFit'
    BY <1>1, <1>2, <1>3, CallKept DEF SessionInv, Typed, CallsFit
<1>8. CookieLeads' /\ GotFresh'
    BY <1>1 DEF SessionInv, CookieLeads, GotFresh, Fresh
<1> QED BY <1>4, <1>5, <1>6, <1>7, <1>8 DEF SessionInv

-----------------------------------------------------------------------------
(***************************************************************************)
(* The steps of refreshUser.                                               *)
(***************************************************************************)
LEMMA Asking ==
    ASSUME SessionInv, NEW t \in Tabs
    PROVE  /\ asking[t] \in CallNames /\ CallFits(asking[t])
           /\ tab[t] \in Sessions /\ HeldFits(tab[t])
BY DEF SessionInv, Typed, CallsFit, AllHeldFit

LEMMA IdleFits ==
    ASSUME Typed
    PROVE  Idle \in CallNames /\ CallFits(Idle) /\ Idle.access = 0 /\ Idle.at = "idle"
<1>1. Len(issued) \in Nat
    BY IssuedNumbers
<1>2. Idle \in CallNames /\ Idle.access = 0 /\ Idle.at = "idle"
    BY DEF Idle, CallNames, Steps
<1>3. CallFits(Idle)
    BY <1>1 DEF CallFits, Idle
<1> QED BY <1>2, <1>3

LEMMA MePreserves ==
    ASSUME SessionInv, NEW t \in Tabs, Me(t)
    PROVE  SessionInv'
<1> DEFINE call == asking[t]
<1>1. call \in CallNames /\ CallFits(call) /\ call.at = "me" /\ call.access \in DOMAIN issued
    BY Asking DEF Me, CallFits, Asks
<1>2. issued[call.access].user \in Users /\ roleOf[issued[call.access].user] \in Roles
    BY <1>1, IssuedNumbers DEF SessionInv, Typed, Payload
<1>3. PICK c \in CallNames :
        /\ c.at = "answered" /\ c.access = call.access /\ c.user = issued[call.access].user
        /\ c.role = roleOf[c.user] /\ c.refresh = call.refresh /\ c.got = call.got
        /\ asking' = [asking EXCEPT ![t] = c]
    <2> DEFINE c == [call EXCEPT !.at = "answered", !.user = issued[call.access].user,
                                 !.role = roleOf[issued[call.access].user]]
    <2>1. /\ c \in CallNames /\ c.at = "answered" /\ c.access = call.access
          /\ c.user = issued[call.access].user /\ c.role = roleOf[issued[call.access].user]
          /\ c.refresh = call.refresh /\ c.got = call.got
        BY <1>1, <1>2 DEF CallNames, Steps
    <2>2. asking' = [asking EXCEPT ![t] = c]
        BY DEF Me
    <2> HIDE DEF c
    <2> QED BY <2>1, <2>2
<1>4. CallFits(c)
    BY <1>1, <1>2, <1>3 DEF CallFits, Asks, Knows
<1>5. UNCHANGED <<roleOf, issued, live, tab, cookie, leaving>>
    BY DEF Me, server
<1> QED BY <1>1, <1>3, <1>4, <1>5, CallMoves

LEMMA AskRefreshPreserves ==
    ASSUME SessionInv, NEW t \in Tabs, AskRefresh(t)
    PROVE  SessionInv'
<1> DEFINE call == asking[t]
<1>1. /\ call \in CallNames /\ CallFits(call) /\ call.at = "answered"
      /\ call.access \in DOMAIN issued /\ Knows(call)
    BY Asking DEF AskRefresh, CallFits, Asks
<1>2. tab[t] \in Sessions /\ HeldFits(tab[t]) /\ call.role # tab[t].role /\ tab[t].refresh # 0
    BY Asking DEF AskRefresh, RoleChanged
<1>3. PICK c \in CallNames :
        /\ c.at = "refresh" /\ c.access = call.access /\ c.user = call.user /\ c.role = call.role
        /\ c.refresh = tab[t].refresh /\ c.got = call.got
        /\ ~c.mixed => ~tab[t].mixed /\ tab[t].access = call.access
        /\ asking' = [asking EXCEPT ![t] = c]
    <2> DEFINE c == [call EXCEPT !.at = "refresh", !.refresh = tab[t].refresh,
                                 !.mixed = tab[t].mixed \/ tab[t].access # call.access]
    <2>1. /\ c \in CallNames /\ c.at = "refresh" /\ c.access = call.access /\ c.user = call.user
          /\ c.role = call.role /\ c.refresh = tab[t].refresh /\ c.got = call.got
          /\ c.mixed = (tab[t].mixed \/ tab[t].access # call.access)
        BY <1>1, <1>2 DEF CallNames, Sessions, Steps
    <2>2. asking' = [asking EXCEPT ![t] = c]
        BY DEF AskRefresh
    <2> HIDE DEF c
    <2> QED BY <2>1, <2>2
<1>4. c.refresh \in DOMAIN issued /\ c.refresh \in 0..Len(issued)
    BY <1>2, <1>3, IssuedNumbers DEF HeldFits, SessionInv
<1>5. ASSUME ~c.mixed
      PROVE  c.refresh = c.access /\ c.role = "ORGANIZER" /\ roleOf[c.user] = "ORGANIZER"
    <2>1. Whole(tab[t]) /\ tab[t].access = call.access
        BY <1>2, <1>3, <1>5 DEF HeldFits
    <2>2. issued[call.access].role = tab[t].role
        BY <2>1 DEF Whole
    <2>3. Grew(issued[call.access].role, call.user)
        BY <1>1 DEF SessionInv, IssuedFits, Knows
    <2>4. call.role = roleOf[call.user]
        BY <1>1, <1>2, <2>2 DEF Knows
    <2> QED BY <1>2, <1>3, <2>1, <2>2, <2>3, <2>4 DEF Grew, Whole
<1>6. CallFits(c)
    <2>1. Renews(c)
        BY <1>1, <1>3, <1>4, <1>5 DEF Renews, Knows
    <2> QED BY <1>1, <1>3, <1>4, <2>1 DEF CallFits, Asks
<1>7. UNCHANGED <<roleOf, issued, live, tab, cookie, leaving>>
    BY DEF AskRefresh, server
<1> QED BY <1>3, <1>6, <1>7, CallMoves

LEMMA CheckRefreshPreserves ==
    ASSUME SessionInv, NEW t \in Tabs, CheckRefresh(t)
    PROVE  SessionInv'
<1> DEFINE call == asking[t]
<1>1. call \in CallNames /\ CallFits(call) /\ call.at = "refresh"
    BY Asking DEF CheckRefresh
<1>2. PICK c \in CallNames :
        /\ c.at = "checked" /\ c.access = call.access /\ c.user = call.user /\ c.role = call.role
        /\ c.refresh = call.refresh /\ c.got = call.got /\ c.mixed = call.mixed
        /\ asking' = [asking EXCEPT ![t] = c]
    <2> DEFINE c == [call EXCEPT !.at = "checked"]
    <2>1. /\ c \in CallNames /\ c.at = "checked" /\ c.access = call.access /\ c.user = call.user
          /\ c.role = call.role /\ c.refresh = call.refresh /\ c.got = call.got
          /\ c.mixed = call.mixed
        BY <1>1 DEF CallNames, Steps
    <2>2. asking' = [asking EXCEPT ![t] = c]
        BY DEF CheckRefresh
    <2> HIDE DEF c
    <2> QED BY <2>1, <2>2
<1>3. CallFits(c)
    BY <1>1, <1>2 DEF CallFits, Asks, Renews
<1>4. UNCHANGED <<roleOf, issued, live, tab, cookie, leaving>>
    BY DEF CheckRefresh, server
<1> QED BY <1>2, <1>3, <1>4, CallMoves

LEMMA AbandonPreserves ==
    ASSUME SessionInv, NEW t \in Tabs, Abandon(t)
    PROVE  SessionInv'
<1>1. /\ asking' = [asking EXCEPT ![t] = Idle]
      /\ UNCHANGED <<roleOf, issued, live, tab, cookie, leaving>>
    BY DEF Abandon, server
<1> QED BY <1>1, IdleFits, CallMoves DEF SessionInv

\* A tab stores an answer or is loaded: its session, the cookies and its call change.
Moves(t, s, k, c) ==
    /\ HeldFits(s) /\ HeldFits(k) /\ CallFits(c) /\ c.at # "issued"
    /\ tab' = [tab EXCEPT ![t] = s] /\ cookie' = k /\ asking' = [asking EXCEPT ![t] = c]
    /\ UNCHANGED <<roleOf, issued, live>> /\ leaving' \subseteq Tabs

\* No pair that is on its way shows up, and the cookies lead as before.
Agrees(t, s, k, c) ==
    /\ \A u \in Tabs \ {t} : asking[u].at = "issued" =>
         asking[u].got \notin {s.access, k.access, c.access}
    /\ c.at \in {"me", "answered"} /\ k.access = c.access =>
         s.access = c.access /\ (s.mixed => k.mixed)
    /\ \A u \in Tabs \ {t} :
         asking[u].at \in {"me", "answered"} /\ k.access = asking[u].access =>
             cookie.access = k.access /\ (cookie.mixed => k.mixed)

LEMMA TabMoves ==
    ASSUME SessionInv, NEW t \in Tabs, NEW s \in Sessions, NEW k \in Sessions, NEW c \in CallNames,
           Moves(t, s, k, c), Agrees(t, s, k, c)
    PROVE  SessionInv'
<1> USE DEF Moves, Agrees
<1>1. /\ tab \in [Tabs -> Sessions] /\ tab'[t] = s /\ \A u \in Tabs \ {t} : tab'[u] = tab[u]
      /\ asking \in [Tabs -> CallNames] /\ asking'[t] = c
      /\ \A u \in Tabs \ {t} : asking'[u] = asking[u]
    BY DEF SessionInv, Typed
<1>2. Typed'
    BY <1>1 DEF SessionInv, Typed
<1>3. IssuedFits'
    BY DEF SessionInv, IssuedFits, Grew
<1>4. AllHeldFit'
    <2>1. \A u \in Tabs : HeldFits(tab'[u])
        BY <1>1 DEF SessionInv, AllHeldFit
    <2>2. \A u \in Tabs : HeldFits(tab[u])'
        BY <2>1 DEF HeldFits, Whole
    <2>3. HeldFits(cookie)'
        BY DEF HeldFits, Whole
    <2> QED BY <2>2, <2>3 DEF AllHeldFit
<1>5. CallsFit'
    <2>1. \A u \in Tabs : CallFits(asking'[u])
        BY <1>1 DEF SessionInv, CallsFit
    <2>2. \A u \in Tabs : CallFits(asking[u])'
        BY <2>1 DEF CallFits, Asks, Knows, Renews, Got
    <2> QED BY <2>2 DEF CallsFit
<1>6. CookieLeads'
    <2>1. ASSUME NEW u \in Tabs, asking'[u].at \in {"me", "answered"}, k.access = asking'[u].access
          PROVE  tab'[u].access = asking'[u].access /\ (tab'[u].mixed => k.mixed)
        <3>1. CASE u = t
            BY <1>1, <2>1, <3>1
        <3>2. CASE u # t
            BY <1>1, <2>1, <3>2 DEF SessionInv, CookieLeads
        <3> QED BY <3>1, <3>2
    <2> QED BY <2>1 DEF CookieLeads
<1>7. GotFresh'
    <2>1. \A u \in Tabs : asking'[u].at = "issued" => u # t /\ asking'[u] = asking[u]
        BY <1>1
    <2>2. ASSUME NEW u \in Tabs \ {t}, asking[u].at = "issued"
          PROVE  /\ cookie'.access # asking[u].got
                 /\ \A v \in Tabs : /\ tab'[v].access # asking[u].got
                                   /\ asking'[v].access # asking[u].got
        BY <1>1, <2>2 DEF SessionInv, GotFresh, Fresh
    <2>3. \A u, v \in Tabs : u # v /\ asking[u].at = "issued" /\ asking[v].at = "issued"
                               => asking[v].got # asking[u].got
        BY DEF SessionInv, GotFresh
    <2> QED BY <2>1, <2>2, <2>3 DEF GotFresh, Fresh
<1> QED BY <1>2, <1>3, <1>4, <1>5, <1>6, <1>7 DEF SessionInv

LEMMA LoadPreserves ==
    ASSUME SessionInv, NEW t \in Tabs, Load(t)
    PROVE  SessionInv'
<1>1. cookie \in Sessions /\ HeldFits(cookie)
    BY DEF SessionInv, Typed, AllHeldFit
<1>2. SignedOut \in Sessions /\ HeldFits(SignedOut) /\ SignedOut.access = 0
    <2>1. Len(issued) \in Nat
        BY IssuedNumbers DEF SessionInv
    <2> QED BY <2>1 DEF SignedOut, Sessions, HeldFits
<1>3. PICK s \in Sessions :
        /\ s = Restored /\ HeldFits(s) /\ tab' = [tab EXCEPT ![t] = s]
        /\ s = cookie \/ s.access = 0
    BY <1>1, <1>2 DEF Load, Restored
<1>4. PICK c \in CallNames :
        /\ CallFits(c) /\ asking' = [asking EXCEPT ![t] = c] /\ c.at \in {"idle", "me"}
        /\ c.access = s.access /\ (c.at = "me" => s = cookie)
    <2>1. CASE s.access = 0
        BY <1>3, <2>1, IdleFits DEF Load, SessionInv
    <2>2. CASE s.access # 0
        <3> DEFINE c == [Idle EXCEPT !.at = "me", !.access = s.access]
        <3>1. /\ c \in CallNames /\ c.at = "me" /\ c.access = s.access /\ c.refresh = 0 /\ c.got = 0
            BY <1>3 DEF Idle, CallNames, Sessions, Steps
        <3>2. asking' = [asking EXCEPT ![t] = c]
            BY <1>3, <2>2 DEF Load
        <3> HIDE DEF c
        <3>3. s.access \in DOMAIN issued /\ s.access \in 0..Len(issued) /\ 0 \in 0..Len(issued)
            BY <1>3, <2>2, IssuedNumbers DEF HeldFits, SessionInv
        <3>4. CallFits(c)
            BY <3>1, <3>3 DEF CallFits, Asks
        <3> QED BY <1>3, <2>2, <3>1, <3>2, <3>4
    <2> QED BY <2>1, <2>2
<1>5. \A u \in Tabs \ {t} : asking[u].at = "issued" =>
          asking[u].got \notin {s.access, cookie.access, c.access}
    <2>1. \A u \in Tabs : asking[u].at = "issued" =>
            Fresh(asking[u].got) /\ asking[u].got \in DOMAIN issued
        BY DEF SessionInv, GotFresh, CallsFit, CallFits, Got
    <2>2. 0 \notin DOMAIN issued
        BY IssuedNumbers DEF SessionInv
    <2> QED BY <1>3, <1>4, <2>1, <2>2 DEF Fresh
<1>6. UNCHANGED <<roleOf, issued, live>> /\ cookie' = cookie /\ leaving' \subseteq Tabs
    BY DEF Load, server, SessionInv, Typed
<1>7. PICK k \in Sessions : k = cookie /\ HeldFits(k)
    BY <1>1
<1>8. Moves(t, s, k, c)
    BY <1>3, <1>4, <1>6, <1>7 DEF Moves
<1>9. Agrees(t, s, k, c)
    BY <1>4, <1>5, <1>7 DEF Agrees
<1> QED BY <1>8, <1>9, TabMoves

LEMMA KeepUserPreserves ==
    ASSUME SessionInv, NEW t \in Tabs, KeepUser(t)
    PROVE  SessionInv'
<1> DEFINE call == asking[t]
<1>1. /\ call \in CallNames /\ CallFits(call) /\ call.at = "answered"
      /\ call.access \in DOMAIN issued /\ call.access # 0 /\ Knows(call)
    <2>1. 0 \notin DOMAIN issued
        BY IssuedNumbers DEF SessionInv
    <2> QED BY <2>1, Asking DEF KeepUser, CallFits, Asks
<1>2. call.user \in Users /\ call.role \in Roles
    BY <1>1, IssuedNumbers DEF Knows, SessionInv, Payload
<1>3. ASSUME NEW r \in Sessions, HeldFits(r),
             r.access = call.access /\ ~r.mixed => issued[call.access].role = call.role
      PROVE  \E q \in Sessions :
               /\ q = WithUser(r, call) /\ HeldFits(q) /\ q.access = r.access
               /\ (r.mixed => q.mixed) /\ (~q.mixed => r.access = call.access)
    <2> DEFINE q == WithUser(r, call)
    <2>1. /\ q \in Sessions /\ q.user = call.user /\ q.role = call.role /\ q.access = r.access
          /\ q.refresh = r.refresh /\ q.mixed = (r.mixed \/ r.access # call.access)
        BY <1>2 DEF WithUser, Sessions
    <2> HIDE DEF q
    <2>2. ASSUME ~q.mixed PROVE Whole(q)
        <3>1. ~r.mixed /\ r.access = call.access /\ Whole(r)
            BY <1>1, <1>3, <2>1, <2>2 DEF HeldFits
        <3>2. issued[call.access] \in Payload
            BY <1>1, IssuedNumbers DEF SessionInv
        <3>3. issued[call.access].user = call.user /\ issued[call.access].role = call.role
            BY <1>1, <1>3, <3>1 DEF Knows
        <3>4. issued[call.access] = [user |-> call.user, role |-> call.role]
            BY <3>2, <3>3 DEF Payload
        <3> QED BY <2>1, <3>1, <3>4 DEF Whole
    <2>3. q.user # NoUser /\ q.role # NoRole
        BY <1>2, <2>1, SessionAssumption DEF Roles, NoRole
    <2>4. HeldFits(q)
        BY <1>3, <2>1, <2>2, <2>3 DEF HeldFits
    <2> QED BY <2>1, <2>4 DEF q
<1>4. tab[t] \in Sessions /\ HeldFits(tab[t]) /\ cookie \in Sessions /\ HeldFits(cookie)
    BY DEF SessionInv, Typed, AllHeldFit
<1>5. tab[t].access = call.access /\ ~tab[t].mixed => issued[call.access].role = call.role
    <2> SUFFICES ASSUME tab[t].access = call.access, ~tab[t].mixed
                 PROVE  issued[call.access].role = call.role
        OBVIOUS
    <2>1. Whole(tab[t]) /\ tab[t].refresh # 0
        BY <1>1, <1>4 DEF HeldFits, Whole
    <2>2. issued[call.access].role = tab[t].role
        BY <2>1 DEF Whole
    <2> QED BY <2>1, <2>2 DEF KeepUser, RoleChanged
<1>6. cookie.access = call.access /\ ~cookie.mixed => issued[call.access].role = call.role
    BY <1>1, <1>5 DEF SessionInv, CookieLeads
<1>7. PICK s \in Sessions :
        s = WithUser(tab[t], call) /\ HeldFits(s) /\ s.access = tab[t].access
    BY <1>3, <1>4, <1>5
<1>8. PICK k \in Sessions :
        /\ k = WithUser(cookie, call) /\ HeldFits(k) /\ k.access = cookie.access
        /\ cookie.mixed => k.mixed
    BY <1>3, <1>4, <1>6
<1>9. /\ tab' = [tab EXCEPT ![t] = s] /\ cookie' = k /\ asking' = [asking EXCEPT ![t] = Idle]
      /\ UNCHANGED <<roleOf, issued, live>> /\ leaving' \subseteq Tabs
    BY <1>7, <1>8 DEF KeepUser, SetUser, server, SessionInv, Typed
<1>10. \A u \in Tabs \ {t} : asking[u].at = "issued" =>
          asking[u].got \notin {s.access, k.access, Idle.access}
    <2>1. \A u \in Tabs : asking[u].at = "issued" =>
            Fresh(asking[u].got) /\ asking[u].got \in DOMAIN issued
        BY DEF SessionInv, GotFresh, CallsFit, CallFits, Got
    <2>2. 0 \notin DOMAIN issued /\ Idle.access = 0
        BY IssuedNumbers, IdleFits DEF SessionInv
    <2> QED BY <1>7, <1>8, <2>1, <2>2 DEF Fresh
<1>11. PICK c \in CallNames : c = Idle /\ CallFits(c) /\ c.at = "idle"
    BY IdleFits DEF SessionInv
<1>12. Moves(t, s, k, c)
    BY <1>7, <1>8, <1>9, <1>11 DEF Moves
<1>13. Agrees(t, s, k, c)
    BY <1>8, <1>10, <1>11 DEF Agrees
<1> QED BY <1>12, <1>13, TabMoves

LEMMA StorePairPreserves ==
    ASSUME SessionInv, NEW t \in Tabs, StorePair(t)
    PROVE  SessionInv'
<1> DEFINE call == asking[t]
<1>1. /\ call \in CallNames /\ CallFits(call) /\ call.at = "issued"
      /\ call.access \in DOMAIN issued /\ Renews(call) /\ Got(call) /\ Fresh(call.got)
    BY Asking DEF StorePair, CallFits, Asks, SessionInv, GotFresh
<1>2. /\ call.user \in Users /\ call.role \in Roles /\ call.got \in DOMAIN issued
      /\ call.got \in 0..Len(issued) /\ call.got # 0
    BY <1>1, IssuedNumbers DEF Renews, Got, SessionInv, Payload, CallFits
<1>3. PICK s \in Sessions :
        /\ s.user = call.user /\ s.role = call.role /\ s.access = call.got /\ s.refresh = call.got
        /\ s.mixed = call.mixed /\ tab' = [tab EXCEPT ![t] = s] /\ cookie' = s
    <2> DEFINE s == [user |-> call.user, role |-> call.role, access |-> call.got,
                     refresh |-> call.got, mixed |-> call.mixed]
    <2>1. /\ s \in Sessions /\ s.user = call.user /\ s.role = call.role /\ s.access = call.got
          /\ s.refresh = call.got /\ s.mixed = call.mixed
        BY <1>1, <1>2 DEF Sessions, CallNames
    <2>2. tab' = [tab EXCEPT ![t] = s] /\ cookie' = s
        BY DEF StorePair, SetSession
    <2> HIDE DEF s
    <2> QED BY <2>1, <2>2
<1>4. HeldFits(s)
    <2>1. issued[call.got] \in Payload
        BY <1>2, IssuedNumbers DEF SessionInv
    <2>2. ASSUME ~s.mixed PROVE Whole(s)
        <3>1. issued[call.got].user = s.user /\ issued[call.got].role = s.role
            BY <1>1, <1>3, <2>2 DEF Got
        <3>2. issued[call.got] = [user |-> s.user, role |-> s.role]
            BY <2>1, <3>1 DEF Payload
        <3> QED BY <1>2, <1>3, <3>2 DEF Whole
    <2>3. s.user # NoUser /\ s.role # NoRole
        BY <1>2, <1>3, SessionAssumption DEF Roles, NoRole
    <2> QED BY <1>2, <1>3, <2>2, <2>3 DEF HeldFits
<1>5. PICK c \in CallNames : c = Idle /\ CallFits(c) /\ c.at = "idle" /\ c.access = 0
    BY IdleFits DEF SessionInv
<1>6. Moves(t, s, s, c)
    <2>1. /\ asking' = [asking EXCEPT ![t] = c] /\ UNCHANGED <<roleOf, issued, live>>
          /\ leaving' \subseteq Tabs
        BY <1>5 DEF StorePair, server, SessionInv, Typed
    <2> QED BY <1>3, <1>4, <1>5, <2>1 DEF Moves
<1>7. Agrees(t, s, s, c)
    <2>1. \A u \in Tabs \ {t} : asking[u].at = "issued" =>
            asking[u].got # call.got /\ asking[u].got \in DOMAIN issued
        BY <1>1 DEF SessionInv, GotFresh, CallsFit, CallFits, Got
    <2>2. 0 \notin DOMAIN issued
        BY IssuedNumbers DEF SessionInv
    <2>3. \A u \in Tabs : asking[u].access # call.got
        BY <1>1 DEF Fresh
    <2> QED BY <1>3, <1>5, <2>1, <2>2, <2>3 DEF Agrees
<1> QED BY <1>6, <1>7, TabMoves

LEMMA RotatePreserves ==
    ASSUME SessionInv, NEW t \in Tabs, Rotate(t)
    PROVE  SessionInv'
<1> DEFINE call == asking[t]
<1>1. /\ call \in CallNames /\ CallFits(call) /\ call.at = "checked"
      /\ call.access \in DOMAIN issued /\ Renews(call)
    BY Asking DEF Rotate, CallFits, Asks
<1> DEFINE u == issued[call.refresh].user
<1>2. u \in Users /\ call.refresh \in DOMAIN issued
    BY <1>1, IssuedNumbers DEF Renews, SessionInv, Payload
<1>3. Issue(u) /\ UNCHANGED <<roleOf, tab, cookie, leaving>>
    BY DEF Rotate
<1>4. PICK n \in Nat \ {0} :
        /\ n = Len(issued') /\ n = Len(issued) + 1 /\ n <= MaxIssued /\ n \notin DOMAIN issued
        /\ Extends /\ n \in DOMAIN issued' /\ issued'[n].user = u /\ issued'[n].role = roleOf[u]
    BY <1>2, <1>3, Issues DEF SessionInv
<1>5. PICK c \in CallNames :
        /\ c.at = "issued" /\ c.access = call.access /\ c.user = call.user /\ c.role = call.role
        /\ c.refresh = call.refresh /\ c.got = n /\ c.mixed = call.mixed
        /\ asking' = [asking EXCEPT ![t] = c] /\ live' = (live \ {call.refresh}) \cup {n}
    <2> DEFINE c == [call EXCEPT !.at = "issued", !.got = n]
    <2>1. /\ c \in CallNames /\ c.at = "issued" /\ c.access = call.access /\ c.user = call.user
          /\ c.role = call.role /\ c.refresh = call.refresh /\ c.got = n /\ c.mixed = call.mixed
        BY <1>1, <1>4 DEF CallNames, Steps
    <2>2. asking' = [asking EXCEPT ![t] = c] /\ live' = (live \ {call.refresh}) \cup {n}
        BY <1>4 DEF Rotate
    <2> HIDE DEF c
    <2> QED BY <2>1, <2>2
<1>6. /\ asking \in [Tabs -> CallNames] /\ asking'[t] = c
      /\ \A v \in Tabs \ {t} : asking'[v] = asking[v]
    BY <1>5 DEF SessionInv, Typed
<1>7. Grows
    BY <1>3 DEF Grows
<1>8. Typed'
    <2>1. live \subseteq 1..Len(issued) /\ Len(issued) \in Nat
        BY IssuedNumbers DEF SessionInv, Typed
    <2>2. 1..n = (1..Len(issued)) \cup {n}
        BY <1>4, <2>1
    <2>3. live' \subseteq 1..Len(issued')
        BY <1>4, <1>5, <2>1, <2>2
    <2> QED BY <1>3, <1>4, <1>5, <1>6, <2>3 DEF SessionInv, Typed, Extends
<1>9. IssuedFits'
    BY <1>2, <1>3, IssuedStillFits
<1>10. AllHeldFit'
    <2>1. \A r \in Sessions : HeldFits(r) => HeldFits(r)'
        BY <1>4, HeldKept DEF SessionInv
    <2> QED BY <1>3, <2>1 DEF SessionInv, Typed, AllHeldFit
<1>11. \A d \in CallNames : CallFits(d) => CallFits(d)'
    BY <1>4, <1>7, CallKept DEF SessionInv
<1>12. CallFits(c)'
    <2>1. PICK d \in CallNames : d = call /\ CallFits(d)
        BY <1>1
    <2>2. Asks(d)' /\ Renews(d)' /\ CallFits(d)'
        BY <1>1, <1>11, <2>1 DEF CallFits
    <2>3. Asks(c)' /\ Renews(c)'
        BY <1>5, <2>1, <2>2 DEF Asks, Renews
    <2>4. c.access \in 0..Len(issued') /\ c.refresh \in 0..Len(issued') /\ c.got \in 0..Len(issued')
        BY <1>4, <1>5, <2>1, <2>2 DEF CallFits
    <2>5. Got(c)'
        <3>1. c.got \in DOMAIN issued'
            BY <1>4, <1>5
        <3>2. ASSUME ~c.mixed PROVE u = c.user /\ roleOf[u] = c.role
            BY <1>1, <1>5, <3>2 DEF Renews
        <3> QED BY <1>4, <1>5, <3>1, <3>2 DEF Got
    <2> QED BY <1>5, <2>3, <2>4, <2>5 DEF CallFits
<1>13. CallsFit'
    <2>1. \A v \in Tabs : v # t => CallFits(asking[v])'
        <3>1. ASSUME NEW v \in Tabs, v # t PROVE CallFits(asking[v])'
            <4>1. PICK d \in CallNames : d = asking[v] /\ CallFits(d)
                BY <1>6 DEF SessionInv, CallsFit
            <4>2. CallFits(d)' /\ asking'[v] = d
                BY <1>6, <1>11, <3>1, <4>1
            <4> QED BY <4>2 DEF CallFits, Asks, Knows, Renews, Got
        <3> QED BY <3>1
    <2>2. CallFits(asking[t])'
        BY <1>6, <1>12 DEF CallFits, Asks, Knows, Renews, Got
    <2> QED BY <2>1, <2>2 DEF CallsFit
<1>14. CookieLeads'
    BY <1>3, <1>5, <1>6 DEF SessionInv, CookieLeads
<1>15. GotFresh'
    <2>1. ASSUME NEW v \in Tabs
          PROVE  tab'[v].access # n /\ asking'[v].access # n /\ cookie'.access # n
        <3>1. tab[v].access \in 0..Len(issued) /\ cookie.access \in 0..Len(issued)
              /\ asking[v].access \in 0..Len(issued) /\ asking'[v].access = asking[v].access
            BY <1>5, <1>6 DEF SessionInv, AllHeldFit, HeldFits, CallsFit, CallFits
        <3>2. n \notin 0..Len(issued)
            BY <1>4, IssuedNumbers DEF SessionInv
        <3> QED BY <1>3, <3>1, <3>2
    <2>2. \A v \in Tabs \ {t} : asking[v].at = "issued" => asking[v].got # n
        BY <1>4 DEF SessionInv, CallsFit, CallFits, Got
    <2>3. \A v \in Tabs : asking'[v].access = asking[v].access
        BY <1>5, <1>6
    <2>4. \A v \in Tabs \ {t} : asking'[v].at = "issued" =>
            Fresh(asking[v].got) /\ asking'[v] = asking[v]
        BY <1>6 DEF SessionInv, GotFresh
    <2>5. \A v, w \in Tabs \ {t} : v # w /\ asking[v].at = "issued" /\ asking[w].at = "issued"
                               => asking[v].got # asking[w].got
        BY DEF SessionInv, GotFresh
    <2> QED BY <1>3, <1>5, <1>6, <2>1, <2>2, <2>3, <2>4, <2>5 DEF GotFresh, Fresh
<1> QED BY <1>8, <1>9, <1>10, <1>13, <1>14, <1>15 DEF SessionInv

LEMMA NextPreserves == SessionInv /\ [Next]_vars => SessionInv'
<1> SUFFICES ASSUME SessionInv, [Next]_vars PROVE SessionInv'
    OBVIOUS
<1>1. ASSUME NEW t \in Tabs, NEW u \in Users, Login(t, u) PROVE SessionInv'
    BY <1>1, LoginPreserves
<1>2. ASSUME NEW u \in Users, Approve(u) PROVE SessionInv'
    BY <1>2, ApprovePreserves
<1>3. ASSUME NEW t \in Tabs, LoggedOut(t) \/ handle401(t) PROVE SessionInv'
    BY <1>3, ClearPreserves
<1>4. ASSUME NEW t \in Tabs, Logout(t) PROVE SessionInv'
    <2>1. live' \subseteq live /\ leaving' \subseteq Tabs
        BY <1>4 DEF Logout, SessionInv, Typed
    <2>2. UNCHANGED <<roleOf, issued, tab, cookie, asking>>
        BY <1>4 DEF Logout
    <2>3. live' \subseteq 1..Len(issued)
        BY <2>1 DEF SessionInv, Typed
    <2> QED BY <2>1, <2>2, <2>3, QuietPreserves
<1>5. ASSUME NEW t \in Tabs, Load(t) PROVE SessionInv'
    BY <1>5, LoadPreserves
<1>6. ASSUME NEW t \in Tabs, Me(t) \/ AskRefresh(t) \/ CheckRefresh(t) \/ Abandon(t) PROVE SessionInv'
    BY <1>6, MePreserves, AskRefreshPreserves, CheckRefreshPreserves, AbandonPreserves
<1>7. ASSUME NEW t \in Tabs, KeepUser(t) PROVE SessionInv'
    BY <1>7, KeepUserPreserves
<1>8. ASSUME NEW t \in Tabs, Rotate(t) PROVE SessionInv'
    BY <1>8, RotatePreserves
<1>9. ASSUME NEW t \in Tabs, StorePair(t) PROVE SessionInv'
    BY <1>9, StorePairPreserves
<1>10. CASE UNCHANGED vars
    BY <1>10, QuietPreserves DEF vars, server, SessionInv, Typed
<1> QED BY <1>1, <1>2, <1>3, <1>4, <1>5, <1>6, <1>7, <1>8, <1>9, <1>10 DEF Next

-----------------------------------------------------------------------------
\* The invariant holds in every reachable state, for any number of tabs, users and
\* token pairs.
THEOREM SessionInductive == Spec => []SessionInv
<1>1. Init => SessionInv
    BY InitFits
<1>2. SessionInv /\ [Next]_vars => SessionInv'
    BY NextPreserves
<1> QED BY <1>1, <1>2, PTL DEF Spec

\* TypeOK: each variable has its type, and a stored user goes with a stored role.
THEOREM SessionTypeCorrect == Spec => []TypeOK
<1>1. SessionInv => TypeOK
    BY InvImplies
<1> QED BY <1>1, SessionInductive, PTL

\* SessionsAreWhole: what a tab or the cookies hold is of one sign-in of one user and
\* says what its tokens say, unless an answer of refreshUser was stored with a session
\* it was not asked for.
THEOREM StoredSessionsAreWhole == Spec => []SessionsAreWhole
<1>1. SessionInv => SessionsAreWhole
    BY InvImplies
<1> QED BY <1>1, SessionInductive, PTL

LEMMA ClaimsAreStored ==
    SessionInv => \A t \in Tabs : tab[t].mixed \/ Claimed(t) = tab[t].role
<1> SUFFICES ASSUME SessionInv, NEW t \in Tabs, ~tab[t].mixed PROVE Claimed(t) = tab[t].role
    OBVIOUS
<1>1. CASE Whole(tab[t])
    BY <1>1 DEF Whole, Claimed
<1>2. CASE tab[t].access = 0 /\ tab[t].role = NoRole
    BY <1>2 DEF Claimed
<1> QED BY <1>1, <1>2, Asking DEF HeldFits

-----------------------------------------------------------------------------
(***************************************************************************)
(* What the pages ask for.                                                 *)
(***************************************************************************)
\* The API does not answer the request 403, nor 400 for its fields.
Granted(request, role) == StatusOf(request, role) \in {200, 401}

\* A request is granted by a route that is for the role and takes its fields.
LEMMA RequestGranted ==
    ASSUME NEW request, NEW role, NEW route,
           Routes[request.to[1]][request.to[2]] = route,
           Permitted(route, role), WellFormed(route, request)
    PROVE  Granted(request, role)
BY DEF Granted, StatusOf

\* The same of a plain request.
LEMMA AskGranted ==
    ASSUME NEW c, NEW h, NEW fields, NEW role, NEW route, Routes[c][h] = route,
           Permitted(route, role), fields \subseteq route.fields
    PROVE  Granted(Ask(c, h, fields), role)
<1> DEFINE request == Ask(c, h, fields)
<1>1. request.to[1] = c /\ request.to[2] = h /\ request.sends = fields /\ request.limit = 0
    BY DEF Ask
<1> HIDE DEF request
<1>2. WellFormed(route, request)
    BY <1>1 DEF WellFormed, MaxLimit
<1>3. Granted(request, role)
    BY <1>1, <1>2, RequestGranted
<1> QED BY <1>3 DEF request

\* The same of a listing, with its limit.
LEMMA ListGranted ==
    ASSUME NEW c, NEW h, NEW fields, NEW n \in 0..MaxLimit, NEW role, NEW route,
           Routes[c][h] = route,
           Permitted(route, role), fields \cup {"limit"} \subseteq route.fields
    PROVE  Granted(List(c, h, fields, n), role)
<1> DEFINE request == List(c, h, fields, n)
<1>1. /\ request.to[1] = c /\ request.to[2] = h
      /\ request.sends = fields \cup {"limit"} /\ request.limit = n
    BY DEF List
<1> HIDE DEF request
<1>2. WellFormed(route, request)
    BY <1>1 DEF WellFormed, MaxLimit
<1>3. Granted(request, role)
    BY <1>1, <1>2, RequestGranted
<1> QED BY <1>3 DEF request

\* The roles and the fields of the three kinds of route.
LEMMA Guards ==
    ASSUME NEW fields, NEW role
    PROVE  /\ Permitted(Public(fields), role) /\ Public(fields).fields = fields
           /\ Permitted(SignedIn(fields), role) /\ SignedIn(fields).fields = fields
           /\ \A roles : /\ role \in roles => Permitted(For(roles, fields), role)
                         /\ For(roles, fields).fields = fields
BY DEF Permitted, Public, SignedIn, For

\* A route for some roles grants to them what fits its DTO.
LEMMA AskFor ==
    ASSUME NEW c, NEW h, NEW roles, NEW dto, NEW role, NEW fields,
           Routes[c][h] = For(roles, dto), role \in roles, fields \subseteq dto
    PROVE  Granted(Ask(c, h, fields), role)
<1>1. Permitted(For(roles, dto), role) /\ For(roles, dto).fields = dto
    BY Guards
<1> QED BY <1>1, AskGranted

\* The same of a listing.
LEMMA ListFor ==
    ASSUME NEW c, NEW h, NEW roles, NEW dto, NEW role, NEW fields, NEW n \in 0..MaxLimit,
           Routes[c][h] = For(roles, dto), role \in roles, fields \cup {"limit"} \subseteq dto
    PROVE  Granted(List(c, h, fields, n), role)
<1>1. Permitted(For(roles, dto), role) /\ For(roles, dto).fields = dto
    BY Guards
<1> QED BY <1>1, ListGranted

\* The routes of AdminController that pages use.
LEMMA AdminRoutes ==
    /\ Routes["admin"]["listEvents"] = For({"ADMIN"}, QueryEventDto \cup {"status"})
    /\ Routes["admin"]["listVenues"] = For({"ADMIN"}, QueryVenueDto)
    /\ Routes["admin"]["listOrganizerSummary"] = For({"ADMIN"}, QueryOrganizerApplication)
    /\ Routes["admin"]["findOrganizerApplication"] = For({"ADMIN"}, {})
    /\ Routes["admin"]["approveOrganizerApplication"] = For({"ADMIN"}, {})
    /\ Routes["admin"]["rejectOrganizerApplication"] = For({"ADMIN"}, {"rejectReason"})
    /\ Routes["admin"]["listOrders"] = For({"ADMIN"}, Paging \cup {"status"})
    /\ Routes["admin"]["findOrder"] = For({"ADMIN"}, {})
    /\ Routes["admin"]["confirmPayment"] = For({"ADMIN"}, {})
    /\ Routes["admin"]["rejectPayment"] = For({"ADMIN"}, {"reason"})
BY DEF Routes, AdminController

\* The routes of events, venues and categories that pages use.
LEMMA CatalogRoutes ==
    /\ Routes["event"]["create"] = For(Managers, CreateEventDto)
    /\ Routes["event"]["update"] = For(Managers, CreateEventDto)
    /\ Routes["event"]["updateStatus"] = For(Managers, {"status"})
    /\ Routes["event"]["delete"] = For(Managers, {})
    /\ Routes["event"]["getAll"] = Public(QueryEventDto)
    /\ Routes["event"]["getById"] = Public({})
    /\ Routes["event"]["getManaged"] = For(Managers, QueryEventDto \cup {"status"})
    /\ Routes["venue"]["create"] = For(Managers, CreateVenueDto)
    /\ Routes["venue"]["update"] = For(Managers, CreateVenueDto)
    /\ Routes["venue"]["delete"] = For(Managers, {})
    /\ Routes["venue"]["findOne"] = Public({})
    /\ Routes["venue"]["findManaged"] = For(Managers, QueryVenueDto)
    /\ Routes["category"]["create"] = For(Managers, CreateCategoryDto)
    /\ Routes["category"]["update"] = For(Managers, CreateCategoryDto)
    /\ Routes["category"]["remove"] = For(Managers, {})
    /\ Routes["category"]["findAll"] = Public(QueryCategoryDto)
BY DEF Routes, EventController, VenueController, CategoryController

\* The routes of sign-in, applications, tickets and orders that pages use.
LEMMA BuyerRoutes ==
    /\ Routes["auth"]["signIn"] = Public({"email", "password"})
    /\ Routes["auth"]["register"] = Public(RegisterDto)
    /\ Routes["auth"]["getMyOrganizerApplication"] = SignedIn({})
    /\ Routes["auth"]["submitOrganizerApplication"] = For({"BUYER"}, OrganizerDto)
    /\ Routes["ticket"]["findAll"] = SignedIn(QueryTicketDto)
    /\ Routes["order"]["create"] = SignedIn(CreateOrderDto)
BY DEF Routes, AuthController, TicketController, OrderController

\* What the pages without a guard, and those of a signed-in user, ask for.
LEMMA PublicRequests ==
    ASSUME NEW role
    PROVE  /\ Granted(useEventsQuery, role)
           /\ Granted(useEventQuery, role)
           /\ Granted(useEventCategoriesQuery, role)
           /\ Granted(useVenueQuery, role)
           /\ Granted(Ask("auth", "signIn", {"email", "password"}), role)
           /\ Granted(Ask("auth", "register",
                          {"name", "email", "password", "role", "organizer"}), role)
<1>1. Granted(useEventsQuery, role)
    <2>1. {"page", "sortBy", "sortOrder", "name"} \cup {"limit"} \subseteq QueryEventDto
        BY DEF QueryEventDto, Paging
    <2> QED BY <2>1, CatalogRoutes, Guards, ListGranted DEF useEventsQuery, MaxLimit
<1>2. Granted(useEventCategoriesQuery, role)
    <2>1. {} \cup {"limit"} \subseteq QueryCategoryDto
        BY DEF QueryCategoryDto, Paging
    <2> QED BY <2>1, CatalogRoutes, Guards, ListGranted DEF useEventCategoriesQuery, MaxLimit
<1>3. Granted(useEventQuery, role) /\ Granted(useVenueQuery, role)
    BY CatalogRoutes, Guards, AskGranted DEF useEventQuery, useVenueQuery
<1>4. Granted(Ask("auth", "signIn", {"email", "password"}), role)
    BY BuyerRoutes, Guards, AskGranted
<1>5. Granted(Ask("auth", "register", {"name", "email", "password", "role", "organizer"}), role)
    BY BuyerRoutes, Guards, AskGranted DEF RegisterDto
<1> QED BY <1>1, <1>2, <1>3, <1>4, <1>5

\* What the pages of a signed-in user ask for; only buyers can apply.
LEMMA BuyerRequests ==
    ASSUME NEW role
    PROVE  /\ Granted(useCreateOrderMutation, role)
           /\ Granted(useMyTicketsQuery, role)
           /\ Granted(useMyOrdersQuery, role)
           /\ Granted(useMyOrganizerApplicationQuery, role)
           /\ role = "BUYER" => Granted(useSubmitOrganizerApplicationMutation, role)
<1>1. Granted(useCreateOrderMutation, role)
    BY BuyerRoutes, Guards, AskGranted DEF useCreateOrderMutation, CreateOrderDto
<1>2. Granted(useMyTicketsQuery, role)
    BY BuyerRoutes, Guards, AskGranted DEF useMyTicketsQuery
<1>3. Granted(useMyOrdersQuery, role)
    <2>1. {"sortBy", "sortOrder"} \cup {"limit"} \subseteq QueryTicketDto
        BY DEF QueryTicketDto, Paging
    <2> QED BY <2>1, BuyerRoutes, Guards, ListGranted DEF useMyOrdersQuery, MaxLimit
<1>4. Granted(useMyOrganizerApplicationQuery, role)
    BY BuyerRoutes, Guards, AskGranted DEF useMyOrganizerApplicationQuery
<1>5. role = "BUYER" => Granted(useSubmitOrganizerApplicationMutation, role)
    <2>1. {"legalName", "tradeName", "document"} \subseteq OrganizerDto
        BY DEF OrganizerDto
    <2>2. Routes["auth"]["submitOrganizerApplication"] = For({"BUYER"}, OrganizerDto)
        BY BuyerRoutes
    <2>3. "BUYER" \in {"BUYER"}
        OBVIOUS
    <2>4. Granted(Ask("auth", "submitOrganizerApplication",
                      {"legalName", "tradeName", "document"}), "BUYER")
        BY <2>1, <2>2, <2>3, AskFor
    <2> QED BY <2>4 DEF useSubmitOrganizerApplicationMutation
<1> QED BY <1>1, <1>2, <1>3, <1>4, <1>5

\* What the forms of organizers and administrators send.
LEMMA FormRequests ==
    ASSUME NEW role \in Managers
    PROVE  \A request \in useEventFormMutation \cup useVenueFormMutation
                            \cup useCategoryFormMutation : Granted(request, role)
<1>1. /\ EventFields \subseteq CreateEventDto /\ VenueFields \subseteq CreateVenueDto
      /\ CategoryFields \subseteq CreateCategoryDto
    BY DEF EventFields, CreateEventDto, VenueFields, CreateVenueDto, CategoryFields,
           CreateCategoryDto
<1>2. \A request \in useEventFormMutation : Granted(request, role)
    <2>1. /\ Granted(Ask("event", "create", EventFields), role)
          /\ Granted(Ask("event", "update", EventFields), role)
        BY <1>1, CatalogRoutes, AskFor
    <2>2. Granted(Ask("event", "updateStatus", {"status"}), role)
        BY CatalogRoutes, AskFor
    <2>3. Granted(Ask("event", "delete", {}), role)
        BY CatalogRoutes, AskFor
    <2> QED BY <2>1, <2>2, <2>3 DEF useEventFormMutation
<1>3. \A request \in useVenueFormMutation : Granted(request, role)
    <2>1. /\ Granted(Ask("venue", "create", VenueFields), role)
          /\ Granted(Ask("venue", "update", VenueFields), role)
        BY <1>1, CatalogRoutes, AskFor
    <2>2. Granted(Ask("venue", "delete", {}), role)
        BY CatalogRoutes, AskFor
    <2> QED BY <2>1, <2>2 DEF useVenueFormMutation
<1>4. \A request \in useCategoryFormMutation : Granted(request, role)
    <2>1. /\ Granted(Ask("category", "create", CategoryFields), role)
          /\ Granted(Ask("category", "update", CategoryFields), role)
        BY <1>1, CatalogRoutes, AskFor
    <2>2. Granted(Ask("category", "remove", {}), role)
        BY CatalogRoutes, AskFor
    <2> QED BY <2>1, <2>2 DEF useCategoryFormMutation
<1> QED BY <1>2, <1>3, <1>4

\* The listings that an administrator and an organizer take from different routes.
LEMMA ManagedEvents ==
    ASSUME NEW role \in Managers, NEW n \in 0..MaxLimit,
           NEW filters \in SUBSET (Sorted \cup {"name", "status"})
    PROVE  Granted(useAdminEventsQuery(role, filters, n), role)
<1>1. filters \cup {"limit"} \subseteq QueryEventDto \cup {"status"}
    BY DEF Sorted, QueryEventDto, Paging
<1>2. role \in {"ADMIN"} => Granted(List("admin", "listEvents", filters, n), role)
    BY <1>1, AdminRoutes, ListFor
<1>3. Granted(List("event", "getManaged", filters, n), role)
    <2>1. Routes["event"]["getManaged"] = For(Managers, QueryEventDto \cup {"status"})
        BY CatalogRoutes
    <2> QED BY <1>1, <2>1, ListFor
<1> QED BY <1>2, <1>3 DEF useAdminEventsQuery

\* The same of venues, with the list of all venues in the form of an event.
LEMMA ManagedVenues ==
    ASSUME NEW role \in Managers
    PROVE  /\ \A n \in 0..MaxLimit : \A filters \in SUBSET (Sorted \cup {"name", "city"}) :
                 Granted(useAdminVenuesQuery(role, filters, n), role)
           /\ Granted(useVenuesQuery(role), role)
<1>1. ASSUME NEW n \in 0..MaxLimit, NEW filters \in SUBSET (Sorted \cup {"name", "city"})
      PROVE  /\ role \in {"ADMIN"} => Granted(List("admin", "listVenues", filters, n), role)
             /\ Granted(List("venue", "findManaged", filters, n), role)
    <2>1. filters \cup {"limit"} \subseteq QueryVenueDto
        BY DEF Sorted, QueryVenueDto, Paging
    <2>2. role \in {"ADMIN"} => Granted(List("admin", "listVenues", filters, n), role)
        BY <2>1, AdminRoutes, ListFor
    <2>3. Granted(List("venue", "findManaged", filters, n), role)
        BY <2>1, CatalogRoutes, ListFor
    <2> QED BY <2>2, <2>3
<1>2. 100 \in 0..MaxLimit /\ {} \in SUBSET (Sorted \cup {"name", "city"})
    BY DEF MaxLimit
<1>3. Granted(useVenuesQuery(role), role)
    BY <1>1, <1>2 DEF useVenuesQuery
<1>4. ASSUME NEW n \in 0..MaxLimit, NEW filters \in SUBSET (Sorted \cup {"name", "city"})
      PROVE  Granted(useAdminVenuesQuery(role, filters, n), role)
    BY <1>1 DEF useAdminVenuesQuery
<1> QED BY <1>3, <1>4

\* The listings of the administration.
LEMMA AdminListings ==
    ASSUME NEW n \in 0..MaxLimit
    PROVE  /\ \A filters \in SUBSET (Sorted \cup {"legalName", "status"}) :
                 Granted(useAdminApplicationsQuery(filters, n), "ADMIN")
           /\ \A filters \in SUBSET (Sorted \cup {"status"}) :
                 Granted(useAdminPaymentsQuery(filters, n), "ADMIN")
<1>0. "ADMIN" \in {"ADMIN"}
    OBVIOUS
<1>1. ASSUME NEW filters \in SUBSET (Sorted \cup {"legalName", "status"})
      PROVE  Granted(useAdminApplicationsQuery(filters, n), "ADMIN")
    <2>1. filters \cup {"limit"} \subseteq QueryOrganizerApplication
        BY DEF Sorted, QueryOrganizerApplication, OrganizerDto, Paging
    <2>2. Granted(List("admin", "listOrganizerSummary", filters, n), "ADMIN")
        BY <1>0, <2>1, AdminRoutes, ListFor
    <2> QED BY <2>2 DEF useAdminApplicationsQuery
<1>2. ASSUME NEW filters \in SUBSET (Sorted \cup {"status"})
      PROVE  Granted(useAdminPaymentsQuery(filters, n), "ADMIN")
    <2>1. filters \cup {"limit"} \subseteq Paging \cup {"status"}
        BY DEF Sorted, Paging
    <2>2. Routes["admin"]["listOrders"] = For({"ADMIN"}, Paging \cup {"status"})
        BY AdminRoutes
    <2>3. Granted(List("admin", "listOrders", filters, n), "ADMIN")
        BY <1>0, <2>1, <2>2, ListFor
    <2> QED BY <2>3 DEF useAdminPaymentsQuery
<1> QED BY <1>1, <1>2

\* The other requests of the administration.
LEMMA AdminRequests ==
    \A request \in {useAdminApplicationQuery, useAdminPaymentDetailQuery}
                      \cup useAdminApplicationMutation \cup useAdminPaymentMutation :
        Granted(request, "ADMIN")
<1>0. "ADMIN" \in {"ADMIN"}
    OBVIOUS
<1>1. /\ Granted(Ask("admin", "findOrganizerApplication", {}), "ADMIN")
      /\ Granted(Ask("admin", "findOrder", {}), "ADMIN")
      /\ Granted(Ask("admin", "approveOrganizerApplication", {}), "ADMIN")
      /\ Granted(Ask("admin", "confirmPayment", {}), "ADMIN")
    BY <1>0, AdminRoutes, AskFor
<1>2. /\ Granted(Ask("admin", "rejectOrganizerApplication", {"rejectReason"}), "ADMIN")
      /\ Granted(Ask("admin", "rejectPayment", {"reason"}), "ADMIN")
    BY <1>0, AdminRoutes, AskFor
<1> QED BY <1>1, <1>2 DEF useAdminApplicationQuery, useAdminPaymentDetailQuery,
           useAdminApplicationMutation, useAdminPaymentMutation

\* What a page is made of.
LEMMA PageRequests ==
    ASSUME NEW middleware, NEW requests
    PROVE  /\ Page(middleware, requests).requests = requests
           /\ Page(middleware, requests).middleware = middleware
BY DEF Page

\* The pages without middleware are granted what they ask for, whoever opens them.
LEMMA PagesForAll ==
    ASSUME NEW role
    PROVE  \A page \in {index, login, cadastro, eventos, eventosId} :
              \A request \in page.requests : Granted(request, role)
<1>1. /\ index.requests = {useEventsQuery}
      /\ eventos.requests = {useEventsQuery}
      /\ eventosId.requests = {useEventQuery, useEventCategoriesQuery}
      /\ login.requests = {Ask("auth", "signIn", {"email", "password"})}
      /\ cadastro.requests =
            {Ask("auth", "register", {"name", "email", "password", "role", "organizer"})}
    BY PageRequests DEF index, login, cadastro, eventos, eventosId
<1> QED BY <1>1, PublicRequests

\* So are the pages of a signed-in user.
LEMMA PagesSignedIn ==
    ASSUME NEW role \in Roles
    PROVE  /\ \A page \in {checkout, ingressos, pedidos, candidatura(role), Page("auth", {})} :
                 \A request \in page.requests : Granted(request, role)
<1>1. /\ \A request \in {useCreateOrderMutation, useMyTicketsQuery, useMyOrdersQuery,
                          useMyOrganizerApplicationQuery} : Granted(request, role)
      /\ role \notin Managers => Granted(useSubmitOrganizerApplicationMutation, role)
    BY BuyerRequests DEF Roles, Managers
<1>2. /\ checkout.requests = {useCreateOrderMutation}
      /\ ingressos.requests = {useMyTicketsQuery}
      /\ pedidos.requests = {useMyOrdersQuery}
      /\ Page("auth", {}).requests = {}
      /\ candidatura(role).requests = {useMyOrganizerApplicationQuery} \cup
            {r \in {useSubmitOrganizerApplicationMutation} : role \notin Managers}
    BY PageRequests DEF checkout, ingressos, pedidos, candidatura
<1> QED BY <1>1, <1>2

\* So are the pages that organizers and administrators share.
LEMMA PagesManaged ==
    ASSUME NEW role \in Managers
    PROVE  \A requests \in {organizador(role).requests, EventListPage(role), EventFormPage(role),
                             CategoryManager, VenueListPage(role), VenueFormPage} :
              \A request \in requests : Granted(request, role)
<1>1. /\ 100 \in 0..MaxLimit /\ 15 \in 0..MaxLimit
      /\ {"page"} \in SUBSET (Sorted \cup {"name", "status"})
      /\ {"page"} \in SUBSET (Sorted \cup {"name", "city"})
    BY DEF MaxLimit, Sorted
<1>2. \A request \in organizador(role).requests : Granted(request, role)
    <2>1. /\ Granted(useAdminEventsQuery(role, {"page"}, 100), role)
          /\ Granted(useAdminVenuesQuery(role, {"page"}, 100), role)
        BY <1>1, ManagedEvents, ManagedVenues
    <2>2. organizador(role).requests = {useAdminEventsQuery(role, {"page"}, 100),
                                        useAdminVenuesQuery(role, {"page"}, 100)}
        BY PageRequests DEF organizador
    <2> QED BY <2>1, <2>2
<1>3. \A request \in EventListPage(role) : Granted(request, role)
    BY <1>1, ManagedEvents DEF EventListPage
<1>4. \A request \in VenueListPage(role) : Granted(request, role)
    BY <1>1, ManagedVenues DEF VenueListPage
<1>5. \A request \in EventFormPage(role) : Granted(request, role)
    BY FormRequests, ManagedVenues, PublicRequests DEF EventFormPage
<1>6. \A request \in VenueFormPage : Granted(request, role)
    BY FormRequests, PublicRequests DEF VenueFormPage
<1>7. \A request \in CategoryManager : Granted(request, role)
    BY FormRequests, PublicRequests DEF CategoryManager
<1> QED BY <1>2, <1>3, <1>4, <1>5, <1>6, <1>7

\* So are the pages of administrators.
LEMMA PagesOfAdmins ==
    \A page \in {admin("ADMIN"), adminOrganizadores, adminOrganizador, adminPedidos, adminPedido} :
        \A request \in page.requests : Granted(request, "ADMIN")
<1>1. /\ 100 \in 0..MaxLimit /\ 15 \in 0..MaxLimit /\ 5 \in 0..MaxLimit /\ 1 \in 0..MaxLimit
      /\ {"page"} \in SUBSET (Sorted \cup {"name", "status"})
      /\ {"page"} \in SUBSET (Sorted \cup {"name", "city"})
      /\ {"page", "status"} \in SUBSET (Sorted \cup {"legalName", "status"})
      /\ {"page", "status"} \in SUBSET (Sorted \cup {"status"})
      /\ "ADMIN" \in Managers
    BY DEF MaxLimit, Sorted, Managers
<1>2. \A request \in admin("ADMIN").requests : Granted(request, "ADMIN")
    <2>1. /\ Granted(useAdminEventsQuery("ADMIN", {"page"}, 100), "ADMIN")
          /\ Granted(useAdminVenuesQuery("ADMIN", {"page"}, 1), "ADMIN")
        BY <1>1, ManagedEvents, ManagedVenues
    <2>2. /\ Granted(useAdminApplicationsQuery({"page", "status"}, 5), "ADMIN")
          /\ Granted(useAdminPaymentsQuery({"page", "status"}, 5), "ADMIN")
        BY <1>1, AdminListings
    <2> QED BY <2>1, <2>2, PageRequests DEF admin
<1>3. /\ \A request \in adminOrganizadores.requests : Granted(request, "ADMIN")
      /\ \A request \in adminPedidos.requests : Granted(request, "ADMIN")
    BY <1>1, AdminListings, PageRequests DEF adminOrganizadores, adminPedidos
<1>4. /\ \A request \in adminOrganizador.requests : Granted(request, "ADMIN")
      /\ \A request \in adminPedido.requests : Granted(request, "ADMIN")
    <2>1. /\ adminOrganizador.requests = {useAdminApplicationQuery} \cup useAdminApplicationMutation
          /\ adminPedido.requests = {useAdminPaymentDetailQuery} \cup useAdminPaymentMutation
        BY PageRequests DEF adminOrganizador, adminPedido
    <2> QED BY <2>1, AdminRequests
<1> QED BY <1>2, <1>3, <1>4

\* The pages that everybody may open, those of a signed-in user, and the others.
PublicPages == {"index", "login", "cadastro", "eventos", "eventosId"}
UserPages == {"checkout", "confirmacao", "minhaConta", "ingressos", "pedidos", "candidatura"}
OrganizerPages ==
    {"organizador", "organizadorEventos", "organizadorEvento", "organizadorCategorias",
     "organizadorLocais", "organizadorLocal"}
AdminPages ==
    {"admin", "adminEventos", "adminEvento", "adminCategorias", "adminLocais", "adminLocal",
     "adminOrganizadores", "adminOrganizador", "adminPedidos", "adminPedido"}

\* There are no other pages.
LEMMA PageNames ==
    ASSUME NEW role
    PROVE  DOMAIN Pages(role) = PublicPages \cup UserPages \cup OrganizerPages \cup AdminPages
BY DEF Pages, PublicPages, UserPages, OrganizerPages, AdminPages

\* The pages by their names.
LEMMA PagesAre ==
    ASSUME NEW role
    PROVE  /\ Pages(role)["index"] = index /\ Pages(role)["login"] = login
           /\ Pages(role)["cadastro"] = cadastro /\ Pages(role)["eventos"] = eventos
           /\ Pages(role)["eventosId"] = eventosId /\ Pages(role)["checkout"] = checkout
           /\ Pages(role)["confirmacao"] = Page("auth", {})
           /\ Pages(role)["minhaConta"] = Page("auth", {})
           /\ Pages(role)["ingressos"] = ingressos /\ Pages(role)["pedidos"] = pedidos
           /\ Pages(role)["candidatura"] = candidatura(role)
           /\ Pages(role)["organizador"] = organizador(role)
           /\ Pages(role)["organizadorEventos"] = Page("organizer", EventListPage(role))
           /\ Pages(role)["organizadorEvento"] = Page("organizer", EventFormPage(role))
           /\ Pages(role)["organizadorCategorias"] = Page("organizer", CategoryManager)
           /\ Pages(role)["organizadorLocais"] = Page("organizer", VenueListPage(role))
           /\ Pages(role)["organizadorLocal"] = Page("organizer", VenueFormPage)
           /\ Pages(role)["admin"] = admin(role)
           /\ Pages(role)["adminEventos"] = Page("admin", EventListPage(role))
           /\ Pages(role)["adminEvento"] = Page("admin", EventFormPage(role))
           /\ Pages(role)["adminCategorias"] = Page("admin", CategoryManager)
           /\ Pages(role)["adminLocais"] = Page("admin", VenueListPage(role))
           /\ Pages(role)["adminLocal"] = Page("admin", VenueFormPage)
           /\ Pages(role)["adminOrganizadores"] = adminOrganizadores
           /\ Pages(role)["adminOrganizador"] = adminOrganizador
           /\ Pages(role)["adminPedidos"] = adminPedidos
           /\ Pages(role)["adminPedido"] = adminPedido
BY DEF Pages

\* The middleware of each page.
LEMMA PageGuards ==
    ASSUME NEW role
    PROVE  /\ \A p \in PublicPages : Pages(role)[p].middleware = "none"
           /\ \A p \in UserPages : Pages(role)[p].middleware = "auth"
           /\ \A p \in OrganizerPages : Pages(role)[p].middleware = "organizer"
           /\ \A p \in AdminPages : Pages(role)[p].middleware = "admin"
<1>1. \A p \in PublicPages : Pages(role)[p].middleware = "none"
    BY PagesAre, PageRequests DEF PublicPages, index, login, cadastro, eventos, eventosId
<1>2. \A p \in UserPages : Pages(role)[p].middleware = "auth"
    BY PagesAre, PageRequests DEF UserPages, checkout, ingressos, pedidos, candidatura
<1>3. \A p \in OrganizerPages : Pages(role)[p].middleware = "organizer"
    <2>1. organizador(role).middleware = "organizer"
        BY PageRequests DEF organizador
    <2>2. \A requests : Page("organizer", requests).middleware = "organizer"
        BY PageRequests
    <2> QED BY <2>1, <2>2, PagesAre DEF OrganizerPages
<1>4. \A p \in AdminPages : Pages(role)[p].middleware = "admin"
    <2>1. /\ admin(role).middleware = "admin" /\ adminOrganizadores.middleware = "admin"
          /\ adminOrganizador.middleware = "admin" /\ adminPedidos.middleware = "admin"
          /\ adminPedido.middleware = "admin"
        BY PageRequests DEF admin, adminOrganizadores, adminOrganizador, adminPedidos, adminPedido
    <2>2. \A requests : Page("admin", requests).middleware = "admin"
        BY PageRequests
    <2> QED BY <2>1, <2>2, PagesAre DEF AdminPages
<1> QED BY <1>1, <1>2, <1>3, <1>4

\* Whom the middleware lets in.
OpenTo(role) == {p \in DOMAIN Pages(role) : Opens(Pages(role)[p], role # NoRole, role)}

\* The pages that open for a role are those of its middlewares.
LEMMA OpenPages ==
    ASSUME NEW role
    PROVE  OpenTo(role) = PublicPages \cup (IF role = NoRole THEN {} ELSE UserPages)
                             \cup (IF role \in Managers THEN OrganizerPages ELSE {})
                             \cup (IF role = "ADMIN" THEN AdminPages ELSE {})
<1>1. ASSUME NEW page
      PROVE  /\ page.middleware = "none" => Opens(page, role # NoRole, role)
             /\ page.middleware = "auth" => (Opens(page, role # NoRole, role) <=> role # NoRole)
             /\ page.middleware = "organizer" =>
                   (Opens(page, role # NoRole, role) <=> role \in Managers)
             /\ page.middleware = "admin" => (Opens(page, role # NoRole, role) <=> role = "ADMIN")
    BY DEF Opens, Managers, NoRole
<1> DEFINE opens(p) == Opens(Pages(role)[p], role # NoRole, role)
<1>2. /\ \A p \in PublicPages : opens(p)
      /\ \A p \in UserPages : opens(p) <=> role # NoRole
      /\ \A p \in OrganizerPages : opens(p) <=> role \in Managers
      /\ \A p \in AdminPages : opens(p) <=> role = "ADMIN"
    BY <1>1, PageGuards
<1> HIDE DEF opens
<1>3. OpenTo(role) = {p \in PublicPages \cup UserPages \cup OrganizerPages \cup AdminPages : opens(p)}
    BY PageNames DEF OpenTo, opens
<1> QED BY <1>2, <1>3

\* Every page that opens is granted what it asks for.
LEMMA OpenPagesServed ==
    ASSUME NEW role \in Roles \cup {NoRole}, NEW p \in OpenTo(role)
    PROVE  \A request \in Pages(role)[p].requests : Granted(request, role)
<1>1. CASE p \in PublicPages
    BY <1>1, PagesAre, PagesForAll DEF PublicPages
<1>2. CASE p \in UserPages /\ role # NoRole
    BY <1>2, PagesAre, PagesSignedIn DEF UserPages
<1>3. CASE p \in OrganizerPages /\ role \in Managers
    BY <1>3, PagesAre, PagesManaged, PageRequests DEF OrganizerPages
<1>4. CASE p \in AdminPages /\ role = "ADMIN"
    <2>1. role \in Managers
        BY <1>4 DEF Managers
    <2>2. CASE p \in {"admin", "adminOrganizadores", "adminOrganizador", "adminPedidos", "adminPedido"}
        BY <1>4, <2>2, PagesAre, PagesOfAdmins
    <2>3. CASE p \in {"adminEventos", "adminEvento", "adminCategorias", "adminLocais", "adminLocal"}
        BY <2>1, <2>3, PagesAre, PagesManaged, PageRequests
    <2> QED BY <1>4, <2>2, <2>3 DEF AdminPages
<1> QED BY <1>1, <1>2, <1>3, <1>4, OpenPages

\* The links that a role is shown lead to pages that open, but for the one to adminLocais.
LEMMA LinksOpen ==
    ASSUME NEW role \in Roles \cup {NoRole}
    PROVE  Links(role) \ {"adminLocais"} \subseteq OpenTo(role)
<1>1. role # NoRole => userMenuItems(role) \subseteq OpenTo(role)
    <2>1. {"minhaConta", "ingressos", "pedidos", "candidatura"} \subseteq UserPages
          /\ "admin" \in AdminPages /\ "organizador" \in OrganizerPages
        BY DEF UserPages, AdminPages, OrganizerPages
    <2>2. "ORGANIZER" \in Managers /\ "ADMIN" \in Managers /\ "ORGANIZER" # "ADMIN"
        BY DEF Managers
    <2> QED BY <2>1, <2>2, OpenPages DEF userMenuItems
<1>2. role \in Managers => visibleItems(role) \ {"adminLocais"} \subseteq OpenTo(role)
    <2>1. {"admin", "adminEventos", "adminOrganizadores", "adminPedidos"} \subseteq AdminPages
          /\ {"organizador", "organizadorEventos", "organizadorLocais"} \subseteq OrganizerPages
        BY DEF AdminPages, OrganizerPages
    <2> QED BY <2>1, OpenPages DEF visibleItems
<1> QED BY <1>1, <1>2 DEF Links

\* Every page that opens for a role is served to that role, and its links open.
LEMMA TablesAgree == \A role \in Roles \cup {NoRole} : role \in Served[role]
<1> SUFFICES ASSUME NEW role \in Roles \cup {NoRole} PROVE role \in Served[role]
    OBVIOUS
<1>1. IsServed(role, role)
    <2>1. \A p \in OpenTo(role) : \A request \in Pages(role)[p].requests :
             StatusOf(request, role) \in {200, 401}
        BY OpenPagesServed DEF Granted
    <2>2. Links(role) \ {"adminLocais"} \subseteq OpenTo(role)
        BY LinksOpen
    <2> QED BY <2>1, <2>2 DEF IsServed, OpenTo
<1> QED BY <1>1 DEF Served

\* PagesAreServed: whatever the tabs do, a page that opens asks only for what the API
\* serves.  The session says that the stored role is the one in the token, the tables
\* that the pages of a role ask for what is granted to it.
THEOREM PagesAlwaysServed == Spec => []PagesAreServed
<1>1. SessionInv => \A t \in Tabs : tab[t].role \in Roles \cup {NoRole}
    BY DEF SessionInv, Typed, Sessions
<1>2. SessionInv => PagesAreServed
    <2> SUFFICES ASSUME SessionInv, NEW t \in Tabs, ~tab[t].mixed
                 PROVE  Claimed(t) \in Served[tab[t].role]
        BY Zenon DEF PagesAreServed
    <2>1. tab[t].role \in Roles \cup {NoRole} /\ Claimed(t) = tab[t].role
        BY <1>1, ClaimsAreStored
    <2> QED BY <2>1, TablesAgree, Zenon
<1> QED BY <1>2, SessionInductive, PTL

=============================================================================
