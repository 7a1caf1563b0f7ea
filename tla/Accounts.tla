------------------------------ MODULE Accounts ------------------------------
(***************************************************************************)
(* Accounts: registration, sessions, organizer applications and their      *)
(* review, and the deletion of an account, over the rows that tie them.    *)
(*                                                                         *)
(* A request runs statement by statement and keeps in memory what it read; *)
(* other requests run in between.  The transactions of the module are one  *)
(* step each, the commit: the rows and keys their checks rest on are       *)
(* locked until then.  What a write may not break is left to the unique    *)
(* columns and the foreign keys.                                           *)
(***************************************************************************)
EXTENDS Integers, FiniteSets, Sequences

CONSTANTS
    Workers,       \* requests that can be under way together
    Users,         \* the ids that accounts are ever given
    Emails,
    EmailOf,       \* EmailOf[u]: the address account u registers with
    Documents,     \* the CPF and CNPJ numbers of organizers
    Asks,          \* the requests made besides refreshing and logging out
    MaxAsks,       \* bound: requests begun
    MaxClock,      \* bound: seconds that pass
    TokenLife,     \* JWT_REFRESH_EXPIRATION as the JWT library reads it
    RowLife,       \* the same as calculateExpiration reads it, 7 days if it cannot
    Absent, Deleted, NoDocument, NoApplication, Unread, NoToken, Idle

VARIABLES
    role,          \* User.role, or no such row
    profile,       \* the document of the user's OrganizerProfile
    application,   \* the user's OrganizerAplication
    filed,         \* how many applications the user has filed; the last one's id
    orders,        \* pairs of a buyer and the organizer whose event was bought
    stored,        \* RefreshToken rows
    given,         \* the refresh tokens that clients have been sent
    clock,         \* in seconds, as the tokens' iat is
    task,          \* the request that each worker runs
    begun,         \* how many requests have begun
    contested      \* history: users whose application was written while another
                   \* request was between its read of it and its write

accounts == <<role, profile, application, filed, orders>>
sessions == <<stored, given>>
vars == <<accounts, sessions, clock, task, begun, contested>>

NoRow == {Absent, Deleted}
Roles == {"BUYER", "ORGANIZER"}
Applications == [id : Nat, status : {"PENDING", "REJECTED"}, document : Documents]

\* One user's tokens of one second are one string: the payload is sub, iat and exp.
Tokens == [user : Users, signed : Nat]

\* The statements of each request, in order.  The first read of submit and of
\* deleteAccount is ActiveUserPipe's; documents are looked for in two tables at once.
Statements ==
    [register      |-> <<"email", "document", "document", "register", "account", "sign", "store">>,
     login         |-> <<"account", "sign", "store">>,
     refresh       |-> <<"token", "account", "revoke", "sign", "store">>,
     logout        |-> <<"revoke">>,
     submit        |-> <<"account", "profile", "application", "document", "document", "submit">>,
     approve       |-> <<"application", "approve">>,
     reject        |-> <<"application", "reject">>,
     order         |-> <<"account", "order">>,
     deleteAccount |-> <<"account", "account", "profile", "orders", "delete">>]

\* "about" is the document registered or submitted, the organizer whose event is
\* bought, or the token presented.
Requests ==
    [op : {"register"}, user : Users, about : Documents \cup {NoDocument}]
    \cup [op : {"submit"}, user : Users, about : Documents]
    \cup [op : {"order"}, user : Users, about : Users]
    \cup [op : {"login", "approve", "reject", "deleteAccount"}, user : Users, about : {NoDocument}]

ASSUME AccountsAssumption ==
    /\ EmailOf \in [Users -> Emails]
    /\ Asks \subseteq Requests
    /\ MaxClock \in Nat /\ TokenLife \in Nat /\ RowLife \in Nat
    /\ Absent # Deleted /\ NoRow \cap Roles = {}
    /\ NoDocument \notin Documents \cup Users
    /\ NoApplication \notin Applications /\ Unread \notin Applications \cup {NoApplication}
    /\ NoToken \notin Tokens

There(u) == role[u] \notin NoRow
Filing(u) == application[u] # NoApplication

\* What a request has in memory when it begins.
Nothing == [profile |-> NoDocument, application |-> Unread,
            tables |-> {"application", "profile"}, token |-> NoToken]

Init ==
    /\ role = [u \in Users |-> Absent]
    /\ profile = [u \in Users |-> NoDocument]
    /\ application = [u \in Users |-> NoApplication]
    /\ filed = [u \in Users |-> 0]
    /\ orders = {}
    /\ stored = {}
    /\ given = {}
    /\ clock = 0
    /\ task = [w \in Workers |-> Idle]
    /\ begun = 0
    /\ contested = {}

At(w, statement) ==
    task[w] # Idle /\ Statements[task[w].ask.op][task[w].at] = statement
Ask(w) == task[w].ask
Subject(w) == task[w].ask.user
Seen(w) == task[w].seen

\* The request goes on to its next statement, or has run its last one.
Continue(w, seen) ==
    task' = [task EXCEPT ![w] =
        IF task[w].at = Len(Statements[Ask(w).op]) THEN Idle
        ELSE [ask |-> Ask(w), at |-> task[w].at + 1, seen |-> seen]]
Refuse(w) == task' = [task EXCEPT ![w] = Idle]

Begin(w) ==
    /\ task[w] = Idle
    /\ begun < MaxAsks
    /\ \E a \in Asks \cup [op : {"refresh", "logout"}, user : Users, about : given] :
        /\ a.op \in {"refresh", "logout"} => a.user = a.about.user
        /\ a.op = "register" => role[a.user] = Absent
        /\ task' = [task EXCEPT ![w] = [ask |-> a, at |-> 1, seen |-> Nothing]]
    /\ begun' = begun + 1
    /\ UNCHANGED <<accounts, sessions, clock, contested>>

Tick ==
    /\ clock < MaxClock
    /\ clock' = clock + 1
    /\ UNCHANGED <<accounts, sessions, task, begun, contested>>

-----------------------------------------------------------------------------
(* The reads.  A request goes on with what it read, or is refused.         *)

Read(w, ok, seen) ==
    /\ IF ok THEN Continue(w, seen) ELSE Refuse(w)
    /\ UNCHANGED <<accounts, sessions, clock, begun, contested>>

\* Mutant: the column is not unique.
EmailTakenNever(m) == FALSE
EmailTaken(m) == \E u \in Users : There(u) /\ EmailOf[u] = m

ReadEmail(w) ==
    /\ At(w, "email")
    /\ Read(w, ~EmailTaken(EmailOf[Subject(w)]), Seen(w))

\* Only a buyer may submit; for the rest the account must be there.
ReadAccount(w) ==
    /\ At(w, "account")
    /\ LET u == Subject(w)
       IN Read(w, There(u) /\ (Ask(w).op = "submit" => role[u] = "BUYER"), Seen(w))

ReadProfile(w) ==
    /\ At(w, "profile")
    /\ LET p == profile[Subject(w)]
       IN Read(w, Ask(w).op = "submit" => p = NoDocument, [Seen(w) EXCEPT !.profile = p])

\* Mutant: any application can be reviewed.
ReviewableAny(op, a) ==
    IF op = "submit" THEN a = NoApplication \/ a.status = "REJECTED" ELSE a # NoApplication

\* A review wants a PENDING application, a submission none or a REJECTED one.
Reviewable(op, a) ==
    IF op = "submit" THEN a = NoApplication \/ a.status = "REJECTED"
    ELSE a # NoApplication /\ a.status = "PENDING"

ReadApplication(w) ==
    /\ At(w, "application")
    /\ LET a == application[Subject(w)]
       IN Read(w, Reviewable(Ask(w).op, a), [Seen(w) EXCEPT !.application = a])

Applied(d) == {u \in Users : Filing(u) /\ application[u].document = d}
Profiled(d) == {u \in Users : profile[u] = d}

\* ensureDocumentIsUnique sends its two reads together: they run in either order.
ReadDocument(w) ==
    /\ At(w, "document")
    /\ \E t \in Seen(w).tables :
        LET d == Ask(w).about
            own == IF Ask(w).op = "submit" THEN {Subject(w)} ELSE {}
            free == IF t = "profile" THEN Profiled(d) = {} ELSE Applied(d) \subseteq own
        IN Read(w, d = NoDocument \/ free, [Seen(w) EXCEPT !.tables = @ \ {t}])

CountOrders(w) ==
    /\ At(w, "orders")
    /\ Read(w, \A o \in orders : o[1] # Subject(w), Seen(w))

-----------------------------------------------------------------------------
(* Sessions.                                                               *)

Live(t) == t \in stored /\ clock < t.signed + TokenLife
RowExpired(t) == t \in stored /\ clock > t.signed + RowLife

\* validateRefreshToken: the signature's own expiry comes first, so the row is
\* looked at, and deleted when expired, only if it expires before the signature.
ReadToken(w) ==
    /\ At(w, "token")
    /\ LET t == Ask(w).about
       IN /\ IF Live(t) /\ ~RowExpired(t) THEN Continue(w, Seen(w)) ELSE Refuse(w)
          /\ stored' = stored \ {x \in {t} : Live(x) /\ RowExpired(x)}
    /\ UNCHANGED <<accounts, given, clock, begun, contested>>

\* deleteMany: whether there was such a row is not looked at.
Revoke(w) ==
    /\ At(w, "revoke")
    /\ stored' = stored \ {Ask(w).about}
    /\ Continue(w, Seen(w))
    /\ UNCHANGED <<accounts, given, clock, begun, contested>>

\* Mutant: tokens without an iat.
StampMissing(u) == [user |-> u, signed |-> 0]
Stamp(u) == [user |-> u, signed |-> clock]

Sign(w) ==
    /\ At(w, "sign")
    /\ Continue(w, [Seen(w) EXCEPT !.token = Stamp(Subject(w))])
    /\ UNCHANGED <<accounts, sessions, clock, begun, contested>>

\* The token column is unique, its user a foreign key.
Storable(t) == t \notin stored /\ There(t.user)

Store(w) ==
    /\ At(w, "store")
    /\ LET t == Seen(w).token
           fresh == {x \in {t} : Storable(x)}
       IN stored' = stored \cup fresh /\ given' = given \cup fresh
    /\ Continue(w, Seen(w))
    /\ UNCHANGED <<accounts, clock, begun, contested>>

-----------------------------------------------------------------------------
(* The writes.  One that the database refuses changes nothing.             *)

\* Worker w writes the application of u.
Contest(w, u) ==
    contested' = contested \cup
        {v \in {u} : \E x \in Workers \ {w} :
            task[x] # Idle /\ Subject(x) = v /\ Seen(x).application # Unread}

Write(w, ok, effect) ==
    /\ IF ok THEN effect /\ Continue(w, Seen(w))
       ELSE Refuse(w) /\ UNCHANGED <<accounts, contested, stored>>
    /\ UNCHANGED <<given, clock, begun>>

File(u, id, d) ==
    application' = [application EXCEPT ![u] = [id |-> id, status |-> "PENDING", document |-> d]]

\* Mutant: every account that is made files an application.
OrganizingAlways(d) == TRUE
Organizing(d) == d # NoDocument

\* UserService.create: the account, and its application, in one transaction.
Register(w) ==
    /\ At(w, "register")
    /\ LET u == Subject(w)
           d == Ask(w).about
       IN Write(w, role[u] = Absent /\ ~EmailTaken(EmailOf[u]) /\ (Organizing(d) => Applied(d) = {}),
            /\ role' = [role EXCEPT ![u] = "BUYER"]
            /\ IF Organizing(d) THEN File(u, 1, d) /\ filed' = [filed EXCEPT ![u] = 1]
               ELSE UNCHANGED <<application, filed>>
            /\ Contest(w, u)
            /\ UNCHANGED <<profile, orders, stored>>)

\* A create if no application was read, else an update of the user's.
Submit(w) ==
    /\ At(w, "submit")
    /\ LET u == Subject(w)
           d == Ask(w).about
           new == Seen(w).application = NoApplication
           ok == There(u) /\ Filing(u) = ~new /\ Applied(d) \subseteq {u}
           id == IF new THEN filed[u] + 1 ELSE filed[u]
       IN Write(w, ok,
            /\ File(u, id, d)
            /\ filed' = [filed EXCEPT ![u] = id]
            /\ Contest(w, u)
            /\ UNCHANGED <<role, profile, orders, stored>>)

\* The application that was read is still there, whatever it says by now.
SameApplication(w) == Filing(Subject(w)) /\ application[Subject(w)].id = Seen(w).application.id

\* Mutant: the role is changed without the profile.
QualifiedLater(u, d) == profile
Qualified(u, d) == [profile EXCEPT ![u] = d]

ApproveApplication(w) ==
    /\ At(w, "approve")
    /\ LET u == Subject(w)
           d == Seen(w).application.document
       IN Write(w, SameApplication(w) /\ profile[u] = NoDocument /\ Profiled(d) = {},
            /\ profile' = Qualified(u, d)
            /\ role' = [role EXCEPT ![u] = "ORGANIZER"]
            /\ application' = [application EXCEPT ![u] = NoApplication]
            /\ Contest(w, u)
            /\ UNCHANGED <<filed, orders, stored>>)

RejectApplication(w) ==
    /\ At(w, "reject")
    /\ LET u == Subject(w)
       IN Write(w, SameApplication(w),
            /\ application' = [application EXCEPT ![u] =
                    [id |-> @.id, status |-> "REJECTED", document |-> @.document]]
            /\ Contest(w, u)
            /\ UNCHANGED <<role, profile, filed, orders, stored>>)

\* A checkout that commits: its buyer and the category's event must still be there.
PlaceOrder(w) ==
    /\ At(w, "order")
    /\ LET o == Ask(w).about
       IN Write(w, There(Subject(w)) /\ profile[o] # NoDocument,
            /\ orders' = orders \cup {<<Subject(w), o>>}
            /\ UNCHANGED <<role, profile, application, filed, contested, stored>>)

\* Mutant: applications and orders cascade.
RemovableCascade(u, organizer) == There(u)

\* What refers to an account and does not go with it: an application, orders, a
\* profile that was not read, and for one that was, the orders of its events.
Removable(u, organizer) ==
    /\ There(u) /\ ~Filing(u)
    /\ \A o \in orders : u \notin {o[1], o[2]}
    /\ organizer \/ profile[u] = NoDocument

DeleteAccount(w) ==
    /\ At(w, "delete")
    /\ LET u == Subject(w)
       IN Write(w, Removable(u, Seen(w).profile # NoDocument),
            /\ role' = [role EXCEPT ![u] = Deleted]
            /\ profile' = [profile EXCEPT ![u] = NoDocument]
            /\ stored' = {t \in stored : t.user # u}
            /\ UNCHANGED <<application, filed, orders, contested>>)

Statement(w) ==
    \/ ReadEmail(w) \/ ReadAccount(w) \/ ReadProfile(w) \/ ReadApplication(w)
    \/ ReadDocument(w) \/ CountOrders(w) \/ ReadToken(w) \/ Revoke(w) \/ Sign(w) \/ Store(w)
    \/ Register(w) \/ Submit(w) \/ ApproveApplication(w) \/ RejectApplication(w)
    \/ PlaceOrder(w) \/ DeleteAccount(w)

Next == Tick \/ \E w \in Workers : Begin(w) \/ Statement(w)

Spec == Init /\ [][Next]_vars

-----------------------------------------------------------------------------

\* Each variable has its type.
TypeOK ==
    /\ role \in [Users -> Roles \cup NoRow]
    /\ profile \in [Users -> Documents \cup {NoDocument}]
    /\ application \in [Users -> Applications \cup {NoApplication}]
    /\ filed \in [Users -> Nat]
    /\ orders \subseteq Users \X Users
    /\ stored \subseteq Tokens
    /\ given \subseteq Tokens
    /\ clock \in Nat
    /\ begun \in Nat
    /\ contested \subseteq Users

\* Nothing is left of an account that is not there: no application, profile, order
\* bought or sold, or session, though what it had was counted before it was
\* deleted, and logins, orders and reviews went on meanwhile (deleteUser, and the
\* foreign keys to User and OrganizerProfile).
GoneAccountsLeaveNothing ==
    \A u \in Users : ~There(u) =>
        /\ ~Filing(u) /\ profile[u] = NoDocument
        /\ \A o \in orders : u \notin {o[1], o[2]}
        /\ \A t \in stored : t.user # u

\* The role and the profile of an organizer come and go together, through any
\* reviews of one application at once (approveOrganizerApplication, deleteUser).
OrganizersHaveProfiles ==
    \A u \in Users : role[u] = "ORGANIZER" <=> profile[u] # NoDocument

\* An address has one account and a document one profile and one application,
\* though each was looked for only before it was inserted (ensureEmailIsUnique,
\* ensureDocumentIsUnique, and the unique columns).
IdentitiesAreUnique ==
    /\ \A u, v \in Users : There(u) /\ There(v) /\ EmailOf[u] = EmailOf[v] => u = v
    /\ \A u, v \in Users : profile[u] = profile[v] /\ profile[u] # NoDocument => u = v
    /\ \A u, v \in Users : Filing(u) /\ Filing(v)
        /\ application[u].document = application[v].document => u = v

\* A refresh token that was rotated or logged out is never made again, once the
\* second in which it was signed is over and no request has it in hand
\* (refreshTokens, logout).  Within that second a rotation makes the same string.
InHand(t) == \E w \in Workers : task[w] # Idle /\ Seen(w).token = t
RevokedStaysRevoked ==
    [][\A t \in given :
        t \notin stored /\ t.signed < clock /\ ~InHand(t) => t \notin stored' /\ ~InHand(t)']_vars

\* An approval makes an organizer of what is under review at that moment, unless
\* two requests about the application overlapped (approveOrganizerApplication
\* acts on what it read before its transaction).
ApprovesWhatIsPending ==
    [][\A u \in Users \ contested' :
        role[u] = "BUYER" /\ role'[u] = "ORGANIZER" =>
            /\ Filing(u) /\ application[u].status = "PENDING"
            /\ profile'[u] = application[u].document]_vars

=============================================================================
