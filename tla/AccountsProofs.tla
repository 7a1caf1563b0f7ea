--------------------------- MODULE AccountsProofs ---------------------------
(***************************************************************************)
(* What holds of Accounts for any users, requests and number of workers.   *)
(***************************************************************************)
EXTENDS Accounts, TLAPS

Ops == {"register", "login", "refresh", "logout", "submit", "approve", "reject", "order",
        "deleteAccount"}

\* What a request is about is of the kind its operation needs.
AskFine(a) ==
    /\ a.op \in Ops
    /\ a.user \in Users
    /\ a.op = "register" => a.about \in Documents \cup {NoDocument}
    /\ a.op = "submit" => a.about \in Documents
    /\ a.op = "order" => a.about \in Users

Seens ==
    [profile : Documents \cup {NoDocument},
     application : Applications \cup {NoApplication, Unread},
     tables : SUBSET {"application", "profile"},
     token : Tokens \cup {NoToken}]

\* A request under way; one about to store a token has signed it, and one about
\* to approve has read an application that was PENDING.
TaskFine(x) ==
    /\ AskFine(x.ask)
    /\ x.at \in 1..Len(Statements[x.ask.op])
    /\ x.seen \in Seens
    /\ x.ask.op = "register" => x.seen.application = Unread
    /\ Statements[x.ask.op][x.at] = "store" => x.seen.token \in Tokens
    /\ Statements[x.ask.op][x.at] = "approve" =>
        x.seen.application \in Applications /\ x.seen.application.status = "PENDING"

TasksFine ==
    /\ task = [w \in Workers |-> task[w]]
    /\ \A w \in Workers : task[w] # Idle => TaskFine(task[w])

\* An application that was read is the one there is, unless it is contested.
ReadsStand ==
    \A w \in Workers : task[w] # Idle /\ Seen(w).application # Unread =>
        (Subject(w) \notin contested => application[Subject(w)] = Seen(w).application)

Consistent == GoneAccountsLeaveNothing /\ OrganizersHaveProfiles /\ IdentitiesAreUnique

AccountsInv == TypeOK /\ Consistent /\ TasksFine /\ ReadsStand

-----------------------------------------------------------------------------
(* Requests and statements.                                                *)

\* Where the statements that matter stand in their requests.
LEMMA StatementOrder ==
    ASSUME NEW op \in Ops, NEW i \in 1..Len(Statements[op])
    PROVE  /\ Statements[op][i] \in {"register", "submit", "approve", "order"} =>
                  op = Statements[op][i]
           /\ Statements[op][i] = "application" => op # "register"
           /\ Statements[op][i] \in {"submit", "approve", "reject", "order", "delete"} =>
                  i = Len(Statements[op])
           /\ i # Len(Statements[op]) =>
                  /\ i + 1 \in 1..Len(Statements[op])
                  /\ Statements[op][i + 1] = "store" => Statements[op][i] = "sign"
                  /\ Statements[op][i + 1] = "approve" =>
                         Statements[op][i] = "application" /\ op = "approve"
<1>1. CASE op = "register"
    BY <1>1 DEF Statements
<1>2. CASE op = "login"
    BY <1>2 DEF Statements
<1>3. CASE op = "refresh"
    BY <1>3 DEF Statements
<1>4. CASE op = "logout"
    BY <1>4 DEF Statements
<1>5. CASE op = "submit"
    BY <1>5 DEF Statements
<1>6. CASE op = "approve"
    BY <1>6 DEF Statements
<1>7. CASE op = "reject"
    BY <1>7 DEF Statements
<1>8. CASE op = "order"
    BY <1>8 DEF Statements
<1>9. CASE op = "deleteAccount"
    BY <1>9 DEF Statements
<1> QED BY <1>1, <1>2, <1>3, <1>4, <1>5, <1>6, <1>7, <1>8, <1>9 DEF Ops

LEMMA FirstStatement ==
    ASSUME NEW op \in Ops
    PROVE  /\ 1 \in 1..Len(Statements[op])
           /\ Statements[op][1] \notin {"store", "approve"}
BY DEF Ops, Statements

\* A request that is in hand is fine.
LEMMA InHandFine ==
    ASSUME TasksFine, NEW w \in Workers, NEW s, At(w, s)
    PROVE  /\ task[w] # Idle /\ TaskFine(task[w])
           /\ Ask(w).op \in Ops /\ Subject(w) \in Users
           /\ Seen(w) \in Seens
           /\ s \in {"register", "submit", "approve", "order"} => Ask(w).op = s
<1>1. task[w] # Idle /\ TaskFine(task[w])
    BY DEF TasksFine, At
<1>2. Ask(w).op \in Ops /\ Subject(w) \in Users /\ Seen(w) \in Seens
    BY <1>1 DEF TaskFine, AskFine, Ask, Subject, Seen
<1>3. s \in {"register", "submit", "approve", "order"} => Ask(w).op = s
    BY <1>1, <1>2, StatementOrder DEF TaskFine, At, Ask
<1> QED BY <1>1, <1>2, <1>3

\* A request that goes on stays fine, if what it read last is what it needs next.
LEMMA ContinueFine ==
    ASSUME TasksFine, NEW w \in Workers, NEW s, At(w, s), NEW seen \in Seens, Continue(w, seen),
           s = "sign" => seen.token \in Tokens,
           s # "application" => seen.application = Seen(w).application,
           s = "application" /\ Ask(w).op = "approve" =>
               seen.application \in Applications /\ seen.application.status = "PENDING"
    PROVE  \E new :
               /\ task' = [task EXCEPT ![w] = new]
               /\ \/ new = Idle
                  \/ TaskFine(new) /\ new.ask = Ask(w) /\ new.seen = seen
                     /\ s \notin {"submit", "approve", "reject", "order", "delete"}
<1>1. /\ task[w] # Idle /\ TaskFine(task[w]) /\ Ask(w).op \in Ops
      /\ task[w].at \in 1..Len(Statements[Ask(w).op])
      /\ Statements[Ask(w).op][task[w].at] = s
    BY InHandFine DEF TaskFine, Ask, At
<1>2. CASE task[w].at = Len(Statements[Ask(w).op])
    BY <1>2 DEF Continue
<1>3. CASE task[w].at # Len(Statements[Ask(w).op])
    <2> DEFINE new == [ask |-> Ask(w), at |-> task[w].at + 1, seen |-> seen]
    <2>1. task' = [task EXCEPT ![w] = new]
        BY <1>3 DEF Continue
    <2>2. /\ task[w].at + 1 \in 1..Len(Statements[Ask(w).op])
          /\ Statements[Ask(w).op][task[w].at + 1] = "store" => s = "sign"
          /\ Statements[Ask(w).op][task[w].at + 1] = "approve" =>
                 s = "application" /\ Ask(w).op = "approve"
          /\ s \notin {"submit", "approve", "reject", "order", "delete"}
        BY <1>1, <1>3, StatementOrder
    <2>3. new.ask = Ask(w) /\ new.at = task[w].at + 1 /\ new.seen = seen
        OBVIOUS
    <2>4. AskFine(Ask(w))
        BY <1>1 DEF TaskFine, Ask
    <2> HIDE DEF new
    <2>5. Ask(w).op = "register" => seen.application = Unread
        BY <1>1, StatementOrder DEF TaskFine, Ask, Seen
    <2>6. TaskFine(new)
        BY <2>2, <2>3, <2>4, <2>5 DEF TaskFine
    <2> QED BY <2>1, <2>2, <2>3, <2>6
<1> QED BY <1>2, <1>3

\* One request takes a step, and what the others read still stands.
LEMMA TaskStep ==
    ASSUME TasksFine, NEW w \in Workers, NEW new, task' = [task EXCEPT ![w] = new],
           new # Idle => TaskFine(new),
           new # Idle /\ new.seen.application # Unread /\ new.ask.user \notin contested' =>
               application'[new.ask.user] = new.seen.application,
           \A x \in Workers \ {w} : task[x] # Idle /\ Seen(x).application # Unread =>
               (Subject(x) \notin contested' => application'[Subject(x)] = Seen(x).application)
    PROVE  TasksFine' /\ ReadsStand'
<1>1. task'[w] = new /\ \A x \in Workers \ {w} : task'[x] = task[x]
    BY DEF TasksFine
<1>2. task' = [x \in Workers |-> task'[x]]
    BY DEF TasksFine
<1>3. TasksFine'
    <2>1. \A x \in Workers : task'[x] # Idle => TaskFine(task'[x])
        BY <1>1 DEF TasksFine
    <2>2. \A x : TaskFine(x)' <=> TaskFine(x)
        BY DEF TaskFine, AskFine
    <2> QED BY <1>2, <2>1 DEF TasksFine, TaskFine, AskFine
<1>4. ReadsStand'
    <2>1. ASSUME NEW x \in Workers, task'[x] # Idle, Seen(x)'.application # Unread
          PROVE  Subject(x)' \notin contested' =>
                     application'[Subject(x)'] = Seen(x)'.application
        <3>1. CASE x = w
            BY <1>1, <2>1, <3>1 DEF Seen, Subject
        <3>2. CASE x # w
            <4>1. task'[x] = task[x] /\ Seen(x)' = Seen(x) /\ Subject(x)' = Subject(x)
                BY <1>1, <3>2 DEF Seen, Subject
            <4> QED BY <2>1, <3>2, <4>1
        <3> QED BY <3>1, <3>2
    <2> QED BY <2>1 DEF ReadsStand
<1> QED BY <1>3, <1>4

-----------------------------------------------------------------------------
(* Steps that write no account.                                            *)

LEMMA DataStays ==
    ASSUME TypeOK, Consistent, UNCHANGED <<accounts, contested>>,
           stored' \subseteq Tokens, given' \subseteq Tokens, clock' \in Nat, begun' \in Nat,
           \A t \in stored' : There(t.user)
    PROVE  TypeOK' /\ Consistent'
<1>1. UNCHANGED <<role, profile, application, filed, orders>>
    BY DEF accounts
<1>2. TypeOK'
    BY <1>1 DEF TypeOK
<1>3. GoneAccountsLeaveNothing'
    BY <1>1 DEF Consistent, GoneAccountsLeaveNothing, There, Filing
<1>4. OrganizersHaveProfiles'
    BY <1>1 DEF Consistent, OrganizersHaveProfiles
<1>5. IdentitiesAreUnique'
    BY <1>1 DEF Consistent, IdentitiesAreUnique, There, Filing
<1> QED BY <1>2, <1>3, <1>4, <1>5 DEF Consistent

\* The sessions there are belong to accounts that are there.
LEMMA SessionsThere ==
    ASSUME TypeOK, Consistent, NEW t \in stored
    PROVE  There(t.user)
BY DEF TypeOK, Consistent, GoneAccountsLeaveNothing, Tokens

\* While no account changes, what was read stands.
LEMMA QuietTask ==
    ASSUME TasksFine, ReadsStand, NEW w \in Workers, NEW new, task' = [task EXCEPT ![w] = new],
           UNCHANGED <<accounts, contested>>,
           new # Idle => TaskFine(new),
           new # Idle /\ new.seen.application # Unread /\ new.ask.user \notin contested =>
               application[new.ask.user] = new.seen.application
    PROVE  TasksFine' /\ ReadsStand'
<1>1. UNCHANGED <<role, application, contested>>
    BY DEF accounts
<1> QED BY <1>1, TaskStep DEF ReadsStand

\* A request that goes on, or ends, with no account changed.
LEMMA QuietContinue ==
    ASSUME TasksFine, ReadsStand, NEW w \in Workers, NEW s, At(w, s), NEW seen \in Seens,
           Continue(w, seen), UNCHANGED <<accounts, contested>>,
           s = "sign" => seen.token \in Tokens,
           s # "application" => seen.application = Seen(w).application,
           s = "application" /\ Ask(w).op = "approve" =>
               seen.application \in Applications /\ seen.application.status = "PENDING",
           s = "application" => seen.application = application[Subject(w)]
    PROVE  TasksFine' /\ ReadsStand'
<1>1. PICK new :
          /\ task' = [task EXCEPT ![w] = new]
          /\ \/ new = Idle
             \/ TaskFine(new) /\ new.ask = Ask(w) /\ new.seen = seen
    BY ContinueFine
<1>2. task[w] # Idle
    BY InHandFine
<1>3. new # Idle /\ new.seen.application # Unread /\ new.ask.user \notin contested =>
          application[new.ask.user] = new.seen.application
    BY <1>1, <1>2 DEF ReadsStand, Subject, Ask, Seen
<1> QED BY <1>1, <1>3, QuietTask

LEMMA QuietRefuse ==
    ASSUME TasksFine, ReadsStand, NEW w \in Workers, Refuse(w), UNCHANGED <<accounts, contested>>
    PROVE  TasksFine' /\ ReadsStand'
BY QuietTask DEF Refuse

LEMMA ReadPreserves ==
    ASSUME AccountsInv, NEW w \in Workers, NEW s, At(w, s), NEW ok, NEW seen \in Seens,
           Read(w, ok, seen), s # "sign",
           s # "application" => seen.application = Seen(w).application,
           ok /\ s = "application" /\ Ask(w).op = "approve" =>
               seen.application \in Applications /\ seen.application.status = "PENDING",
           s = "application" => seen.application = application[Subject(w)]
    PROVE  AccountsInv'
<1>1. UNCHANGED <<accounts, contested>> /\ UNCHANGED <<stored, given, clock, begun>>
    BY DEF Read, sessions
<1>2. TypeOK' /\ Consistent'
    BY <1>1, DataStays, SessionsThere DEF AccountsInv, TypeOK
<1>3. TasksFine' /\ ReadsStand'
    <2>1. CASE ok
        <3>1. Continue(w, seen)
            BY <2>1 DEF Read
        <3> QED BY <1>1, <2>1, <3>1, QuietContinue DEF AccountsInv
    <2>2. CASE ~ok
        <3>1. Refuse(w)
            BY <2>2 DEF Read
        <3> QED BY <1>1, <3>1, QuietRefuse DEF AccountsInv
    <2> QED BY <2>1, <2>2
<1> QED BY <1>2, <1>3 DEF AccountsInv

LEMMA ReadStatementPreserves ==
    ASSUME AccountsInv, NEW w \in Workers,
           \/ ReadEmail(w) \/ ReadAccount(w) \/ ReadProfile(w) \/ ReadApplication(w)
           \/ ReadDocument(w) \/ CountOrders(w)
    PROVE  AccountsInv'
<1>1. \A s : At(w, s) => Seen(w) \in Seens /\ Subject(w) \in Users /\ Ask(w).op \in Ops
    BY InHandFine DEF AccountsInv
<1>2. CASE ReadEmail(w)
    BY <1>1, <1>2, ReadPreserves DEF ReadEmail
<1>3. CASE ReadAccount(w)
    BY <1>1, <1>3, ReadPreserves DEF ReadAccount
<1>4. CASE CountOrders(w)
    <2> DEFINE none == \A o \in orders : o[1] # Subject(w)
    <2>1. At(w, "orders") /\ Read(w, none, Seen(w))
        BY <1>4 DEF CountOrders
    <2> HIDE DEF none
    <2> QED BY <1>1, <2>1, ReadPreserves
<1>5. CASE ReadProfile(w)
    <2> DEFINE p == profile[Subject(w)]
               seen == [Seen(w) EXCEPT !.profile = p]
    <2>1. At(w, "profile") /\ Read(w, Ask(w).op = "submit" => p = NoDocument, seen)
        BY <1>5 DEF ReadProfile
    <2>2. seen \in Seens /\ seen.application = Seen(w).application
        BY <1>1, <2>1 DEF Seens, AccountsInv, TypeOK
    <2> HIDE DEF p, seen
    <2> QED BY <2>1, <2>2, ReadPreserves
<1>6. CASE ReadDocument(w)
    <2>1. PICK t \in Seen(w).tables :
              LET d == Ask(w).about
                  own == IF Ask(w).op = "submit" THEN {Subject(w)} ELSE {}
                  free == IF t = "profile" THEN Profiled(d) = {} ELSE Applied(d) \subseteq own
              IN Read(w, d = NoDocument \/ free, [Seen(w) EXCEPT !.tables = @ \ {t}])
        BY <1>6 DEF ReadDocument
    <2> DEFINE seen == [Seen(w) EXCEPT !.tables = @ \ {t}]
    <2>2. At(w, "document")
        BY <1>6 DEF ReadDocument
    <2>3. \E ok : Read(w, ok, seen)
        BY <2>1
    <2>4. seen \in Seens /\ seen.application = Seen(w).application
        BY <1>1, <2>2 DEF Seens
    <2> HIDE DEF seen
    <2> QED BY <2>2, <2>3, <2>4, ReadPreserves
<1>7. CASE ReadApplication(w)
    <2> DEFINE a == application[Subject(w)]
               seen == [Seen(w) EXCEPT !.application = a]
               ok == Reviewable(Ask(w).op, a)
    <2>1. At(w, "application") /\ Read(w, ok, seen)
        BY <1>7 DEF ReadApplication
    <2>2. seen \in Seens /\ seen.application = a /\ a \in Applications \cup {NoApplication}
        BY <1>1, <2>1 DEF Seens, AccountsInv, TypeOK
    <2>3. ok /\ Ask(w).op = "approve" =>
              a \in Applications /\ a.status = "PENDING"
        BY <2>2 DEF Reviewable
    <2>4. a = application[Subject(w)]
        OBVIOUS
    <2> HIDE DEF a, seen, ok
    <2> QED BY <2>1, <2>2, <2>3, <2>4, ReadPreserves
<1> QED BY <1>2, <1>3, <1>4, <1>5, <1>6, <1>7

LEMMA BeginPreserves ==
    ASSUME AccountsInv, NEW w \in Workers, Begin(w)
    PROVE  AccountsInv'
<1>1. PICK a \in Asks \cup [op : {"refresh", "logout"}, user : Users, about : given] :
          task' = [task EXCEPT ![w] = [ask |-> a, at |-> 1, seen |-> Nothing]]
    BY DEF Begin
<1> DEFINE new == [ask |-> a, at |-> 1, seen |-> Nothing]
<1>2. new.ask = a /\ new.at = 1 /\ new.seen = Nothing /\ Nothing.application = Unread
    BY DEF Nothing
<1>3. AskFine(a)
    BY AccountsAssumption DEF AskFine, Ops, Requests
<1>4. Nothing \in Seens
    BY DEF Nothing, Seens
<1>5. task' = [task EXCEPT ![w] = new]
    BY <1>1
<1> HIDE DEF new
<1>6. TaskFine(new)
    BY <1>2, <1>3, <1>4, FirstStatement DEF TaskFine, AskFine
<1>7. UNCHANGED <<accounts, contested>> /\ UNCHANGED <<stored, given, clock>> /\ begun' = begun + 1
    BY DEF Begin, sessions
<1>8. TypeOK' /\ Consistent'
    BY <1>7, DataStays, SessionsThere DEF AccountsInv, TypeOK
<1>9. TasksFine' /\ ReadsStand'
    BY <1>2, <1>5, <1>6, <1>7, QuietTask DEF AccountsInv
<1> QED BY <1>8, <1>9 DEF AccountsInv

LEMMA TickPreserves ==
    ASSUME AccountsInv, Tick
    PROVE  AccountsInv'
<1>1. /\ UNCHANGED <<accounts, contested>> /\ UNCHANGED <<stored, given, begun, task>>
      /\ clock' = clock + 1
    BY DEF Tick, sessions
<1>2. TypeOK' /\ Consistent'
    BY <1>1, DataStays, SessionsThere DEF AccountsInv, TypeOK
<1>3. TasksFine'
    BY <1>1 DEF AccountsInv, TasksFine, TaskFine, AskFine
<1>4. ReadsStand'
    BY <1>1 DEF AccountsInv, ReadsStand, accounts, Seen, Subject
<1> QED BY <1>2, <1>3, <1>4 DEF AccountsInv

LEMMA SessionStepPreserves ==
    ASSUME AccountsInv, NEW w \in Workers, ReadToken(w) \/ Revoke(w) \/ Sign(w) \/ Store(w)
    PROVE  AccountsInv'
<1>1. \A s : At(w, s) => Seen(w) \in Seens /\ Subject(w) \in Users
    BY InHandFine DEF AccountsInv
<1>2. CASE ReadToken(w)
    <2>1. At(w, "token") /\ UNCHANGED <<accounts, contested>> /\ stored' \subseteq stored
          /\ UNCHANGED <<given, clock, begun>>
        BY <1>2 DEF ReadToken
    <2>2. TypeOK' /\ Consistent'
        BY <2>1, DataStays, SessionsThere DEF AccountsInv, TypeOK
    <2>3. Continue(w, Seen(w)) \/ Refuse(w)
        BY <1>2 DEF ReadToken
    <2>4. TasksFine' /\ ReadsStand'
        BY <1>1, <2>1, <2>3, QuietContinue, QuietRefuse DEF AccountsInv
    <2> QED BY <2>2, <2>4 DEF AccountsInv
<1>3. CASE Revoke(w)
    <2>1. At(w, "revoke") /\ UNCHANGED <<accounts, contested>> /\ stored' \subseteq stored
          /\ UNCHANGED <<given, clock, begun>> /\ Continue(w, Seen(w))
        BY <1>3 DEF Revoke
    <2>2. TypeOK' /\ Consistent'
        BY <2>1, DataStays, SessionsThere DEF AccountsInv, TypeOK
    <2>3. TasksFine' /\ ReadsStand'
        BY <1>1, <2>1, QuietContinue DEF AccountsInv
    <2> QED BY <2>2, <2>3 DEF AccountsInv
<1>4. CASE Sign(w)
    <2> DEFINE seen == [Seen(w) EXCEPT !.token = Stamp(Subject(w))]
    <2>1. At(w, "sign") /\ Continue(w, seen) /\ UNCHANGED <<accounts, contested>>
          /\ UNCHANGED <<stored, given, clock, begun>>
        BY <1>4 DEF Sign, sessions
    <2>2. Stamp(Subject(w)) \in Tokens
        BY <1>1, <2>1 DEF Stamp, Tokens, AccountsInv, TypeOK
    <2>3. seen \in Seens /\ seen.token \in Tokens /\ seen.application = Seen(w).application
        BY <1>1, <2>1, <2>2 DEF Seens
    <2> HIDE DEF seen
    <2>4. TypeOK' /\ Consistent'
        BY <2>1, DataStays, SessionsThere DEF AccountsInv, TypeOK
    <2>5. TasksFine' /\ ReadsStand'
        BY <2>1, <2>3, QuietContinue DEF AccountsInv
    <2> QED BY <2>4, <2>5 DEF AccountsInv
<1>5. CASE Store(w)
    <2> DEFINE fresh == {x \in {Seen(w).token} : Storable(x)}
    <2>1. /\ At(w, "store") /\ UNCHANGED <<accounts, contested>> /\ UNCHANGED <<clock, begun>>
          /\ stored' = stored \cup fresh /\ given' = given \cup fresh
          /\ Continue(w, Seen(w))
        BY <1>5 DEF Store
    <2>2. Seen(w).token \in Tokens
        BY <2>1, InHandFine DEF AccountsInv, TaskFine, At, Seen
    <2>3. fresh \subseteq Tokens /\ \A t \in fresh : There(t.user)
        BY <2>2 DEF Storable
    <2> HIDE DEF fresh
    <2>4. TypeOK' /\ Consistent'
        BY <2>1, <2>3, DataStays, SessionsThere DEF AccountsInv, TypeOK
    <2>5. TasksFine' /\ ReadsStand'
        BY <1>1, <2>1, QuietContinue DEF AccountsInv
    <2> QED BY <2>4, <2>5 DEF AccountsInv
<1> QED BY <1>2, <1>3, <1>4, <1>5

-----------------------------------------------------------------------------
(* Steps that write accounts.                                              *)

\* A write that is refused changes nothing but the request.
LEMMA RefusedPreserves ==
    ASSUME AccountsInv, NEW w \in Workers, Refuse(w),
           UNCHANGED <<accounts, contested, stored>>, UNCHANGED <<given, clock, begun>>
    PROVE  AccountsInv'
<1>1. TypeOK' /\ Consistent'
    BY DataStays, SessionsThere DEF AccountsInv, TypeOK
<1>2. TasksFine' /\ ReadsStand'
    BY QuietRefuse DEF AccountsInv
<1> QED BY <1>1, <1>2 DEF AccountsInv

\* A write of the application of u alone leaves what the other requests read, or
\* marks it as contested; the request that writes has read none, or ends.
LEMMA WriteTask ==
    ASSUME AccountsInv, NEW w \in Workers, NEW s, At(w, s), Continue(w, Seen(w)),
           NEW u \in Users,
           \A v \in Users \ {u} : application'[v] = application[v],
           \/ application'[u] = application[u] /\ contested' = contested
           \/ Contest(w, u),
           \/ s \in {"submit", "approve", "reject", "order", "delete"}
           \/ s = "register"
    PROVE  TasksFine' /\ ReadsStand'
<1>1. task[w] # Idle /\ Seen(w) \in Seens
    BY InHandFine DEF AccountsInv
<1>2. contested \subseteq contested'
    BY DEF Contest
<1>3. \A x \in Workers \ {w} : task[x] # Idle => Subject(x) \in Users
    BY DEF AccountsInv, TasksFine, TaskFine, AskFine, Subject
<1>4. ASSUME NEW x \in Workers \ {w}, task[x] # Idle, Seen(x).application # Unread,
             Subject(x) \notin contested'
      PROVE  application'[Subject(x)] = Seen(x).application
    <2>1. application[Subject(x)] = Seen(x).application
        BY <1>2, <1>4 DEF AccountsInv, ReadsStand
    <2>2. Subject(x) = u => application'[u] = application[u]
        BY <1>4 DEF Contest
    <2> QED BY <1>3, <1>4, <2>1, <2>2
<1>5. PICK new :
          /\ task' = [task EXCEPT ![w] = new]
          /\ \/ new = Idle
             \/ TaskFine(new) /\ new.ask = Ask(w) /\ new.seen = Seen(w)
                /\ s \notin {"submit", "approve", "reject", "order", "delete"}
    BY <1>1, ContinueFine DEF AccountsInv
<1>6. s = "register" => Seen(w).application = Unread
    BY InHandFine DEF AccountsInv, TaskFine, Ask, Seen
<1> QED BY <1>4, <1>5, <1>6, TaskStep DEF AccountsInv

LEMMA RegisterPreserves ==
    ASSUME AccountsInv, NEW w \in Workers, Register(w)
    PROVE  AccountsInv'
<1>0. /\ At(w, "register") /\ Subject(w) \in Users
      /\ Ask(w).about \in Documents \cup {NoDocument}
    BY InHandFine DEF Register, AccountsInv, TaskFine, AskFine, Ask
<1>1. PICK u \in Users, d \in Documents \cup {NoDocument} :
          u = Subject(w) /\ d = Ask(w).about /\ At(w, "register")
    BY <1>0
<1>2. CASE Refuse(w) /\ UNCHANGED <<accounts, contested, stored>>
    BY <1>2, RefusedPreserves DEF Register, Write
<1>3. CASE ~(Refuse(w) /\ UNCHANGED <<accounts, contested, stored>>)
    <2>1. /\ role[u] = Absent /\ ~EmailTaken(EmailOf[u])
          /\ d # NoDocument => Applied(d) = {}
          /\ role' = [role EXCEPT ![u] = "BUYER"]
          /\ \/ d # NoDocument /\ File(u, 1, d) /\ filed' = [filed EXCEPT ![u] = 1]
             \/ UNCHANGED <<application, filed>>
          /\ Contest(w, u)
          /\ UNCHANGED <<profile, orders, stored>> /\ UNCHANGED <<given, clock, begun>>
          /\ Continue(w, Seen(w))
        BY <1>1, <1>3 DEF Register, Write, Organizing
    <2>2. /\ ~There(u) /\ ~Filing(u) /\ profile[u] = NoDocument
          /\ role'[u] = "BUYER" /\ There(u)'
          /\ \A v \in Users \ {u} : role'[v] = role[v]
        BY <1>1, <2>1, AccountsAssumption
        DEF AccountsInv, TypeOK, Consistent, GoneAccountsLeaveNothing, There, NoRow, Roles
    <2>3. \A v \in Users \ {u} : application'[v] = application[v]
        BY <2>1 DEF File, AccountsInv, TypeOK
    <2>4. /\ application'[u] \in Applications \cup {NoApplication}
          /\ application'[u] # NoApplication =>
                 d # NoDocument /\ application'[u].document = d
          /\ application' \in [Users -> Applications \cup {NoApplication}]
        BY <1>1, <2>1, <2>2 DEF File, AccountsInv, TypeOK, Applications, Filing
    <2>5. TypeOK'
        <3>1. role' \in [Users -> Roles \cup NoRow] /\ filed' \in [Users -> Nat]
            BY <1>1, <2>1 DEF AccountsInv, TypeOK, Roles
        <3>2. contested' \subseteq Users
            BY <1>1, <2>1 DEF AccountsInv, TypeOK, Contest
        <3> QED BY <2>1, <2>4, <3>1, <3>2 DEF AccountsInv, TypeOK
    <2>6. GoneAccountsLeaveNothing'
        BY <2>1, <2>2, <2>3 DEF AccountsInv, Consistent, GoneAccountsLeaveNothing, There, Filing
    <2>7. OrganizersHaveProfiles'
        BY <2>1, <2>2 DEF AccountsInv, Consistent, OrganizersHaveProfiles
    <2>8. IdentitiesAreUnique'
        <3>1. \A v, x \in Users : There(v)' /\ There(x)' /\ EmailOf[v] = EmailOf[x] => v = x
            BY <2>1, <2>2 DEF EmailTaken, There, AccountsInv, Consistent, IdentitiesAreUnique
        <3>2. \A v \in Users : Filing(v)' /\ application'[v].document = d => v = u \/ d = NoDocument
            BY <2>1, <2>3 DEF Applied, Filing
        <3>3. \A v, x \in Users : Filing(v)' /\ Filing(x)'
                  /\ application'[v].document = application'[x].document => v = x
            BY <2>3, <2>4, <3>2 DEF Filing, AccountsInv, Consistent, IdentitiesAreUnique
        <3> QED BY <2>1, <3>1, <3>3 DEF AccountsInv, Consistent, IdentitiesAreUnique
    <2>9. TasksFine' /\ ReadsStand'
        BY <1>1, <2>1, <2>3, WriteTask
    <2> QED BY <2>5, <2>6, <2>7, <2>8, <2>9 DEF AccountsInv, Consistent
<1> QED BY <1>2, <1>3

LEMMA SubmitPreserves ==
    ASSUME AccountsInv, NEW w \in Workers, Submit(w)
    PROVE  AccountsInv'
<1>0. /\ At(w, "submit") /\ Subject(w) \in Users /\ Ask(w).about \in Documents
    BY InHandFine DEF Submit, AccountsInv, TaskFine, AskFine, Ask
<1>1. PICK u \in Users, d \in Documents :
          u = Subject(w) /\ d = Ask(w).about /\ At(w, "submit")
    BY <1>0
<1>2. CASE Refuse(w) /\ UNCHANGED <<accounts, contested, stored>>
    BY <1>2, RefusedPreserves DEF Submit, Write
<1>3. CASE ~(Refuse(w) /\ UNCHANGED <<accounts, contested, stored>>)
    <2>0. PICK id \in Nat :
              id = IF Seen(w).application = NoApplication THEN filed[u] + 1 ELSE filed[u]
        BY <1>1 DEF AccountsInv, TypeOK
    <2>1. /\ There(u) /\ Applied(d) \subseteq {u}
          /\ File(u, id, d) /\ filed' = [filed EXCEPT ![u] = id]
          /\ Contest(w, u)
          /\ UNCHANGED <<role, profile, orders, stored>> /\ UNCHANGED <<given, clock, begun>>
          /\ Continue(w, Seen(w))
        BY <1>1, <1>3, <2>0 DEF Submit, Write
    <2>3. /\ \A v \in Users \ {u} : application'[v] = application[v]
          /\ application'[u] = [id |-> id, status |-> "PENDING", document |-> d]
          /\ application'[u] \in Applications
        BY <1>1, <2>1 DEF File, AccountsInv, TypeOK, Applications
    <2>4. application' \in [Users -> Applications \cup {NoApplication}]
        BY <1>1, <2>1, <2>3 DEF File, AccountsInv, TypeOK
    <2>5. TypeOK'
        BY <1>1, <2>1, <2>4 DEF AccountsInv, TypeOK, Contest
    <2>6. GoneAccountsLeaveNothing'
        BY <2>1, <2>3 DEF AccountsInv, Consistent, GoneAccountsLeaveNothing, There, Filing
    <2>7. OrganizersHaveProfiles'
        BY <2>1 DEF AccountsInv, Consistent, OrganizersHaveProfiles
    <2>8. IdentitiesAreUnique'
        <3>1. \A v \in Users : Filing(v)' /\ application'[v].document = d => v = u
            BY <2>1, <2>3 DEF Applied, Filing
        <3>2. \A v, x \in Users : Filing(v)' /\ Filing(x)'
                  /\ application'[v].document = application'[x].document => v = x
            BY <2>3, <3>1 DEF Filing, AccountsInv, Consistent, IdentitiesAreUnique
        <3> QED BY <2>1, <3>2 DEF AccountsInv, Consistent, IdentitiesAreUnique, There
    <2>9. TasksFine' /\ ReadsStand'
        BY <1>1, <2>1, <2>3, WriteTask
    <2> QED BY <2>5, <2>6, <2>7, <2>8, <2>9 DEF AccountsInv, Consistent
<1> QED BY <1>2, <1>3

\* What an approval goes by: the application it read, and an account that is there.
LEMMA ApproveReads ==
    ASSUME AccountsInv, NEW w \in Workers, At(w, "approve")
    PROVE  /\ Subject(w) \in Users
           /\ Seen(w).application \in Applications
           /\ Seen(w).application.status = "PENDING"
           /\ Subject(w) \notin contested => application[Subject(w)] = Seen(w).application
<1>1. /\ task[w] # Idle /\ Subject(w) \in Users
      /\ Seen(w).application \in Applications /\ Seen(w).application.status = "PENDING"
    BY InHandFine DEF AccountsInv, TaskFine, At, Seen
<1>2. Seen(w).application # Unread
    BY <1>1, AccountsAssumption
<1> QED BY <1>1, <1>2 DEF AccountsInv, ReadsStand

LEMMA ApprovePreserves ==
    ASSUME AccountsInv, NEW w \in Workers, ApproveApplication(w)
    PROVE  AccountsInv'
<1>0. /\ At(w, "approve") /\ Subject(w) \in Users
      /\ Seen(w).application.document \in Documents
    BY ApproveReads DEF ApproveApplication, Applications
<1>1. PICK u \in Users, d \in Documents :
          u = Subject(w) /\ d = Seen(w).application.document /\ At(w, "approve")
    BY <1>0
<1>2. CASE Refuse(w) /\ UNCHANGED <<accounts, contested, stored>>
    BY <1>2, RefusedPreserves DEF ApproveApplication, Write
<1>3. CASE ~(Refuse(w) /\ UNCHANGED <<accounts, contested, stored>>)
    <2>1. /\ Filing(u) /\ profile[u] = NoDocument /\ Profiled(d) = {}
          /\ profile' = [profile EXCEPT ![u] = d]
          /\ role' = [role EXCEPT ![u] = "ORGANIZER"]
          /\ application' = [application EXCEPT ![u] = NoApplication]
          /\ Contest(w, u)
          /\ UNCHANGED <<filed, orders, stored>> /\ UNCHANGED <<given, clock, begun>>
          /\ Continue(w, Seen(w))
        BY <1>1, <1>3 DEF ApproveApplication, Write, SameApplication, Qualified
    <2>2. /\ \A v \in Users \ {u} :
                 application'[v] = application[v] /\ role'[v] = role[v] /\ profile'[v] = profile[v]
          /\ application'[u] = NoApplication /\ role'[u] = "ORGANIZER" /\ profile'[u] = d
        BY <1>1, <2>1 DEF AccountsInv, TypeOK
    <2>3. TypeOK'
        BY <1>1, <2>1 DEF AccountsInv, TypeOK, Roles, Contest
    <2>4. There(u) /\ There(u)'
        BY <1>1, <2>1, <2>2, AccountsAssumption
        DEF AccountsInv, Consistent, GoneAccountsLeaveNothing, There, Roles
    <2>5. GoneAccountsLeaveNothing'
        BY <2>1, <2>2, <2>4 DEF AccountsInv, Consistent, GoneAccountsLeaveNothing, There, Filing
    <2>6. OrganizersHaveProfiles'
        BY <1>1, <2>2, AccountsAssumption DEF AccountsInv, Consistent, OrganizersHaveProfiles
    <2>7. IdentitiesAreUnique'
        <3>1. \A v \in Users : There(v)' <=> There(v)
            BY <2>2, <2>4 DEF There
        <3>2. \A v \in Users : Filing(v)' => Filing(v) /\ application'[v] = application[v]
            BY <2>2 DEF Filing
        <3>3. \A v \in Users : profile'[v] = d => v = u
            BY <2>1, <2>2 DEF Profiled
        <3> QED BY <2>2, <3>1, <3>2, <3>3 DEF AccountsInv, Consistent, IdentitiesAreUnique
    <2>8. TasksFine' /\ ReadsStand'
        BY <1>1, <2>1, <2>2, WriteTask
    <2> QED BY <2>3, <2>5, <2>6, <2>7, <2>8 DEF AccountsInv, Consistent
<1> QED BY <1>2, <1>3

LEMMA RejectPreserves ==
    ASSUME AccountsInv, NEW w \in Workers, RejectApplication(w)
    PROVE  AccountsInv'
<1>0. At(w, "reject") /\ Subject(w) \in Users
    BY InHandFine DEF RejectApplication, AccountsInv
<1>1. PICK u \in Users : u = Subject(w) /\ At(w, "reject")
    BY <1>0
<1>2. CASE Refuse(w) /\ UNCHANGED <<accounts, contested, stored>>
    BY <1>2, RefusedPreserves DEF RejectApplication, Write
<1>3. CASE ~(Refuse(w) /\ UNCHANGED <<accounts, contested, stored>>)
    <2>1. PICK a : a = [id |-> application[u].id, status |-> "REJECTED",
                        document |-> application[u].document]
        OBVIOUS
    <2>2. /\ Filing(u)
          /\ application' = [application EXCEPT ![u] = a]
          /\ Contest(w, u)
          /\ UNCHANGED <<role, profile, filed, orders, stored>>
          /\ UNCHANGED <<given, clock, begun>>
          /\ Continue(w, Seen(w))
        BY <1>1, <1>3, <2>1 DEF RejectApplication, Write, SameApplication
    <2>3. application[u] \in Applications
        BY <2>2 DEF AccountsInv, TypeOK, Filing
    <2>4. a \in Applications /\ a.document = application[u].document
        BY <2>1, <2>3 DEF Applications
    <2>5. /\ \A v \in Users \ {u} : application'[v] = application[v]
          /\ application'[u] = a /\ application' \in [Users -> Applications \cup {NoApplication}]
        BY <2>2, <2>4 DEF AccountsInv, TypeOK
    <2>6. TypeOK'
        <3>1. contested' \subseteq Users
            BY <2>2 DEF AccountsInv, TypeOK, Contest
        <3> QED BY <2>2, <2>5, <3>1 DEF AccountsInv, TypeOK
    <2>7. /\ \A v \in Users : Filing(v)' => Filing(v)
          /\ \A v \in Users : Filing(v)' => application'[v].document = application[v].document
        BY <2>2, <2>4, <2>5 DEF Filing
    <2>8. GoneAccountsLeaveNothing'
        BY <2>2, <2>7 DEF AccountsInv, Consistent, GoneAccountsLeaveNothing, There
    <2>9. OrganizersHaveProfiles'
        BY <2>2 DEF AccountsInv, Consistent, OrganizersHaveProfiles
    <2>10. IdentitiesAreUnique'
        BY <2>2, <2>7 DEF AccountsInv, Consistent, IdentitiesAreUnique, There
    <2>11. TasksFine' /\ ReadsStand'
        BY <1>1, <2>2, <2>5, WriteTask
    <2> QED BY <2>6, <2>8, <2>9, <2>10, <2>11 DEF AccountsInv, Consistent
<1> QED BY <1>2, <1>3

LEMMA OrderPreserves ==
    ASSUME AccountsInv, NEW w \in Workers, PlaceOrder(w)
    PROVE  AccountsInv'
<1>0. At(w, "order") /\ Subject(w) \in Users /\ Ask(w).about \in Users
    BY InHandFine DEF PlaceOrder, AccountsInv, TaskFine, AskFine, Ask
<1>1. PICK u \in Users, o \in Users :
          u = Subject(w) /\ o = Ask(w).about /\ At(w, "order")
    BY <1>0
<1>2. CASE Refuse(w) /\ UNCHANGED <<accounts, contested, stored>>
    BY <1>2, RefusedPreserves DEF PlaceOrder, Write
<1>3. CASE ~(Refuse(w) /\ UNCHANGED <<accounts, contested, stored>>)
    <2>1. /\ There(u) /\ profile[o] # NoDocument
          /\ orders' = orders \cup {<<u, o>>}
          /\ UNCHANGED <<role, profile, application, filed, contested, stored>>
          /\ UNCHANGED <<given, clock, begun>>
          /\ Continue(w, Seen(w))
        BY <1>1, <1>3 DEF PlaceOrder, Write
    <2>2. There(o)
        BY <2>1 DEF AccountsInv, Consistent, GoneAccountsLeaveNothing
    <2>3. TypeOK'
        BY <2>1 DEF AccountsInv, TypeOK
    <2>4. GoneAccountsLeaveNothing'
        BY <2>1, <2>2 DEF AccountsInv, Consistent, GoneAccountsLeaveNothing, There, Filing
    <2>5. OrganizersHaveProfiles' /\ IdentitiesAreUnique'
        BY <2>1
        DEF AccountsInv, Consistent, OrganizersHaveProfiles, IdentitiesAreUnique, There, Filing
    <2>6. TasksFine' /\ ReadsStand'
        BY <1>1, <2>1, WriteTask
    <2> QED BY <2>3, <2>4, <2>5, <2>6 DEF AccountsInv, Consistent
<1> QED BY <1>2, <1>3

LEMMA DeletePreserves ==
    ASSUME AccountsInv, NEW w \in Workers, DeleteAccount(w)
    PROVE  AccountsInv'
<1>0. At(w, "delete") /\ Subject(w) \in Users
    BY InHandFine DEF DeleteAccount, AccountsInv
<1>1. PICK u \in Users : u = Subject(w) /\ At(w, "delete")
    BY <1>0
<1>2. CASE Refuse(w) /\ UNCHANGED <<accounts, contested, stored>>
    BY <1>2, RefusedPreserves DEF DeleteAccount, Write
<1>3. CASE ~(Refuse(w) /\ UNCHANGED <<accounts, contested, stored>>)
    <2>1. /\ There(u) /\ ~Filing(u) /\ \A o \in orders : u \notin {o[1], o[2]}
          /\ role' = [role EXCEPT ![u] = Deleted]
          /\ profile' = [profile EXCEPT ![u] = NoDocument]
          /\ stored' = {t \in stored : t.user # u}
          /\ UNCHANGED <<application, filed, orders, contested>>
          /\ UNCHANGED <<given, clock, begun>>
          /\ Continue(w, Seen(w))
        BY <1>1, <1>3 DEF DeleteAccount, Write, Removable
    <2>2. /\ role'[u] = Deleted /\ profile'[u] = NoDocument
          /\ \A v \in Users \ {u} : role'[v] = role[v] /\ profile'[v] = profile[v]
        BY <2>1 DEF AccountsInv, TypeOK
    <2>3. TypeOK'
        BY <2>1 DEF AccountsInv, TypeOK, NoRow
    <2>4. GoneAccountsLeaveNothing'
        BY <2>1, <2>2 DEF AccountsInv, Consistent, GoneAccountsLeaveNothing, There, Filing
    <2>5. OrganizersHaveProfiles'
        BY <2>2, AccountsAssumption
        DEF AccountsInv, Consistent, OrganizersHaveProfiles, NoRow, Roles
    <2>6. IdentitiesAreUnique'
        <3>1. \A v \in Users : There(v)' => There(v)
            BY <2>1, <2>2 DEF There
        <3>2. \A v \in Users : profile'[v] # NoDocument => profile'[v] = profile[v]
            BY <2>2
        <3> QED BY <2>1, <3>1, <3>2 DEF AccountsInv, Consistent, IdentitiesAreUnique, Filing
    <2>7. TasksFine' /\ ReadsStand'
        BY <1>1, <2>1, WriteTask
    <2> QED BY <2>3, <2>4, <2>5, <2>6, <2>7 DEF AccountsInv, Consistent
<1> QED BY <1>2, <1>3

-----------------------------------------------------------------------------
(* The theorems.                                                           *)

LEMMA InitAccountsInv == Init => AccountsInv
<1> SUFFICES ASSUME Init PROVE AccountsInv
    OBVIOUS
<1>1. TypeOK
    BY DEF Init, TypeOK, NoRow
<1>2. Consistent
    BY AccountsAssumption
    DEF Init, Consistent, GoneAccountsLeaveNothing, OrganizersHaveProfiles, IdentitiesAreUnique,
        There, Filing, NoRow, Roles
<1>3. TasksFine /\ ReadsStand
    BY DEF Init, TasksFine, ReadsStand
<1> QED BY <1>1, <1>2, <1>3 DEF AccountsInv

LEMMA NextAccountsInv == AccountsInv /\ [Next]_vars => AccountsInv'
<1> SUFFICES ASSUME AccountsInv, [Next]_vars PROVE AccountsInv'
    OBVIOUS
<1>1. ASSUME NEW w \in Workers, Begin(w) \/ Statement(w)
      PROVE  AccountsInv'
    BY <1>1, BeginPreserves, ReadStatementPreserves, SessionStepPreserves, RegisterPreserves,
       SubmitPreserves, ApprovePreserves, RejectPreserves, OrderPreserves, DeletePreserves
    DEF Statement
<1>2. CASE UNCHANGED vars
    <2>1. UNCHANGED <<accounts, contested>> /\ UNCHANGED <<stored, given, clock, begun, task>>
        BY <1>2 DEF vars, sessions
    <2>2. TypeOK' /\ Consistent'
        BY <2>1, DataStays, SessionsThere DEF AccountsInv, TypeOK
    <2>3. TasksFine'
        BY <2>1 DEF AccountsInv, TasksFine, TaskFine, AskFine
    <2>4. ReadsStand'
        BY <2>1 DEF AccountsInv, ReadsStand, accounts, Seen, Subject
    <2> QED BY <2>2, <2>3, <2>4 DEF AccountsInv
<1> QED BY <1>1, <1>2, TickPreserves DEF Next

\* The inductive invariant.
THEOREM AccountsInductive == Spec => []AccountsInv
<1> QED BY InitAccountsInv, NextAccountsInv, PTL DEF Spec

\* Every row and every token stays typed.
THEOREM AccountsTypeCorrect == Spec => []TypeOK
<1>1. AccountsInv => TypeOK
    BY DEF AccountsInv
<1> QED BY <1>1, AccountsInductive, PTL

\* Nothing is left of a deleted account, whatever overlapped its deletion.
THEOREM NothingLeft == Spec => []GoneAccountsLeaveNothing
<1>1. AccountsInv => GoneAccountsLeaveNothing
    BY DEF AccountsInv, Consistent
<1> QED BY <1>1, AccountsInductive, PTL

\* Role and profile of an organizer come and go together.
THEOREM RolesAgree == Spec => []OrganizersHaveProfiles
<1>1. AccountsInv => OrganizersHaveProfiles
    BY DEF AccountsInv, Consistent
<1> QED BY <1>1, AccountsInductive, PTL

\* One account to an address, one profile and one application to a document.
THEOREM OneIdentity == Spec => []IdentitiesAreUnique
<1>1. AccountsInv => IdentitiesAreUnique
    BY DEF AccountsInv, Consistent
<1> QED BY <1>1, AccountsInductive, PTL

\* A request that goes on keeps in memory what it goes on with.
LEMMA ContinueWith ==
    ASSUME NEW w \in Workers, NEW seen, Continue(w, seen) \/ Refuse(w)
    PROVE  \E new : task' = [task EXCEPT ![w] = new] /\ (new = Idle \/ new.seen = seen)
<1>1. CASE Refuse(w)
    BY <1>1 DEF Refuse
<1>2. CASE Continue(w, seen) /\ task[w].at = Len(Statements[Ask(w).op])
    BY <1>2 DEF Continue
<1>3. CASE Continue(w, seen) /\ task[w].at # Len(Statements[Ask(w).op])
    <2> DEFINE new == [ask |-> Ask(w), at |-> task[w].at + 1, seen |-> seen]
    <2>1. task' = [task EXCEPT ![w] = new] /\ new.seen = seen
        BY <1>3 DEF Continue
    <2> HIDE DEF new
    <2> QED BY <2>1
<1> QED BY <1>1, <1>2, <1>3

\* What one step of a request does to the tokens: it stores at most the one it has
\* in hand, and takes in hand at most one that it signs now.
LEMMA TokensOfAStep ==
    ASSUME AccountsInv, NEW w \in Workers, Begin(w) \/ Statement(w)
    PROVE  /\ \/ stored' \subseteq stored
              \/ task[w] # Idle /\ stored' \subseteq stored \cup {Seen(w).token}
           /\ \E new :
                  /\ task' = [task EXCEPT ![w] = new]
                  /\ \/ new = Idle
                     \/ new.seen.token = NoToken
                     \/ task[w] # Idle /\ new.seen.token = Seen(w).token
                     \/ Subject(w) \in Users /\ new.seen.token = Stamp(Subject(w))
<1>1. ASSUME NEW s, At(w, s), Continue(w, Seen(w)) \/ Refuse(w)
      PROVE  \E new :
                /\ task' = [task EXCEPT ![w] = new]
                /\ new = Idle \/ (task[w] # Idle /\ new.seen.token = Seen(w).token)
    <2>1. task[w] # Idle
        BY <1>1, InHandFine DEF AccountsInv
    <2> QED BY <1>1, <2>1, ContinueWith
<1>2. CASE Begin(w)
    <2>1. stored' = stored
        BY <1>2 DEF Begin, sessions
    <2>2. PICK a : task' = [task EXCEPT ![w] = [ask |-> a, at |-> 1, seen |-> Nothing]]
        BY <1>2 DEF Begin
    <2>3. [ask |-> a, at |-> 1, seen |-> Nothing].seen.token = NoToken
        BY DEF Nothing
    <2> QED BY <2>1, <2>2, <2>3
<1>3. CASE ReadEmail(w) \/ ReadAccount(w) \/ CountOrders(w)
    <2>1. \E s : At(w, s)
        BY <1>3 DEF ReadEmail, ReadAccount, CountOrders
    <2>2. Continue(w, Seen(w)) \/ Refuse(w)
        BY <1>3 DEF ReadEmail, ReadAccount, CountOrders, Read
    <2>3. stored' = stored
        BY <1>3 DEF ReadEmail, ReadAccount, CountOrders, Read, sessions
    <2> QED BY <1>1, <2>1, <2>2, <2>3
<1>4. CASE ReadProfile(w) \/ ReadApplication(w) \/ ReadDocument(w)
    <2>1. PICK s : At(w, s)
        BY <1>4 DEF ReadProfile, ReadApplication, ReadDocument
    <2>2. task[w] # Idle /\ Seen(w) \in Seens
        BY <2>1, InHandFine DEF AccountsInv
    <2>3. PICK seen : seen.token = Seen(w).token /\ (Continue(w, seen) \/ Refuse(w))
        <3>1. CASE ReadProfile(w)
            BY <2>2, <3>1 DEF ReadProfile, Read, Seens
        <3>2. CASE ReadApplication(w)
            BY <2>2, <3>2 DEF ReadApplication, Read, Seens
        <3>3. CASE ReadDocument(w)
            BY <2>2, <3>3 DEF ReadDocument, Read, Seens
        <3> QED BY <1>4, <3>1, <3>2, <3>3
    <2>4. stored' = stored
        BY <1>4 DEF ReadProfile, ReadApplication, ReadDocument, Read, sessions
    <2> QED BY <2>2, <2>3, <2>4, ContinueWith
<1>5. CASE ReadToken(w) \/ Revoke(w)
    <2>1. \E s : At(w, s)
        BY <1>5 DEF ReadToken, Revoke
    <2>2. stored' \subseteq stored /\ (Continue(w, Seen(w)) \/ Refuse(w))
        BY <1>5 DEF ReadToken, Revoke
    <2> QED BY <1>1, <2>1, <2>2
<1>6. CASE Sign(w)
    <2>1. At(w, "sign") /\ Continue(w, [Seen(w) EXCEPT !.token = Stamp(Subject(w))])
          /\ stored' = stored
        BY <1>6 DEF Sign, sessions
    <2>2. Seen(w) \in Seens /\ Subject(w) \in Users
        BY <2>1, InHandFine DEF AccountsInv
    <2>3. PICK seen : Continue(w, seen) /\ seen.token = Stamp(Subject(w))
        BY <2>1, <2>2 DEF Seens
    <2>4. PICK new : task' = [task EXCEPT ![w] = new] /\ (new = Idle \/ new.seen = seen)
        BY <2>3, ContinueWith
    <2> QED BY <2>1, <2>2, <2>3, <2>4
<1>7. CASE Store(w)
    <2>1. /\ At(w, "store") /\ stored' \subseteq stored \cup {Seen(w).token}
          /\ Continue(w, Seen(w))
        BY <1>7 DEF Store
    <2>2. task[w] # Idle
        BY <2>1, InHandFine DEF AccountsInv
    <2> QED BY <1>1, <2>1, <2>2
<1>8. CASE \/ Register(w) \/ Submit(w) \/ ApproveApplication(w) \/ RejectApplication(w)
           \/ PlaceOrder(w) \/ DeleteAccount(w)
    <2>1. \E s : At(w, s)
        BY <1>8
        DEF Register, Submit, ApproveApplication, RejectApplication, PlaceOrder, DeleteAccount
    <2>2. stored' \subseteq stored /\ (Continue(w, Seen(w)) \/ Refuse(w))
        <3>1. CASE Register(w) \/ Submit(w)
            BY <3>1 DEF Register, Submit, Write
        <3>2. CASE ApproveApplication(w) \/ RejectApplication(w)
            BY <3>2 DEF ApproveApplication, RejectApplication, Write
        <3>3. CASE PlaceOrder(w) \/ DeleteAccount(w)
            BY <3>3 DEF PlaceOrder, DeleteAccount, Write
        <3> QED BY <1>8, <3>1, <3>2, <3>3
    <2> QED BY <1>1, <2>1, <2>2
<1> QED BY <1>2, <1>3, <1>4, <1>5, <1>6, <1>7, <1>8 DEF Statement

LEMMA RevokedStep ==
    ASSUME AccountsInv, [Next]_vars, NEW t \in given,
           t \notin stored, t.signed < clock, ~InHand(t)
    PROVE  t \notin stored' /\ ~InHand(t)'
<1>1. t \in Tokens /\ t # NoToken /\ clock \in Nat
    BY AccountsAssumption DEF AccountsInv, TypeOK
<1>2. CASE Tick \/ UNCHANGED vars
    <2>1. stored' = stored /\ task' = task
        BY <1>2 DEF Tick, vars, sessions
    <2> QED BY <2>1 DEF InHand, Seen
<1>3. ASSUME NEW w \in Workers, Begin(w) \/ Statement(w)
      PROVE  t \notin stored' /\ ~InHand(t)'
    <2>1. task[w] # Idle => t # Seen(w).token
        BY DEF InHand
    <2>2. t \notin stored'
        BY <1>3, <2>1, TokensOfAStep
    <2>3. Subject(w) \in Users => t # Stamp(Subject(w))
        BY <1>1 DEF Stamp
    <2>4. PICK new :
              /\ task' = [task EXCEPT ![w] = new]
              /\ \/ new = Idle
                 \/ new.seen.token = NoToken
                 \/ task[w] # Idle /\ new.seen.token = Seen(w).token
                 \/ Subject(w) \in Users /\ new.seen.token = Stamp(Subject(w))
        BY <1>3, TokensOfAStep
    <2>5. task'[w] = new /\ \A x \in Workers \ {w} : task'[x] = task[x]
        BY <2>4 DEF AccountsInv, TasksFine
    <2>6. new = Idle \/ new.seen.token # t
        BY <1>1, <2>1, <2>3, <2>4
    <2>7. \A x \in Workers : task'[x] # Idle => task'[x].seen.token # t
        BY <2>5, <2>6 DEF InHand, Seen
    <2> QED BY <2>2, <2>7 DEF InHand, Seen
<1> QED BY <1>2, <1>3 DEF Next

\* A revoked token stays revoked.
THEOREM RevokedForGood == Spec => RevokedStaysRevoked
<1> DEFINE Stays ==
        \A t \in given :
            t \notin stored /\ t.signed < clock /\ ~InHand(t) => t \notin stored' /\ ~InHand(t)'
<1>1. AccountsInv /\ [Next]_vars => [Stays]_vars
    BY RevokedStep
<1>2. RevokedStaysRevoked <=> [][Stays]_vars
    BY DEF RevokedStaysRevoked
<1> HIDE DEF Stays
<1> QED BY <1>1, <1>2, AccountsInductive, PTL DEF Spec

\* Only an approval makes an organizer.
LEMMA ApprovalStep ==
    ASSUME AccountsInv, [Next]_vars, NEW u \in Users, u \notin contested',
           role[u] = "BUYER", role'[u] = "ORGANIZER"
    PROVE  /\ Filing(u) /\ application[u].status = "PENDING"
           /\ profile'[u] = application[u].document
<1>1. CASE role' = role
    BY <1>1
<1>2. ASSUME NEW w \in Workers, Register(w) \/ DeleteAccount(w)
      PROVE  role'[u] # "ORGANIZER"
    <2>1. \/ role' = role
          \/ role' = [role EXCEPT ![Subject(w)] = "BUYER"]
          \/ role' = [role EXCEPT ![Subject(w)] = Deleted]
        BY <1>2 DEF Register, DeleteAccount, Write, accounts
    <2> QED BY <2>1, AccountsAssumption DEF AccountsInv, TypeOK, NoRow, Roles
<1>3. ASSUME NEW w \in Workers, ApproveApplication(w), role' # role
      PROVE  /\ Filing(u) /\ application[u].status = "PENDING"
             /\ profile'[u] = application[u].document
    <2>1. /\ At(w, "approve") /\ SameApplication(w)
          /\ profile' = [profile EXCEPT ![Subject(w)] = Seen(w).application.document]
          /\ role' = [role EXCEPT ![Subject(w)] = "ORGANIZER"]
          /\ Contest(w, Subject(w))
        BY <1>3 DEF ApproveApplication, Write, accounts, Qualified
    <2>2. Subject(w) = u
        BY <2>1 DEF AccountsInv, TypeOK
    <2>3. u \notin contested
        BY <2>1 DEF Contest
    <2>4. application[u] = Seen(w).application /\ Seen(w).application.status = "PENDING"
        BY <2>1, <2>2, <2>3, ApproveReads
    <2> QED BY <2>1, <2>2, <2>4 DEF SameApplication, AccountsInv, TypeOK
<1>4. \/ role' = role
      \/ \E w \in Workers : Register(w) \/ DeleteAccount(w) \/ ApproveApplication(w)
    <2>1. CASE Tick \/ UNCHANGED vars
        BY <2>1 DEF Tick, vars, accounts
    <2>2. ASSUME NEW w \in Workers,
                 \/ ReadEmail(w) \/ ReadAccount(w) \/ ReadProfile(w) \/ ReadApplication(w)
                 \/ ReadDocument(w) \/ CountOrders(w) \/ Begin(w)
          PROVE  role' = role
        BY <2>2 DEF ReadEmail, ReadAccount, ReadProfile, ReadApplication, ReadDocument,
           CountOrders, Begin, Read, accounts
    <2>3. ASSUME NEW w \in Workers, ReadToken(w) \/ Revoke(w) \/ Sign(w) \/ Store(w)
          PROVE  role' = role
        BY <2>3 DEF ReadToken, Revoke, Sign, Store, accounts
    <2>4. ASSUME NEW w \in Workers, Submit(w) \/ RejectApplication(w) \/ PlaceOrder(w)
          PROVE  role' = role
        BY <2>4 DEF Submit, RejectApplication, PlaceOrder, Write, accounts
    <2> QED BY <2>1, <2>2, <2>3, <2>4 DEF Next, Statement
<1> QED BY <1>1, <1>2, <1>3, <1>4

\* What is not contested is approved as it stands.
THEOREM ApprovedAsPending == Spec => ApprovesWhatIsPending
<1> DEFINE AsPending ==
        \A u \in Users \ contested' :
            role[u] = "BUYER" /\ role'[u] = "ORGANIZER" =>
                /\ Filing(u) /\ application[u].status = "PENDING"
                /\ profile'[u] = application[u].document
<1>1. AccountsInv /\ [Next]_vars => [AsPending]_vars
    BY ApprovalStep
<1>2. ApprovesWhatIsPending <=> [][AsPending]_vars
    BY DEF ApprovesWhatIsPending
<1> HIDE DEF AsPending
<1> QED BY <1>1, <1>2, AccountsInductive, PTL DEF Spec

=============================================================================
