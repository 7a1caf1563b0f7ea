------------------------------- MODULE Session -------------------------------
(***************************************************************************)
(* The session of the web client: the auth store of each open tab, the     *)
(* cookies they share, and refreshUser, which asks the API who the user is *)
(* and trades the refresh token for new ones when the role has changed.    *)
(*                                                                         *)
(* Every await is a point where the tab goes on, another tab acts, or the  *)
(* page is reloaded.  A reload waits for a handler of the server that is   *)
(* already past its check, and drops the answer.                           *)
(***************************************************************************)
EXTENDS Access

CONSTANTS
    Tabs,          \* tabs of one browser
    Users,
    FirstRole,     \* FirstRole[u]: User.role before any application is approved
    NoUser,
    MaxIssued      \* bound: token pairs issued

ASSUME SessionAssumption ==
    FirstRole \in [Users -> Roles] /\ NoUser \notin Users /\ MaxIssued \in Nat

VARIABLES
    roleOf,        \* User.role, in the database
    issued,        \* issued[n]: the user and role in the payload of token pair n
    live,          \* refresh tokens that are stored and not revoked
    tab,           \* the auth store of each tab
    cookie,        \* auth_token, auth_refresh_token and auth_user
    asking,        \* the refreshUser call of each tab
    leaving        \* tabs that wait for the answer to POST /auth/logout

server == <<roleOf, issued, live>>
vars == <<server, tab, cookie, asking, leaving>>

(***************************************************************************)
(* user and role are those of the stored User; access and refresh name     *)
(* token pairs.  mixed is history: an answer was stored with a session it  *)
(* was not asked for.                                                      *)
(***************************************************************************)
Stored ==
    [user : Users \cup {NoUser}, role : Roles \cup {NoRole},
     access : 0..MaxIssued, refresh : 0..MaxIssued, mixed : BOOLEAN]

SignedOut == [user |-> NoUser, role |-> NoRole, access |-> 0, refresh |-> 0, mixed |-> FALSE]

Held == {tab[t] : t \in Tabs} \cup {cookie}

isAuthenticated(t) == tab[t].access # 0 /\ tab[t].user # NoUser

Steps == {"idle", "me", "answered", "refresh", "checked", "issued"}
Idle == [at |-> "idle", access |-> 0, user |-> NoUser, role |-> NoRole,
         refresh |-> 0, got |-> 0, mixed |-> FALSE]

Init ==
    /\ roleOf = FirstRole
    /\ issued = <<>>
    /\ live = {}
    /\ tab = [t \in Tabs |-> SignedOut]
    /\ cookie = SignedOut
    /\ asking = [t \in Tabs |-> Idle]
    /\ leaving = {}

\* Mutant: the cookie of the refresh token is left as it was.
SetSessionPartly(t, session) ==
    /\ tab' = [tab EXCEPT ![t] = session]
    /\ cookie' = [session EXCEPT !.refresh = cookie.refresh]

SetSession(t, session) ==
    /\ tab' = [tab EXCEPT ![t] = session]
    /\ cookie' = session

\* setUser writes the user alone.
WithUser(stored, call) ==
    [stored EXCEPT !.user = call.user, !.role = call.role,
                   !.mixed = stored.mixed \/ stored.access # call.access]

SetUser(t, call) ==
    /\ tab' = [tab EXCEPT ![t] = WithUser(@, call)]
    /\ cookie' = WithUser(cookie, call)

\* Mutant: the user is forgotten and the role it was shown with is not.
ClearSessionHalf(t) ==
    /\ tab' = [tab EXCEPT ![t] = [SignedOut EXCEPT !.role = tab[t].role]]
    /\ cookie' = SignedOut

ClearSession(t) ==
    /\ tab' = [tab EXCEPT ![t] = SignedOut]
    /\ cookie' = SignedOut

Issue(u) ==
    /\ Len(issued) < MaxIssued
    /\ issued' = Append(issued, [user |-> u, role |-> roleOf[u]])

(***************************************************************************)
(* Sign in, sign out, and the server's side of both.                       *)
(***************************************************************************)
\* useAuth.login and useAuth.register.  The form is disabled until the answer, and
\* the tokens are stored in the step that receives them.
Login(t, u) ==
    /\ t \notin leaving
    /\ Issue(u)
    /\ live' = live \cup {Len(issued')}
    /\ SetSession(t, [user |-> u, role |-> roleOf[u], access |-> Len(issued'),
                      refresh |-> Len(issued'), mixed |-> FALSE])
    /\ UNCHANGED <<roleOf, asking, leaving>>

\* useAuth.logout: the call revokes the refresh token that the tab holds, or fails;
\* the session is cleared when it returns.
Logout(t) ==
    /\ isAuthenticated(t) /\ t \notin leaving
    /\ live' \in {live, live \ {tab[t].refresh}}
    /\ leaving' = leaving \cup {t}
    /\ UNCHANGED <<roleOf, issued, tab, cookie, asking>>

LoggedOut(t) ==
    /\ t \in leaving
    /\ leaving' = leaving \ {t}
    /\ ClearSession(t)
    /\ UNCHANGED <<server, asking>>

\* AdminService.approveOrganizerApplication.
Approve(u) ==
    /\ roleOf[u] = "BUYER"
    /\ roleOf' = [roleOf EXCEPT ![u] = "ORGANIZER"]
    /\ UNCHANGED <<issued, live, tab, cookie, asking, leaving>>

(***************************************************************************)
(* app.vue: a page load restores the session from the cookies and calls    *)
(* refreshUser.                                                            *)
(***************************************************************************)
Restored == IF cookie.access # 0 /\ cookie.user # NoUser THEN cookie ELSE SignedOut

Load(t) ==
    /\ asking[t].at # "checked"
    /\ tab' = [tab EXCEPT ![t] = Restored]
    /\ asking' = [asking EXCEPT ![t] =
         IF Restored.access = 0 THEN Idle ELSE [Idle EXCEPT !.at = "me", !.access = Restored.access]]
    /\ leaving' = leaving \ {t}
    /\ UNCHANGED <<server, cookie>>

\* GET /auth/me reads the row of the token's user.
Me(t) ==
    LET call == asking[t] IN
    /\ call.at = "me"
    /\ asking' = [asking EXCEPT ![t] =
         [call EXCEPT !.at = "answered", !.user = issued[call.access].user,
                      !.role = roleOf[issued[call.access].user]]]
    /\ UNCHANGED <<server, tab, cookie, leaving>>

\* The answer is compared with what the store holds by now.
RoleChanged(t) == asking[t].role # tab[t].role /\ tab[t].refresh # 0

KeepUser(t) ==
    /\ asking[t].at = "answered"
    /\ ~RoleChanged(t)
    /\ SetUser(t, asking[t])
    /\ asking' = [asking EXCEPT ![t] = Idle]
    /\ UNCHANGED <<server, leaving>>

AskRefresh(t) ==
    /\ asking[t].at = "answered"
    /\ RoleChanged(t)
    /\ asking' = [asking EXCEPT ![t] =
         [@ EXCEPT !.at = "refresh", !.refresh = tab[t].refresh,
                   !.mixed = tab[t].mixed \/ tab[t].access # asking[t].access]]
    /\ UNCHANGED <<server, tab, cookie, leaving>>

\* POST /auth/refresh validates the token, then revokes it and issues a pair.
Valid(t) == asking[t].refresh \in live

CheckRefresh(t) ==
    /\ asking[t].at = "refresh"
    /\ Valid(t)
    /\ asking' = [asking EXCEPT ![t].at = "checked"]
    /\ UNCHANGED <<server, tab, cookie, leaving>>

Rotate(t) ==
    LET call == asking[t] IN
    /\ call.at = "checked"
    /\ Issue(issued[call.refresh].user)
    /\ live' = (live \ {call.refresh}) \cup {Len(issued')}
    /\ asking' = [asking EXCEPT ![t] = [call EXCEPT !.at = "issued", !.got = Len(issued')]]
    /\ UNCHANGED <<roleOf, tab, cookie, leaving>>

StorePair(t) ==
    LET call == asking[t] IN
    /\ call.at = "issued"
    /\ SetSession(t, [user |-> call.user, role |-> call.role, access |-> call.got,
                      refresh |-> call.got, mixed |-> call.mixed])
    /\ asking' = [asking EXCEPT ![t] = Idle]
    /\ UNCHANGED <<server, leaving>>

\* A call of refreshUser is refused, or its answer is lost: the session is kept.
Abandon(t) ==
    /\ asking[t].at \in {"me", "answered", "refresh", "issued"}
    /\ asking' = [asking EXCEPT ![t] = Idle]
    /\ UNCHANGED <<server, tab, cookie, leaving>>

\* useApi: the answer 401 to a request of a page clears whatever session the tab has
\* by then.  An access token lives for 15 minutes: a tab that has one may be refused
\* at any time, and a request sent before a sign-in is answered after it.
handle401(t) ==
    /\ isAuthenticated(t)
    /\ ClearSession(t)
    /\ UNCHANGED <<server, asking, leaving>>

Next ==
    \/ \E t \in Tabs, u \in Users : Login(t, u)
    \/ \E u \in Users : Approve(u)
    \/ \E t \in Tabs :
         \/ Logout(t) \/ LoggedOut(t) \/ Load(t)
         \/ Me(t) \/ KeepUser(t) \/ AskRefresh(t) \/ CheckRefresh(t)
         \/ Rotate(t) \/ StorePair(t) \/ Abandon(t)
         \/ handle401(t)

Spec == Init /\ [][Next]_vars

-----------------------------------------------------------------------------
\* Each variable has its type.
TypeOK ==
    /\ roleOf \in [Users -> Roles]
    /\ issued \in Seq([user : Users, role : Roles]) /\ Len(issued) <= MaxIssued
    /\ live \subseteq 1..Len(issued)
    /\ tab \in [Tabs -> Stored]
    /\ cookie \in Stored
    /\ \A held \in Held : held.user = NoUser <=> held.role = NoRole
    /\ asking \in [Tabs -> [at : Steps, access : 0..MaxIssued, user : Users \cup {NoUser},
                            role : Roles \cup {NoRole}, refresh : 0..MaxIssued,
                            got : 0..MaxIssued, mixed : BOOLEAN]]
    /\ leaving \subseteq Tabs

Whole(stored) ==
    /\ stored.access # 0
    /\ stored.refresh = stored.access
    /\ issued[stored.access] = [user |-> stored.user, role |-> stored.role]

\* What a tab or the cookies hold belongs to one sign-in of one user: the stored
\* user and role are the ones in the payload of both tokens.  Tabs sign in, rotate,
\* sign out and store answers in any order over the same cookies; the one way out is
\* an answer of refreshUser that is stored with a session it was not asked for.
SessionsAreWhole ==
    \A held \in Held :
        \/ held.mixed
        \/ Whole(held)
        \/ held.access = 0 /\ held.refresh = 0

Claimed(t) == IF tab[t].access = 0 THEN NoRole ELSE issued[tab[t].access].role

\* Every request of every page that the middleware lets the user open is within the
\* role in the tab's access token and the fields of the route, and the links shown lead
\* to pages that open: the client never offers what the API answers 403, or 400 for its
\* shape, whoever was approved when.
PagesAreServed == \A t \in Tabs : tab[t].mixed \/ Claimed(t) \in Served[tab[t].role]

=============================================================================
