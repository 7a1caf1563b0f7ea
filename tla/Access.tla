------------------------------- MODULE Access -------------------------------
(***************************************************************************)
(* Who may call what: the routes of the API with the guards they carry,    *)
(* the pages of the web client with the middleware they carry, and the     *)
(* requests that each page makes.                                          *)
(***************************************************************************)
EXTENDS Integers, Sequences

Roles == {"BUYER", "ORGANIZER", "ADMIN"}

(***************************************************************************)
(* The API.  A route is public, or is called with an access token; it may  *)
(* name the roles it is for; it takes the fields of its DTO and no others. *)
(***************************************************************************)
Public(fields) == [public |-> TRUE, roles |-> {}, fields |-> fields]
SignedIn(fields) == [public |-> FALSE, roles |-> {}, fields |-> fields]
For(roles, fields) == [public |-> FALSE, roles |-> roles, fields |-> fields]
Managers == {"ADMIN", "ORGANIZER"}

Paging == {"page", "limit", "sortBy", "sortOrder"}
MaxLimit == 100

RefreshTokenDto == {"refreshToken"}
OrganizerDto == {"legalName", "tradeName", "document"}
RegisterDto == {"name", "email", "password", "role", "organizer"}
QueryOrganizerApplication == Paging \cup OrganizerDto \cup {"status"}
CreateEventDto ==
    {"name", "description", "artists", "startDate", "endDate", "imageUrl", "minimumAge", "venueId"}
QueryEventDto == Paging \cup {"name", "city", "state", "startDate", "endDate"}
CreateVenueDto == {"name", "street", "number", "district", "city", "state", "zipCode", "capacity"}
QueryVenueDto == Paging \cup {"name", "city", "state", "minCapacity", "maxCapacity"}
CreateCategoryDto == {"name", "description", "price", "quantity", "salesStart", "salesEnd"}
QueryCategoryDto ==
    Paging \cup {"name", "minPrice", "maxPrice", "salesStartDate", "salesEndDate"}
CreateCouponDto == {"code", "description", "discountType", "value", "expiresAt", "maxUses"}
QueryCouponDto == Paging \cup {"code", "discountType"}
QueryTicketDto == Paging \cup {"status", "code", "orderId", "eventId"}
CreateOrderDto == {"items", "couponCode"}

AuthController ==
    [register |-> Public(RegisterDto), signIn |-> Public({"email", "password"}),
     refresh |-> Public(RefreshTokenDto), logout |-> Public(RefreshTokenDto),
     delete |-> SignedIn({}), me |-> SignedIn({}), getMyOrganizerApplication |-> SignedIn({}),
     submitOrganizerApplication |-> For({"BUYER"}, OrganizerDto)]

AdminController ==
    [listEvents |-> For({"ADMIN"}, QueryEventDto \cup {"status"}),
     listVenues |-> For({"ADMIN"}, QueryVenueDto),
     listOrganizerSummary |-> For({"ADMIN"}, QueryOrganizerApplication),
     findOrganizerApplication |-> For({"ADMIN"}, {}),
     approveOrganizerApplication |-> For({"ADMIN"}, {}),
     rejectOrganizerApplication |-> For({"ADMIN"}, {"rejectReason"}),
     listOrders |-> For({"ADMIN"}, Paging \cup {"status"}),
     findOrder |-> For({"ADMIN"}, {}), confirmPayment |-> For({"ADMIN"}, {}),
     rejectPayment |-> For({"ADMIN"}, {"reason"})]

EventController ==
    [create |-> For(Managers, CreateEventDto), getAll |-> Public(QueryEventDto),
     getManaged |-> For(Managers, QueryEventDto \cup {"status"}), getById |-> Public({}),
     delete |-> For(Managers, {}), update |-> For(Managers, CreateEventDto),
     updateStatus |-> For(Managers, {"status"})]

VenueController ==
    [create |-> For(Managers, CreateVenueDto), findAll |-> Public(QueryVenueDto),
     findManaged |-> For(Managers, QueryVenueDto), findOne |-> Public({}),
     update |-> For(Managers, CreateVenueDto), delete |-> For(Managers, {})]

CategoryController ==
    [create |-> For(Managers, CreateCategoryDto), findAll |-> Public(QueryCategoryDto),
     findOne |-> Public({}), update |-> For(Managers, CreateCategoryDto),
     remove |-> For(Managers, {})]

CouponController ==
    [create |-> For(Managers, CreateCouponDto),
     update |-> For(Managers, CreateCouponDto \cup {"active"}),
     listAll |-> For(Managers, QueryCouponDto), getOne |-> For(Managers, {}),
     delete |-> SignedIn({})]

TicketController ==
    [findAll |-> SignedIn(QueryTicketDto), validate |-> SignedIn({}), findOne |-> SignedIn({}),
     markAsUsed |-> For(Managers, {})]

OrderController == [create |-> SignedIn(CreateOrderDto)]

Routes ==
    [auth |-> AuthController, admin |-> AdminController, event |-> EventController,
     venue |-> VenueController, category |-> CategoryController, coupon |-> CouponController,
     ticket |-> TicketController, order |-> OrderController]

\* JwtAuthGuard, RolesGuard and ValidationPipe, in the order they run.  NoRole is the
\* role of a request without a valid token.
NoRole == "NONE"

Authenticated(route, role) == route.public \/ role # NoRole
Permitted(route, role) == route.roles = {} \/ role \in route.roles
WellFormed(route, request) == request.sends \subseteq route.fields /\ request.limit <= MaxLimit

StatusOf(request, role) ==
    LET route == Routes[request.to[1]][request.to[2]] IN
    CASE ~Authenticated(route, role) -> 401
      [] Authenticated(route, role) /\ ~Permitted(route, role) -> 403
      [] Authenticated(route, role) /\ Permitted(route, role) ->
            IF WellFormed(route, request) THEN 200 ELSE 400

(***************************************************************************)
(* The web client.  What a page asks for, and what its buttons send,       *)
(* depends on the role that the client has stored.                         *)
(***************************************************************************)
Ask(controller, handler, fields) ==
    [to |-> <<controller, handler>>, sends |-> fields, limit |-> 0]
List(controller, handler, fields, limit) ==
    [to |-> <<controller, handler>>, sends |-> fields \cup {"limit"}, limit |-> limit]

useAdminEventsQuery(role, filters, limit) ==
    IF role = "ADMIN" THEN List("admin", "listEvents", filters, limit)
                      ELSE List("event", "getManaged", filters, limit)

useAdminVenuesQuery(role, filters, limit) ==
    IF role = "ADMIN" THEN List("admin", "listVenues", filters, limit)
                      ELSE List("venue", "findManaged", filters, limit)

useVenuesQuery(role) ==
    IF role = "ADMIN" THEN List("admin", "listVenues", {}, 100)
                      ELSE List("venue", "findManaged", {}, 100)

useEventsQuery == List("event", "getAll", {"page", "sortBy", "sortOrder", "name"}, 12)
useEventQuery == Ask("event", "getById", {})
useEventCategoriesQuery == List("category", "findAll", {}, 100)
useVenueQuery == Ask("venue", "findOne", {})
useAdminApplicationsQuery(filters, limit) == List("admin", "listOrganizerSummary", filters, limit)
useAdminApplicationQuery == Ask("admin", "findOrganizerApplication", {})
useAdminPaymentsQuery(filters, limit) == List("admin", "listOrders", filters, limit)
useAdminPaymentDetailQuery == Ask("admin", "findOrder", {})
useMyTicketsQuery == Ask("ticket", "findAll", {})
useMyOrdersQuery == List("ticket", "findAll", {"sortBy", "sortOrder"}, 100)
useMyOrganizerApplicationQuery == Ask("auth", "getMyOrganizerApplication", {})

\* What EventForm, VenueForm and CategoryManager send; the status goes by itself.
EventFields ==
    {"name", "description", "startDate", "endDate", "artists", "minimumAge", "imageUrl", "venueId"}
VenueFields == {"name", "street", "number", "district", "city", "state", "zipCode", "capacity"}
CategoryFields == {"name", "description", "price", "quantity", "salesStart", "salesEnd"}

useEventFormMutation ==
    {Ask("event", "create", EventFields), Ask("event", "update", EventFields),
     Ask("event", "updateStatus", {"status"}), Ask("event", "delete", {})}
useVenueFormMutation ==
    {Ask("venue", "create", VenueFields), Ask("venue", "update", VenueFields),
     Ask("venue", "delete", {})}
useCategoryFormMutation ==
    {Ask("category", "create", CategoryFields), Ask("category", "update", CategoryFields),
     Ask("category", "remove", {})}
useAdminApplicationMutation ==
    {Ask("admin", "approveOrganizerApplication", {}),
     Ask("admin", "rejectOrganizerApplication", {"rejectReason"})}
useAdminPaymentMutation ==
    {Ask("admin", "confirmPayment", {}), Ask("admin", "rejectPayment", {"reason"})}
useCreateOrderMutation == Ask("order", "create", {"items"})
useSubmitOrganizerApplicationMutation ==
    Ask("auth", "submitOrganizerApplication", {"legalName", "tradeName", "document"})

Sorted == {"page", "sortBy", "sortOrder"}
EventListPage(role) == {useAdminEventsQuery(role, Sorted \cup {"name", "status"}, 15)}
EventFormPage(role) == {useVenuesQuery(role), useEventQuery} \cup useEventFormMutation
VenueListPage(role) == {useAdminVenuesQuery(role, Sorted \cup {"name", "city"}, 15)}
VenueFormPage == {useVenueQuery} \cup useVenueFormMutation
CategoryManager == {useEventCategoriesQuery} \cup useCategoryFormMutation

Page(middleware, requests) == [middleware |-> middleware, requests |-> requests]

\* The pages that ask for something of their own, by their file under pages/.
index == Page("none", {useEventsQuery})
login == Page("none", {Ask("auth", "signIn", {"email", "password"})})
cadastro ==
    Page("none", {Ask("auth", "register", {"name", "email", "password", "role", "organizer"})})
eventos == Page("none", {useEventsQuery})
eventosId == Page("none", {useEventQuery, useEventCategoriesQuery})
checkout == Page("auth", {useCreateOrderMutation})
ingressos == Page("auth", {useMyTicketsQuery})
pedidos == Page("auth", {useMyOrdersQuery})
candidatura(role) ==
    Page("auth", {useMyOrganizerApplicationQuery} \cup
        {r \in {useSubmitOrganizerApplicationMutation} : role \notin Managers})
organizador(role) ==
    Page("organizer", {useAdminEventsQuery(role, {"page"}, 100),
                       useAdminVenuesQuery(role, {"page"}, 100)})
admin(role) ==
    Page("admin", {useAdminEventsQuery(role, {"page"}, 100), useAdminVenuesQuery(role, {"page"}, 1),
                   useAdminApplicationsQuery({"page", "status"}, 5),
                   useAdminPaymentsQuery({"page", "status"}, 5)})
adminOrganizadores ==
    Page("admin", {useAdminApplicationsQuery(Sorted \cup {"legalName", "status"}, 15)})
adminOrganizador ==
    Page("admin", {useAdminApplicationQuery} \cup useAdminApplicationMutation)
adminPedidos == Page("admin", {useAdminPaymentsQuery(Sorted \cup {"status"}, 15)})
adminPedido == Page("admin", {useAdminPaymentDetailQuery} \cup useAdminPaymentMutation)

\* All pages, for a client that has stored the role.
Pages(role) ==
    [index |-> index, login |-> login, cadastro |-> cadastro,
     eventos |-> eventos, eventosId |-> eventosId, checkout |-> checkout,
     confirmacao |-> Page("auth", {}), minhaConta |-> Page("auth", {}),
     ingressos |-> ingressos, pedidos |-> pedidos, candidatura |-> candidatura(role),
     organizador |-> organizador(role),
     organizadorEventos |-> Page("organizer", EventListPage(role)),
     organizadorEvento |-> Page("organizer", EventFormPage(role)),
     organizadorCategorias |-> Page("organizer", CategoryManager),
     organizadorLocais |-> Page("organizer", VenueListPage(role)),
     organizadorLocal |-> Page("organizer", VenueFormPage),
     admin |-> admin(role),
     adminEventos |-> Page("admin", EventListPage(role)),
     adminEvento |-> Page("admin", EventFormPage(role)),
     adminCategorias |-> Page("admin", CategoryManager),
     adminLocais |-> Page("admin", VenueListPage(role)),
     adminLocal |-> Page("admin", VenueFormPage),
     adminOrganizadores |-> adminOrganizadores, adminOrganizador |-> adminOrganizador,
     adminPedidos |-> adminPedidos, adminPedido |-> adminPedido]

\* AppHeader: the menu of a signed-in user.
userMenuItems(role) ==
    {"minhaConta", "ingressos", "pedidos"} \cup
    (CASE role = "ADMIN" -> {"admin"} [] role = "ORGANIZER" -> {"organizador"}
       [] OTHER -> {"candidatura"})

\* AdminSidebar, and the mobile menu of layouts/admin.vue.
visibleItems(role) ==
    IF role = "ADMIN" THEN {"admin", "adminEventos", "adminOrganizadores", "adminPedidos"}
    ELSE {"adminLocais", "organizador", "organizadorEventos", "organizadorLocais"}

\* The links that a client with the role shows.
Links(role) ==
    (IF role = NoRole THEN {} ELSE userMenuItems(role)) \cup
    (IF role \in Managers THEN visibleItems(role) ELSE {})

\* Mutant: organizer.ts is content with any signed-in user.
OpensSignedIn(page, authenticated, role) ==
    CASE page.middleware = "none" -> TRUE
      [] page.middleware \in {"auth", "organizer"} -> authenticated
      [] page.middleware = "admin" -> authenticated /\ role = "ADMIN"

\* middleware/auth.ts, organizer.ts and admin.ts: whether navigation to the page goes
\* through; otherwise the user is sent to /login or to the front page.
Opens(page, authenticated, role) ==
    CASE page.middleware = "none" -> TRUE
      [] page.middleware = "auth" -> authenticated
      [] page.middleware = "organizer" -> authenticated /\ role \in {"ORGANIZER", "ADMIN"}
      [] page.middleware = "admin" -> authenticated /\ role = "ADMIN"

\* With the role stored by the client and the role claimed by its access token, no
\* request of a page that opens is refused for its role or its fields, and the links shown
\* lead to pages that open.  One does not: adminLocais is shown to organizers, whom
\* admin.ts sends away.
IsServed(stored, claimed) ==
    LET pages == Pages(stored)
        opening == {p \in DOMAIN pages : Opens(pages[p], stored # NoRole, stored)}
    IN /\ Links(stored) \ {"adminLocais"} \subseteq opening
       /\ \A p \in opening : \A request \in pages[p].requests :
            StatusOf(request, claimed) \in {200, 401}

\* The roles that a token may claim for the pages of a stored role, as a table.
Served ==
    [stored \in Roles \cup {NoRole} |-> {claimed \in Roles \cup {NoRole} : IsServed(stored, claimed)}]

=============================================================================
