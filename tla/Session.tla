------------------------------- MODULE Session -------------------------------
(***************************************************************************)
(* The session of the dashboard in one tab of a browser.  The token and    *)
(* the stored user (localStorage) are shared with the other tabs, which    *)
(* appear here only by what they do to them; the active tenant             *)
(* (sessionStorage), the page, the banner and the requests are the tab's   *)
(* own.  Every page reaches the server through request(), which reads      *)
(* token and tenant when it sends; the server resolves the tenant of a     *)
(* request by itself.                                                      *)
(*                                                                         *)
(* A handler of a page runs without interruption.  router.push and replace *)
(* only set the goal of the tab: the page changes in a later step, in      *)
(* which the effects of the layout and of the new page run.                *)
(***************************************************************************)
EXTENDS Naturals, FiniteSets

CONSTANTS Tenant,
          Staff,        \* users of one tenant
          Home,         \* the tenant of each of them
          Root,         \* the super admin
          None,
          Pages,        \* the pages that exist
          AgentEnabled, \* AGENT_ENABLED of the server, as /setup/status tells it
          MaxLogins,    \* bound on the tokens ever issued
          Expiring,     \* bound: the logins whose token may expire
          MaxRequests,  \* bound on the requests in flight
          MaxLeft       \* bound on those of pages left, beside which another is sent

FreePages == {"tenants", "dashboard", "terminal", "settings"}
AgentPages == {"terminal", "scripts"}
\* The pages that load again and again as long as they are shown
PollingPages == {"dashboard", "devices", "audit"}

ASSUME TenantsAssumption == Home \in [Staff -> Tenant] /\ None \notin Tenant
ASSUME UsersAssumption == Root \notin Staff /\ None \notin Staff \union {Root}
ASSUME PagesAssumption ==
    /\ {"tenants", "dashboard"} \subseteq Pages
    /\ "login" \notin Pages /\ "stay" \notin Pages
ASSUME BoundsAssumption == MaxLogins \in Nat /\ MaxRequests \in Nat
ASSUME AgentAssumption == AgentEnabled \in BOOLEAN

VARIABLES
    token,    \* localStorage: number of the login whose token is stored, 0 for none
    stored,   \* localStorage: the stored user
    owner,    \* login -> the user the token was issued to
    expired,  \* tokens past their seven days
    page,     \* route shown
    goal,     \* route a handler has asked for, "stay" if none
    active,   \* sessionStorage: active tenant
    banner,   \* the layout's activeTenantName
    ready,    \* the layout shows its children
    view,     \* what the page shows: rows of all tenants or of one
    loaded,   \* the page has sent its first request
    rows,     \* whose rows are shown, and for which login they were answered
    since,    \* history: the login that was stored when the page appeared
    flying    \* requests on their way, each with what request() put in its headers

storage == <<token, stored>>
tabVars == <<page, goal, active, banner, ready, view, loaded, rows, since>>
vars == <<storage, owner, expired, tabVars, flying>>

User == Staff \union {Root}
Login == 1..MaxLogins
Route == Pages \union {"login"}
Issued == {n \in Login : owner[n] # None}
Rows == [tenant: Tenant \union {"all"}, login: Login]
\* "kept": the component that sent it is still mounted
Request == [kept: BOOLEAN, token: 0..MaxLogins, tenant: Tenant \union {None},
            kind: {"global", "scoped"}]

\* Every variable holds a value of its kind.
TypeOK ==
    /\ token \in {0} \union Issued
    /\ stored \in User \union {None}
    /\ owner \in [Login -> User \union {None}]
    /\ expired \subseteq Issued
    /\ page \in Route
    /\ goal \in Route \union {"stay"}
    /\ active \in Tenant \union {None}
    /\ banner \in Tenant \union {None}
    /\ ready \in BOOLEAN
    /\ view \in {"none", "global", "scoped"}
    /\ loaded \in BOOLEAN
    /\ rows \in Rows \union {None}
    /\ since \in {0} \union Issued
    /\ flying \subseteq Request

Init ==
    /\ token = 0 /\ stored = None
    /\ owner = [n \in Login |-> None] /\ expired = {}
    /\ page = "login"
    /\ goal = "stay"
    /\ active = None
    /\ banner = None
    /\ ready = FALSE
    /\ view = "none"
    /\ loaded = FALSE
    /\ rows = None
    /\ since = 0
    /\ flying = {}

-----------------------------------------------------------------------------
(* What the layout and the pages show *)

IsSuperAdmin == stored = Root

\* The layout's guard: where it sends the tab that shows page p.
Guard(p) ==
    IF token = 0 THEN "login"
    ELSE IF IsSuperAdmin /\ active = None /\ p \notin FreePages THEN "tenants"
    ELSE "stay"

\* DashboardPage, TenantsPage and the others
ViewOf(p) ==
    IF p = "tenants" THEN (IF IsSuperAdmin THEN "global" ELSE "none")
    ELSE IF p = "dashboard" /\ IsSuperAdmin /\ active = None THEN "global"
    ELSE "scoped"

NavItems ==
    LET all == IF ~IsSuperAdmin THEN Pages \ {"tenants"}
               ELSE IF banner = None THEN Pages \intersect FreePages
               ELSE Pages
    IN IF AgentEnabled THEN all ELSE all \ AgentPages

\* The yellow line on top of every page of a super admin
BannerShown == page # "login" /\ ready /\ IsSuperAdmin /\ banner # None

\* Mutant: what a page loads is kept beside the pages and reaches the one that follows.
Attached == flying

\* A page that is left is unmounted: its requests go on without it.
Detached == {[r EXCEPT !.kept = FALSE] : r \in flying}

\* Page p appears; shown: the layout was already showing its children.
Show(p, shown) ==
    LET guard == Guard(p)
        open == shown \/ guard = "stay"
    IN /\ page' = p
       /\ ready' = open
       /\ banner' = active
       /\ view' = IF open THEN ViewOf(p) ELSE "none"
       /\ goal' =
            IF guard # "stay" THEN guard
            ELSE IF p = "tenants" /\ ~IsSuperAdmin THEN "dashboard" ELSE "stay"
       /\ loaded' = FALSE
       /\ rows' = None
       /\ since' = token

\* The login page has no layout around it.
ShowLogin ==
    /\ page' = "login"
    /\ ready' = FALSE
    /\ banner' = None
    /\ view' = "none"
    /\ goal' = "stay"
    /\ loaded' = FALSE
    /\ rows' = None
    /\ since' = 0

-----------------------------------------------------------------------------
(* Navigation *)

\* The route changes to the goal of the tab; a goal that is already shown changes nothing.
Arrive ==
    /\ goal # "stay"
    /\ \/ goal = page
          /\ goal' = "stay"
          /\ UNCHANGED <<page, banner, ready, view, loaded, rows, since, flying>>
       \/ goal = "login" /\ page # "login"
          /\ ShowLogin
          /\ flying' = Detached
       \/ goal \notin {"login", page}
          /\ Show(goal, ready)
          /\ flying' = Detached
    /\ UNCHANGED <<storage, owner, expired, active>>

\* The address of a page is opened, "/" for the dashboard: a new document, which aborts
\* the requests of the old one.
Visit(p) ==
    /\ IF p = "login" THEN ShowLogin ELSE Show(p, FALSE)
    /\ flying' = {}
    /\ UNCHANGED <<storage, owner, expired, active>>

\* A link of the sidebar
Navigate(p) ==
    /\ ready
    /\ p \in NavItems
    /\ goal' = p
    /\ UNCHANGED <<storage, owner, expired, page, active, banner, ready, view, loaded, rows, since, flying>>

\* enterTenant of the list of tenants and of the overview, and the overview's link to the
\* terminal
EnterTenant(x) ==
    /\ view = "global"
    /\ active' = x
    /\ \E p \in (IF page = "tenants" THEN {"dashboard"} ELSE {"devices", "terminal"}) :
        /\ p \in Pages
        /\ goal' = p
    /\ UNCHANGED <<storage, owner, expired, page, banner, ready, view, loaded, rows, since, flying>>

ExitTenant ==
    /\ BannerShown
    /\ active' = None
    /\ banner' = None
    /\ goal' = "tenants"
    /\ UNCHANGED <<storage, owner, expired, page, ready, view, loaded, rows, since, flying>>

\* onTenantChange of the terminal: the page stays, the tenant changes under it.
TerminalTenant(x) ==
    /\ page = "terminal" /\ view = "scoped" /\ IsSuperAdmin
    /\ x # active
    /\ active' = x
    /\ loaded' = FALSE
    /\ UNCHANGED <<storage, owner, expired, page, goal, banner, ready, view, rows, since, flying>>

-----------------------------------------------------------------------------
(* Login and logout *)

\* setToken and setStoredUser after login, or after completeSetup on a new server
IssueToken(u) ==
    /\ \E n \in Login \ Issued :
        /\ \A m \in Login \ Issued : n <= m
        /\ owner' = [owner EXCEPT ![n] = u]
        /\ token' = n
    /\ stored' = u

LogIn(u) ==
    /\ page = "login"
    /\ IssueToken(u)
    /\ goal' = "dashboard"
    /\ UNCHANGED <<expired, page, active, banner, ready, view, loaded, rows, since, flying>>

\* A wrong password is answered with 401, which request() treats like any other.
LogInFails ==
    /\ page = "login"
    /\ token' = 0
    /\ ShowLogin
    /\ flying' = {}
    /\ UNCHANGED <<stored, owner, expired, active>>

Logout ==
    /\ page # "login" /\ ready
    /\ token' = 0 /\ stored' = None
    /\ active' = None
    /\ goal' = "login"
    /\ UNCHANGED <<owner, expired, page, banner, ready, view, loaded, rows, since, flying>>

Expire(n) ==
    /\ n \in (Issued \intersect Expiring) \ expired
    /\ expired' = expired \union {n}
    /\ UNCHANGED <<storage, owner, tabVars, flying>>

-----------------------------------------------------------------------------
(* Requests *)

MaySend ==
    /\ Cardinality(flying) < MaxRequests
    /\ Cardinality({r \in flying : ~r.kept}) <= MaxLeft

\* Mutant: the interval is missing.
SendOnce ==
    /\ view # "none" /\ ~loaded
    /\ page = "terminal" /\ IsSuperAdmin => active # None
    /\ MaySend
    /\ flying' = flying \union {[kept |-> TRUE, token |-> token, tenant |-> active, kind |-> view]}
    /\ loaded' = TRUE
    /\ UNCHANGED <<storage, owner, expired, page, goal, active, banner, ready, view, rows, since>>

\* request(): the load of the page shown, or its next poll
Send ==
    /\ view # "none"
    /\ ~loaded \/ page \in PollingPages
    /\ page = "terminal" /\ IsSuperAdmin => active # None
    /\ MaySend
    /\ flying' = flying \union {[kept |-> TRUE, token |-> token, tenant |-> active, kind |-> view]}
    /\ loaded' = TRUE
    /\ UNCHANGED <<storage, owner, expired, page, goal, active, banner, ready, view, rows, since>>

Unauthorized(r) == r.token = 0 \/ r.token \in expired

\* effective_tenant: the header counts for a super admin only.
EffectiveTenant(u, header) == IF u = Root THEN header ELSE Home[u]

\* Mutant: the request only throws.
Rejected401(r) ==
    /\ r \in flying /\ Unauthorized(r)
    /\ flying' = flying \ {r}
    /\ UNCHANGED <<storage, owner, expired, tabVars>>

\* 401: the stored token is removed, whichever it is by now, and the document replaced.
Answer401(r) ==
    /\ r \in flying /\ Unauthorized(r)
    /\ token' = 0
    /\ ShowLogin
    /\ flying' = {}
    /\ UNCHANGED <<stored, owner, expired, active>>

\* Any other answer: rows, or an error for a super admin without a tenant and for a user
\* who asks for all tenants.
Answer(r) ==
    /\ r \in flying /\ ~Unauthorized(r)
    /\ flying' = flying \ {r}
    /\ LET u == owner[r.token]
           x == IF r.kind = "scoped" THEN EffectiveTenant(u, r.tenant)
                ELSE IF u = Root THEN "all" ELSE None
       IN rows' = IF r.kept /\ x # None
                  THEN [tenant |-> x, login |-> r.token] ELSE rows
    /\ UNCHANGED <<storage, owner, expired, page, goal, active, banner, ready, view, loaded, since>>

-----------------------------------------------------------------------------
(* The other tabs *)

LogInElsewhere(u) ==
    /\ IssueToken(u)
    /\ UNCHANGED <<expired, tabVars, flying>>

\* A logout, or any 401 that another tab receives
SessionEndsElsewhere ==
    /\ token' = 0
    /\ stored' \in {stored, None}
    /\ UNCHANGED <<owner, expired, tabVars, flying>>

-----------------------------------------------------------------------------
Next ==
    \/ Arrive \/ ExitTenant \/ LogInFails \/ Logout \/ Send
    \/ \E p \in Route : Visit(p) \/ Navigate(p)
    \/ \E x \in Tenant : EnterTenant(x)
    \/ \E x \in Tenant \union {None} : TerminalTenant(x)
    \/ \E u \in User : LogIn(u) \/ LogInElsewhere(u)
    \/ SessionEndsElsewhere
    \/ \E n \in Login : Expire(n)
    \/ \E r \in flying : Answer401(r) \/ Answer(r)

Spec == Init /\ [][Next]_vars

Answered == \E r \in flying : Answer401(r) \/ Answer(r)

\* The router finishes a navigation, intervals fire, and requests are answered.  No
\* fairness for the user, for other tabs or for the expiry of a token.
Fairness == WF_vars(Arrive) /\ WF_vars(Send) /\ WF_vars(Answered)

FairSpec == Spec /\ Fairness

-----------------------------------------------------------------------------
(* Properties *)

\* Token and stored user belong together, although several tabs write them and a 401
\* removes only the token (setToken, setStoredUser, request).
UserMatchesToken == token # 0 => stored = owner[token]

\* No page shows rows that were answered for an earlier login than the one it appeared
\* under: whoever logs in after a logout, an expiry or in another tab never finds the
\* late answers of the session before (the unmounting of pages, request).
RowsOfThisSession == rows # None => rows.login >= since

\* The tenant the requests of the tab are answered for
Scope == IF token = 0 THEN None ELSE EffectiveTenant(owner[token], active)

\* When the session has ended in another tab, a page that polls does not stay, and goes to
\* the login page unless the user leads it elsewhere (request).
SessionEndsEverywhere ==
    (token = 0 /\ view # "none" /\ page \in PollingPages) ~>
        (token # 0 \/ page \notin PollingPages)

\* Whatever overtakes what, a page that polls ends up with the rows of the tenant its
\* requests are now answered for, once no more logins and expiries happen.
RowsConverge ==
    <>[](/\ view = "scoped" /\ page \in PollingPages /\ goal = "stay"
         /\ Scope # None /\ token \notin expired
         => rows = None \/ rows.tenant = Scope)

\* The banner of a super admin names the tenant the requests of the page are scoped to.
BannerNamesScope == BannerShown /\ goal = "stay" => Scope = banner

=============================================================================
