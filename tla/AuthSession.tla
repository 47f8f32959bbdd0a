---------------------------- MODULE AuthSession ----------------------------
(***************************************************************************)
(* The session of the browser application: AuthService, the                *)
(* ApiErrorInterceptor, AuthGuard, LoginComponent, ErrorViewComponent, the *)
(* logout of AppComponent and the two application initializers.            *)
(*                                                                         *)
(* Every HTTP call is two steps, the send and the answer, and answers      *)
(* arrive in any order.  The router, the /auth endpoints and the session   *)
(* cookie are external: they are modelled from how the code uses them.     *)
(*                                                                         *)
(* A URL is abstracted to the component it opens (page.at), the component  *)
(* its "last" query parameter points at, and whether the error page must   *)
(* check the identity before it goes on.                                   *)
(***************************************************************************)
EXTENDS Naturals

CONSTANTS
  Views,                  \* the routes behind AuthGuard
  Dashboard,              \* the one the application falls back to
  Users,                  \* accounts
  Slots,                  \* data requests that may be in flight at once
  ServerMode,             \* the auth mode whoami reports
  Addresses,              \* URLs a user may open from the address bar or history
  LoginSpellings,         \* how the address of an open login page may be spelled
  NavigationInterleaves,  \* may other callbacks run before a navigation settles?
  MaxGeneration           \* bound: no new request is made past this generation

Null == "null"
AuthModes == {"ldap", "kerberos", "kerberos_ldap", "mtls", "shared_secret", "none"}
\* "otherLogin": opens the login page as "login" does, by another spelling of
\* its path (/login;a=1 or /%6Cogin).
Lasts == Views \cup {"none", "login", "otherLogin", "error", "foreign"}
Page == [at : Views \cup {"none", "login", "error"}, last : Lasts, check : BOOLEAN]

ASSUME ConstantsAssumption ==
  /\ Dashboard \in Views
  /\ Views \cap {"none", "login", "otherLogin", "error", "foreign"} = {}
  /\ Null \notin Users
  /\ ServerMode \in AuthModes
  /\ Addresses \subseteq Page
  /\ \A p \in Addresses : p.at # "none"
  /\ "login" \in LoginSpellings /\ LoginSpellings \subseteq {"login", "otherLogin"}
  /\ NavigationInterleaves \in BOOLEAN
  /\ MaxGeneration \in Nat

ViewPage(v) == [at |-> v, last |-> "none", check |-> FALSE]
LoginPage(last) == [at |-> "login", last |-> last, check |-> FALSE]
ErrorPage(last, check) == [at |-> "error", last |-> last, check |-> check]
NoPage == [at |-> "none", last |-> "none", check |-> FALSE]

VARIABLES
  identity,                    \* AuthService.identitySubject
  authGeneration,              \* AuthService.authGenerationValue
  ldapLoginNavigationPending,  \* ApiErrorInterceptor
  page,                        \* router.url, and so the component on screen
  nav,                         \* the navigation under way, NoPage if none
  showLoginForm, isSubmitting, \* LoginComponent
  isRetrying,                  \* ErrorViewComponent
  isLoggingOut,                \* AppComponent
  envConfig, bootWhoami, booted, \* the initializers
  apiCall,                     \* data requests in flight
  loginCall, retryCall, logoutCall, \* /auth requests in flight
  cookie                       \* the session cookie the browser holds

serviceVars == <<identity, authGeneration>>
routerVars == <<page, nav, ldapLoginNavigationPending>>
screenVars == <<showLoginForm, isSubmitting, isRetrying, isLoggingOut>>
bootVars == <<envConfig, bootWhoami, booted>>
callVars == <<apiCall, loginCall, retryCall, logoutCall>>
vars == <<serviceVars, routerVars, screenVars, bootVars, callVars, cookie>>

Identity == [mode : AuthModes \cup {Null}, user : Users \cup {Null}]
EmptyIdentity == [mode |-> Null, user |-> Null]

\* "sender" is the user on screen when the request left: no code reads it.
ApiCall == [inFlight : BOOLEAN, generation : Nat,
            cookie : Users \cup {Null}, sender : Users \cup {Null}]
NoApiCall == [inFlight |-> FALSE, generation |-> 0, cookie |-> Null, sender |-> Null]
LoginCall == [stage : {"idle", "login", "whoami"}, user : Users \cup {Null}]
NoLoginCall == [stage |-> "idle", user |-> Null]
RetryCall == [inFlight : BOOLEAN, cookie : Users \cup {Null}]
NoRetryCall == [inFlight |-> FALSE, cookie |-> Null]

-----------------------------------------------------------------------------
(* AuthService *)

(* mutant: the generation does not follow the identity *)
SetIdentitySameGeneration(i) == identity' = i /\ UNCHANGED authGeneration

SetIdentity(i) ==
  /\ identity' = i
  /\ authGeneration' = authGeneration + 1

ClearUser == SetIdentity([identity EXCEPT !.user = Null])
ResetIdentity == SetIdentity(EmptyIdentity)

(* mutant: any mode is taken at its word *)
NormalizeKeepsMode(raw) == raw

\* A mode this build does not know counts as no mode at all.
Normalize(raw) ==
  [raw EXCEPT !.mode = IF raw.mode \in AuthModes THEN raw.mode ELSE Null]

\* What whoami may say to a request that carried cookie c: under ldap the
\* user of the session, or nobody once it has expired; elsewhere a principal
\* the proxy or the server vouches for.  A newer server may name another mode.
WhoamiReplies(c) ==
  [mode : {ServerMode}, user : IF ServerMode = "ldap" THEN {c, Null} ELSE Users \cup {Null}]
    \cup {[mode |-> "other", user |-> Null]}

-----------------------------------------------------------------------------
(* The router *)

(* mutant: the interceptor's flag outlives its navigation *)
NavigateToKeepsFlag(p) == nav' = p /\ UNCHANGED ldapLoginNavigationPending

\* A navigation that replaces another resolves the promise of the first one,
\* and the interceptor's flag with it.
NavigateTo(p) ==
  /\ nav' = p
  /\ ldapLoginNavigationPending' = FALSE

StayHere == UNCHANGED <<nav, ldapLoginNavigationPending>>

\* The pages a "last" parameter may open. An unknown route opens the dashboard.
PagesAt(last) ==
  IF last = "error" THEN [at : {"error"}, last : Views \cup {"none"}, check : BOOLEAN]
  ELSE IF last \in {"login", "otherLogin"} THEN {LoginPage(l) : l \in Views \cup {"none"}}
  ELSE {ViewPage(IF last \in Views THEN last ELSE Dashboard)}

\* The login page is refused by the path /login, and only by it.
SafeLastRoute(last) ==
  IF last \in {"none", "foreign", "login"} THEN Dashboard ELSE last

\* Callbacks run between the start and the end of a navigation, or do not.
Ready == booted /\ (nav = NoPage \/ NavigationInterleaves)

\* AuthGuard.canActivate on a guarded route, and no guard on the others.
Admitted(i) == i.mode # Null /\ ~(i.mode = "ldap" /\ i.user = Null)

(* mutant: the guard only asks for a mode *)
GuardedByMode(p) ==
  IF p.at \in Views /\ identity.mode = Null THEN ErrorPage(p.at, TRUE) ELSE p

Guarded(p) ==
  IF p.at \notin Views THEN p
  ELSE IF identity.mode = Null THEN ErrorPage(p.at, TRUE)
  ELSE IF identity.mode = "ldap" /\ identity.user = Null THEN LoginPage(p.at)
  ELSE p

\* LoginComponent.ngOnInit, when the component is created.
OffersLogin == identity.mode = "ldap" /\ identity.user = Null

(* mutant: a login page that has nothing to offer stays *)
NoWayOut == NoPage

\* Where it goes from there.
NextFromLogin == IF OffersLogin THEN NoPage ELSE ViewPage(Dashboard)

\* A navigation ends: guards, then the new component replaces the old one,
\* whose pending calls are unsubscribed (takeUntilDestroyed).  A route that is
\* already open keeps its component.
Settle ==
  /\ booted /\ nav # NoPage
  /\ LET p == Guarded(nav)
         opensLogin == p.at = "login" /\ page.at # "login"
     IN /\ page' = p
        /\ NavigateTo(IF opensLogin THEN NextFromLogin ELSE NoPage)
        /\ showLoginForm' = IF opensLogin THEN OffersLogin
                            ELSE p.at = "login" /\ showLoginForm
        /\ IF p.at = "login" THEN UNCHANGED <<isSubmitting, loginCall>>
           ELSE isSubmitting' = FALSE /\ loginCall' = NoLoginCall
        /\ IF p.at = "error" /\ page.at = "error" THEN UNCHANGED <<isRetrying, retryCall>>
           ELSE isRetrying' = FALSE /\ retryCall' = NoRetryCall
  /\ UNCHANGED <<serviceVars, isLoggingOut, bootVars, apiCall, logoutCall, cookie>>

\* A link of the navigation bar, the address bar or the browser's history.
OpenAddress(p) ==
  /\ Ready
  /\ NavigateTo(p)
  /\ UNCHANGED <<serviceVars, page, screenVars, bootVars, callVars, cookie>>

-----------------------------------------------------------------------------
(* Start-up *)

EnvConfigAnswered ==
  /\ envConfig = "loading"
  /\ envConfig' \in {"loaded", "failed"}
  /\ UNCHANGED <<serviceVars, routerVars, screenVars, bootWhoami, booted, callVars, cookie>>

\* loadIdentity of the second initializer; an error counts as no identity.
BootWhoamiAnswered ==
  /\ bootWhoami = "loading"
  /\ bootWhoami' = "done"
  /\ \/ \E raw \in WhoamiReplies(cookie) : SetIdentity(Normalize(raw))
     \/ ResetIdentity
  /\ UNCHANGED <<routerVars, screenVars, envConfig, booted, callVars, cookie>>

(* mutant: a failed whoami rejects the initializer *)
BootstrapNeedsIdentity ==
  /\ ~booted /\ envConfig = "loaded" /\ bootWhoami = "done" /\ identity.mode # Null
  /\ booted' = TRUE
  /\ \E p \in Addresses : NavigateTo(p)
  /\ UNCHANGED <<serviceVars, page, screenVars, envConfig, bootWhoami, callVars, cookie>>

\* Both initializers resolved. The promise of loadEnvConfig has no reject path.
Bootstrap ==
  /\ ~booted /\ envConfig = "loaded" /\ bootWhoami = "done"
  /\ booted' = TRUE
  /\ \E p \in Addresses : NavigateTo(p)
  /\ UNCHANGED <<serviceVars, page, screenVars, envConfig, bootWhoami, callVars, cookie>>

\* The page is reloaded: only the cookie survives.
Reload ==
  /\ identity' = EmptyIdentity /\ authGeneration' = 0
  /\ page' = NoPage /\ NavigateTo(NoPage)
  /\ showLoginForm' = FALSE /\ isSubmitting' = FALSE
  /\ isRetrying' = FALSE /\ isLoggingOut' = FALSE
  /\ envConfig' = "loading" /\ bootWhoami' = "loading" /\ booted' = FALSE
  /\ apiCall' = [s \in Slots |-> NoApiCall]
  /\ loginCall' = NoLoginCall /\ retryCall' = NoRetryCall /\ logoutCall' = FALSE
  /\ UNCHANGED cookie

-----------------------------------------------------------------------------
(* LoginComponent *)

(* mutant: a finished login leaves the form disabled *)
SubmitDoneKeepsBusy == loginCall' = NoLoginCall /\ UNCHANGED isSubmitting

SubmitDone == isSubmitting' = FALSE /\ loginCall' = NoLoginCall

SubmitLogin(u) ==
  /\ Ready /\ page.at = "login" /\ showLoginForm
  /\ authGeneration < MaxGeneration
  /\ ~isSubmitting
  /\ isSubmitting' = TRUE
  /\ loginCall' = [stage |-> "login", user |-> u]
  /\ UNCHANGED <<serviceVars, routerVars, showLoginForm, isRetrying, isLoggingOut,
                 bootVars, apiCall, retryCall, logoutCall, cookie>>

\* The POST succeeded: the browser stores the cookie, whoami leaves with it.
LoginAccepted ==
  /\ Ready /\ loginCall.stage = "login"
  /\ loginCall' = [loginCall EXCEPT !.stage = "whoami"]
  /\ cookie' = loginCall.user
  /\ UNCHANGED <<serviceVars, routerVars, screenVars, bootVars, apiCall, retryCall, logoutCall>>

\* The POST failed (a wrong password, or the server): the form stays.
LoginRefused ==
  /\ Ready /\ loginCall.stage = "login"
  /\ SubmitDone
  /\ UNCHANGED <<serviceVars, routerVars, showLoginForm, isRetrying, isLoggingOut,
                 bootVars, apiCall, retryCall, logoutCall, cookie>>

\* whoami after the POST: on to the dashboard in another mode, a message when
\* there is still no session, else back to the route the user came from.
LoginIdentified ==
  /\ Ready /\ loginCall.stage = "whoami"
  /\ SubmitDone
  /\ \E raw \in WhoamiReplies(loginCall.user) :
       LET i == Normalize(raw) IN
       /\ SetIdentity(i)
       /\ \/ i.mode # "ldap" /\ NavigateTo(ViewPage(Dashboard))
          \/ i.mode = "ldap" /\ i.user = Null /\ StayHere
          \/ /\ i.mode = "ldap" /\ i.user # Null
             /\ \E p \in PagesAt(SafeLastRoute(page.last)) : NavigateTo(p)
  /\ UNCHANGED <<page, showLoginForm, isRetrying, isLoggingOut,
                 bootVars, apiCall, retryCall, logoutCall, cookie>>

\* whoami after the POST failed: showIdentityError.
LoginUnidentified ==
  /\ Ready /\ loginCall.stage = "whoami"
  /\ SubmitDone
  /\ ResetIdentity
  /\ NavigateTo(ErrorPage(SafeLastRoute(page.last), TRUE))
  /\ UNCHANGED <<page, showLoginForm, isRetrying, isLoggingOut,
                 bootVars, apiCall, retryCall, logoutCall, cookie>>

-----------------------------------------------------------------------------
(* ErrorViewComponent.retryLastActiveUrlAgain *)

RetryIdentity ==
  /\ Ready /\ page.at = "error" /\ page.check
  /\ authGeneration < MaxGeneration
  /\ ~isRetrying
  /\ isRetrying' = TRUE
  /\ retryCall' = [inFlight |-> TRUE, cookie |-> cookie]
  /\ UNCHANGED <<serviceVars, routerVars, showLoginForm, isSubmitting, isLoggingOut,
                 bootVars, apiCall, loginCall, logoutCall, cookie>>

\* loadIdentity answered: nowhere to go while the mode is unknown.
RetryAnswered ==
  /\ Ready /\ retryCall.inFlight
  /\ retryCall' = NoRetryCall
  /\ isRetrying' = FALSE
  /\ \/ ResetIdentity /\ StayHere
     \/ \E raw \in WhoamiReplies(retryCall.cookie) :
          LET i == Normalize(raw) IN
          /\ SetIdentity(i)
          /\ \/ i.mode = Null /\ StayHere
             \/ i.mode = "ldap" /\ i.user = Null /\ NavigateTo(LoginPage(page.last))
             \/ Admitted(i) /\ \E p \in PagesAt(page.last) : NavigateTo(p)
  /\ UNCHANGED <<page, showLoginForm, isSubmitting, isLoggingOut,
                 bootVars, apiCall, loginCall, logoutCall, cookie>>

RetryPlain ==
  /\ Ready /\ page.at = "error" /\ ~page.check
  /\ \E p \in PagesAt(page.last) : NavigateTo(p)
  /\ UNCHANGED <<serviceVars, page, screenVars, bootVars, callVars, cookie>>

-----------------------------------------------------------------------------
(* AppComponent.logout: the header offers it to an ldap user, off the login page *)

Logout ==
  /\ Ready /\ page.at \notin {"none", "login"}
  /\ identity.mode = "ldap" /\ identity.user # Null
  /\ authGeneration < MaxGeneration
  /\ ~isLoggingOut
  /\ isLoggingOut' = TRUE
  /\ logoutCall' = TRUE
  /\ UNCHANGED <<serviceVars, routerVars, showLoginForm, isSubmitting, isRetrying,
                 bootVars, apiCall, loginCall, retryCall, cookie>>

LogoutAccepted ==
  /\ Ready /\ logoutCall
  /\ logoutCall' = FALSE
  /\ isLoggingOut' = FALSE
  /\ cookie' = Null
  /\ ClearUser
  /\ NavigateTo(LoginPage("none"))
  /\ UNCHANGED <<page, showLoginForm, isSubmitting, isRetrying,
                 bootVars, apiCall, loginCall, retryCall>>

LogoutFailed ==
  /\ Ready /\ logoutCall
  /\ logoutCall' = FALSE
  /\ isLoggingOut' = FALSE
  /\ UNCHANGED <<serviceVars, routerVars, showLoginForm, isSubmitting, isRetrying,
                 bootVars, apiCall, loginCall, retryCall, cookie>>

-----------------------------------------------------------------------------
(* Data requests and ApiErrorInterceptor *)

SendApi(s) ==
  /\ Ready /\ page.at \in Views
  /\ authGeneration < MaxGeneration
  /\ ~apiCall[s].inFlight
  /\ apiCall' = [apiCall EXCEPT ![s] =
       [inFlight |-> TRUE, generation |-> authGeneration,
        cookie |-> cookie, sender |-> identity.user]]
  /\ UNCHANGED <<serviceVars, routerVars, screenVars, bootVars,
                 loginCall, retryCall, logoutCall, cookie>>

Answered(s) ==
  /\ Ready /\ apiCall[s].inFlight
  /\ apiCall' = [apiCall EXCEPT ![s] = NoApiCall]
  /\ UNCHANGED <<page, screenVars, bootVars, loginCall, retryCall, logoutCall>>

\* The answer renews the cookie the request carried, or leaves the jar alone.
ApiSucceeded(s) ==
  /\ Answered(s)
  /\ ServerMode = "ldap" => apiCall[s].cookie # Null
  /\ cookie' \in {cookie, apiCall[s].cookie}
  /\ UNCHANGED serviceVars /\ StayHere

\* What router.url says of the page on screen.
Url == IF page.at = "login" THEN LoginSpellings ELSE {page.at}

NavigateToError ==
  IF page.at = "error" THEN StayHere
  ELSE \E last \in Url : NavigateTo(ErrorPage(last, FALSE))

\* 401 under ldap to a request of an older generation: someone else's news.
ApiUnauthorizedStale(s) ==
  /\ Answered(s)
  /\ identity.mode = "ldap" /\ apiCall[s].generation # authGeneration
  /\ UNCHANGED <<serviceVars, cookie>> /\ StayHere

ApiUnauthorized(s) ==
  /\ Answered(s)
  /\ identity.mode = "ldap" /\ apiCall[s].generation = authGeneration
  /\ ClearUser
  /\ IF page.at = "login" \/ ldapLoginNavigationPending THEN StayHere
     ELSE nav' = LoginPage(page.at) /\ ldapLoginNavigationPending' = TRUE
  /\ UNCHANGED cookie

\* 401 outside ldap, 403, and every other failure: the error page.
ApiFailed(s) ==
  /\ Answered(s)
  /\ NavigateToError
  /\ UNCHANGED <<serviceVars, cookie>>

\* The idle or the absolute lifetime of the session ends.
SessionExpires ==
  /\ cookie # Null
  /\ cookie' = Null
  /\ UNCHANGED <<serviceVars, routerVars, screenVars, bootVars, callVars>>

-----------------------------------------------------------------------------
Init ==
  /\ identity = EmptyIdentity /\ authGeneration = 0
  /\ page = NoPage /\ nav = NoPage /\ ldapLoginNavigationPending = FALSE
  /\ showLoginForm = FALSE /\ isSubmitting = FALSE
  /\ isRetrying = FALSE /\ isLoggingOut = FALSE
  /\ envConfig = "loading" /\ bootWhoami = "loading" /\ booted = FALSE
  /\ apiCall = [s \in Slots |-> NoApiCall]
  /\ loginCall = NoLoginCall /\ retryCall = NoRetryCall /\ logoutCall = FALSE
  /\ cookie \in Users \cup {Null}

User ==
  \/ \E p \in Addresses : OpenAddress(p)
  \/ \E u \in Users : SubmitLogin(u)
  \/ RetryIdentity \/ RetryPlain \/ Logout \/ Reload
  \/ \E s \in Slots : SendApi(s)

Boot == EnvConfigAnswered \/ BootWhoamiAnswered \/ Bootstrap
LoginAnswered == LoginAccepted \/ LoginRefused \/ LoginIdentified \/ LoginUnidentified
LogoutAnswered == LogoutAccepted \/ LogoutFailed
ApiAnswered(s) ==
  ApiSucceeded(s) \/ ApiUnauthorizedStale(s) \/ ApiUnauthorized(s) \/ ApiFailed(s)

Next ==
  \/ User \/ Boot \/ Settle \/ SessionExpires
  \/ LoginAnswered \/ RetryAnswered \/ LogoutAnswered
  \/ \E s \in Slots : ApiAnswered(s)

Spec == Init /\ [][Next]_vars

\* A navigation ends, and every call is answered or fails: strongly fair, since
\* an answer waits its turn behind the navigations the event loop runs first.
\* Users owe nothing.
Fairness ==
  /\ WF_vars(Boot) /\ WF_vars(Settle)
  /\ SF_vars(LoginAnswered) /\ SF_vars(RetryAnswered) /\ SF_vars(LogoutAnswered)

FairSpec == Spec /\ Fairness

-----------------------------------------------------------------------------
(* Properties *)

\* Every variable keeps the shape its declaration gives it.
TypeOK ==
  /\ identity \in Identity /\ authGeneration \in Nat
  /\ page \in Page /\ nav \in Page /\ ldapLoginNavigationPending \in BOOLEAN
  /\ showLoginForm \in BOOLEAN /\ isSubmitting \in BOOLEAN
  /\ isRetrying \in BOOLEAN /\ isLoggingOut \in BOOLEAN
  /\ envConfig \in {"loading", "loaded", "failed"}
  /\ bootWhoami \in {"loading", "done"} /\ booted \in BOOLEAN
  /\ apiCall \in [Slots -> ApiCall]
  /\ loginCall \in LoginCall /\ retryCall \in RetryCall /\ logoutCall \in BOOLEAN
  /\ cookie \in Users \cup {Null}

\* Whatever the order of answers, clicks and navigations, a guarded view stays
\* on screen without an identity that AuthGuard would admit only while a
\* navigation that takes it away is under way: dropping the identity is never
\* left to the next click (interceptor, logout, guard).
ViewNeedsIdentity ==
  page.at \in Views /\ ~Admitted(identity) => nav # NoPage

\* The user on screen is dropped by a data request's answer only when that
\* request was sent as that user: a 401 that was under way before the sign-in
\* says nothing about the session confirmed since (the interceptor's generation).
DropOnlyByOwnRequest ==
  [][\A s \in Slots :
       /\ apiCall[s].inFlight /\ ~apiCall'[s].inFlight /\ booted'
       /\ identity.user # Null /\ identity'.user # identity.user
       => apiCall[s].sender = identity.user]_vars

\* A busy flag is up exactly while the call it stands for is in flight, and the
\* component that owns it is on screen: no answer, error or route change leaves
\* a form, a retry or a logout disabled for good.
BusyWhilePending ==
  /\ isSubmitting <=> loginCall.stage # "idle"
  /\ isRetrying <=> retryCall.inFlight
  /\ isLoggingOut <=> logoutCall
  /\ isSubmitting => page.at = "login"
  /\ isRetrying => page.at = "error"

\* The interceptor's flag is up only while its own navigation is under way, so
\* a later 401 is never kept from opening the login page by a stale flag.
PendingIsLoginNavigation ==
  ldapLoginNavigationPending => nav.at = "login"

\* A login page at rest has its form, and the mode is one the form signs in to:
\* each way in (guard, interceptor, logout, retry, address bar, a "last" route)
\* and each way the identity changes meanwhile ends in a page the user can act on.
LoginPageUsable ==
  page.at = "login" /\ nav = NoPage => showLoginForm /\ identity.mode = "ldap"

\* No address spells the login page in another way.
PlainAddresses ==
  LoginSpellings = {"login"} /\ \A p \in Addresses : p.last # "otherLogin"

\* With plain addresses nobody is signed in behind a login page at rest: a
\* sign-in leaves the page, wherever its "last" parameter points, and a page
\* opened by one who is signed in goes on (ngOnInit, safeLastRoute).
NobodyBehindLogin ==
  page.at = "login" /\ nav = NoPage => identity.user = Null

\* Sign-in, retry and logout each come to an end.
BusyEnds ==
  /\ isSubmitting ~> ~isSubmitting
  /\ isRetrying ~> ~isRetrying
  /\ isLoggingOut ~> ~isLoggingOut

\* Once the configuration is there the application starts, whatever whoami says.
ConfigThenBoots == (envConfig = "loaded") ~> (booted \/ envConfig # "loaded")
=============================================================================
