------------------------- MODULE AuthSession_proofs -------------------------
(***************************************************************************)
(* Theorems of AuthSession, for every set of views, accounts and request   *)
(* slots, every auth mode, and navigations that interleave or do not; and  *)
(* that every step of AuthSession is a step of Session or leaves it        *)
(* unchanged.                                                              *)
(***************************************************************************)
EXTENDS SessionRefinement, TLAPS

\* Before the application has started nothing is on screen, and it starts only
\* after the first whoami was answered.
BootFirst ==
  /\ ~booted => page = NoPage /\ nav = NoPage
  /\ booted => bootWhoami = "done"

\* A data request in flight carries a generation the service has reached; one
\* of the current generation was sent as the user on screen now.
SenderOfGeneration ==
  \A s \in Slots : apiCall[s].inFlight =>
    /\ apiCall[s].generation <= authGeneration
    /\ apiCall[s].generation = authGeneration => apiCall[s].sender = identity.user

\* The inductive invariant behind the safety properties.
SessionInv ==
  /\ TypeOK
  /\ BootFirst
  /\ BusyWhilePending
  /\ PendingIsLoginNavigation
  /\ ViewNeedsIdentity
  /\ SenderOfGeneration

-----------------------------------------------------------------------------
(* Facts about the operators *)

\* The pages the application builds itself are pages.
LEMMA PagesTyped ==
  /\ NoPage \in Page /\ LoginPage("none") \in Page
  /\ \A v \in Views : ViewPage(v) \in Page
  /\ \A l \in Lasts : LoginPage(l) \in Page
  /\ \A l \in Lasts, c \in BOOLEAN : ErrorPage(l, c) \in Page
BY DEF NoPage, ViewPage, LoginPage, ErrorPage, Page, Lasts

\* What a page shows and where it leads back to are both "last" values.
LEMMA PageFields == \A p \in Page : p.at \in Lasts /\ p.last \in Lasts
BY DEF Page, Lasts

\* A "last" parameter opens a page, whichever it names.
LEMMA PagesAtTyped == \A l \in Lasts : PagesAt(l) \subseteq Page
<1> TAKE l \in Lasts
<1>1. [at : {"error"}, last : Views \cup {"none"}, check : BOOLEAN] \subseteq Page
  BY DEF Page, Lasts
<1>2. {LoginPage(v) : v \in Views \cup {"none"}} \subseteq Page
  <2>1. Views \cup {"none"} \subseteq Lasts
    BY DEF Lasts
  <2> QED BY <2>1, PagesTyped
<1>3. ViewPage(IF l \in Views THEN l ELSE Dashboard) \in Page
  BY PagesTyped, ConstantsAssumption DEF ConstantsAssumption
<1> QED BY <1>1, <1>2, <1>3 DEF PagesAt

\* LoginComponent's fallback to the dashboard is a "last" value too.
LEMMA SafeLastRouteTyped == \A l \in Lasts : SafeLastRoute(l) \in Lasts
BY ConstantsAssumption DEF SafeLastRoute, Lasts, ConstantsAssumption

\* The error page leads back to what router.url may read.
LEMMA UrlTyped ==
  ASSUME page \in Page
  PROVE  Url \subseteq Lasts
BY PageFields, ConstantsAssumption DEF Url, Lasts, ConstantsAssumption

\* What AuthService keeps of a whoami answer is an identity.
LEMMA NormalizeTyped ==
  ASSUME NEW c \in Users \cup {Null}, NEW raw \in WhoamiReplies(c)
  PROVE  Normalize(raw) \in Identity
BY DEF WhoamiReplies, Normalize, Identity, Null

\* The values of a fresh page load have the shapes of their variables.
LEMMA EmptyTyped ==
  /\ EmptyIdentity \in Identity
  /\ NoApiCall \in ApiCall /\ NoLoginCall \in LoginCall /\ NoRetryCall \in RetryCall
BY DEF EmptyIdentity, Identity, NoApiCall, ApiCall, NoLoginCall, LoginCall,
       NoRetryCall, RetryCall

\* clearUser leaves an identity.
LEMMA ClearedTyped ==
  ASSUME identity \in Identity
  PROVE  [identity EXCEPT !.user = Null] \in Identity
BY DEF Identity

\* AuthGuard answers with a page.
LEMMA GuardedTyped ==
  ASSUME nav \in Page, identity \in Identity
  PROVE  Guarded(nav) \in Page
BY DEF Guarded, Page, Lasts, ErrorPage, LoginPage

\* AuthGuard lets a navigation into a view only with an admitted identity.
LEMMA GuardAdmits ==
  ASSUME nav \in Page, Guarded(nav).at \in Views
  PROVE  Admitted(identity)
BY ConstantsAssumption DEF Guarded, Page, ErrorPage, LoginPage, Admitted, ConstantsAssumption

-----------------------------------------------------------------------------
(* Type correctness *)

\* A fresh page load is well-typed.
LEMMA TypeCorrectInit == Init => TypeOK
<1> SUFFICES ASSUME Init PROVE TypeOK
  OBVIOUS
<1>1. identity \in Identity /\ page \in Page /\ nav \in Page
  BY PagesTyped, EmptyTyped DEF Init
<1>2. apiCall \in [Slots -> ApiCall] /\ loginCall \in LoginCall /\ retryCall \in RetryCall
  BY EmptyTyped DEF Init
<1> QED BY <1>1, <1>2 DEF Init, TypeOK

\* Every reachable state is well-typed, whatever the answers and their order.
THEOREM TypeCorrect == Spec => []TypeOK
<1>1. Init => TypeOK
  BY TypeCorrectInit
<1>2. TypeOK /\ [Next]_vars => TypeOK'
  <2> SUFFICES ASSUME TypeOK, [Next]_vars
               PROVE  TypeOK'
    OBVIOUS
  <2> USE PagesTyped, PageFields, EmptyTyped, ConstantsAssumption DEF TypeOK
  <2>1. ASSUME EnvConfigAnswered PROVE TypeOK'
    BY <2>1 DEF EnvConfigAnswered, serviceVars, routerVars, screenVars,
       callVars
  <2>2. ASSUME BootWhoamiAnswered PROVE TypeOK'
    BY <2>2, NormalizeTyped DEF BootWhoamiAnswered, SetIdentity,
       ResetIdentity, routerVars, screenVars, callVars, EmptyIdentity
  <2>3. ASSUME Bootstrap PROVE TypeOK'
    BY <2>3 DEF Bootstrap, NavigateTo, serviceVars, screenVars, callVars,
       ConstantsAssumption
  <2>4. ASSUME Settle PROVE TypeOK'
    BY <2>4, GuardedTyped DEF Settle, NoPage, NavigateTo, NextFromLogin, OffersLogin,
       NoLoginCall, NoRetryCall, serviceVars, bootVars, ConstantsAssumption
  <2>5. ASSUME NEW p \in Addresses, OpenAddress(p) PROVE TypeOK'
    BY <2>5 DEF OpenAddress, Ready, NavigateTo, serviceVars, screenVars,
       bootVars, callVars, NoPage, ConstantsAssumption
  <2>6. ASSUME Reload PROVE TypeOK'
    BY <2>6 DEF Reload, EmptyIdentity, NoPage, NavigateTo, NoApiCall,
       NoLoginCall, NoRetryCall, ConstantsAssumption
  <2>7. ASSUME NEW u \in Users, SubmitLogin(u) PROVE TypeOK'
    BY <2>7 DEF SubmitLogin, Ready, serviceVars, routerVars, bootVars, NoPage,
       LoginCall, ConstantsAssumption
  <2>8. ASSUME LoginAccepted PROVE TypeOK'
    BY <2>8 DEF LoginAccepted, Ready, serviceVars, routerVars, screenVars,
       bootVars, NoPage, LoginCall
  <2>9. ASSUME LoginRefused PROVE TypeOK'
    BY <2>9 DEF LoginRefused, SubmitDone, Ready, NoLoginCall, serviceVars, routerVars,
       bootVars, NoPage, LoginCall
  <2>10. ASSUME LoginIdentified PROVE TypeOK'
    <3>1. identity' \in Identity /\ authGeneration' \in Nat
      BY <2>10, NormalizeTyped DEF LoginIdentified, SubmitDone, SetIdentity, LoginCall
    <3>2. nav' \in Page /\ ldapLoginNavigationPending' \in BOOLEAN
      <4>1. ViewPage(Dashboard) \in Page
        BY DEF ConstantsAssumption
      <4>2. PagesAt(SafeLastRoute(page.last)) \subseteq Page
        BY PagesAtTyped, SafeLastRouteTyped
      <4> QED
        BY <2>10, <4>1, <4>2 DEF LoginIdentified, SubmitDone, NavigateTo, StayHere
    <3> QED
      BY <2>10, <3>1, <3>2 DEF LoginIdentified, SubmitDone, bootVars
  <2>11. ASSUME LoginUnidentified PROVE TypeOK'
    <3>1. ErrorPage(SafeLastRoute(page.last), TRUE) \in Page
      BY SafeLastRouteTyped
    <3>2. identity' \in Identity /\ authGeneration' \in Nat
      BY <2>11 DEF LoginUnidentified, SubmitDone, ResetIdentity, SetIdentity
    <3> QED
      BY <2>11, <3>1, <3>2 DEF LoginUnidentified, SubmitDone, NavigateTo, bootVars
  <2>12. ASSUME RetryIdentity PROVE TypeOK'
    BY <2>12 DEF RetryIdentity, Ready, serviceVars, routerVars, bootVars,
       NoPage, RetryCall, ConstantsAssumption
  <2>13. ASSUME RetryAnswered PROVE TypeOK'
    <3>1. identity' \in Identity /\ authGeneration' \in Nat
      BY <2>13, NormalizeTyped DEF RetryAnswered, SetIdentity, ResetIdentity, RetryCall
    <3>2. nav' \in Page /\ ldapLoginNavigationPending' \in BOOLEAN
      <4>1. LoginPage(page.last) \in Page /\ PagesAt(page.last) \subseteq Page
        BY PagesAtTyped
      <4> QED
        BY <2>13, <4>1 DEF RetryAnswered, NavigateTo, StayHere
    <3> QED
      BY <2>13, <3>1, <3>2 DEF RetryAnswered, bootVars
  <2>14. ASSUME RetryPlain PROVE TypeOK'
    <3>1. nav' \in Page /\ ldapLoginNavigationPending' \in BOOLEAN
      BY <2>14, PagesAtTyped DEF RetryPlain, NavigateTo
    <3> QED
      BY <2>14, <3>1 DEF RetryPlain, serviceVars, screenVars, bootVars, callVars
  <2>15. ASSUME Logout PROVE TypeOK'
    BY <2>15 DEF Logout, Ready, serviceVars, routerVars, bootVars, NoPage,
       ConstantsAssumption
  <2>16. ASSUME LogoutAccepted PROVE TypeOK'
    <3>1. identity' \in Identity /\ authGeneration' \in Nat
      BY <2>16, ClearedTyped DEF LogoutAccepted, ClearUser, SetIdentity
    <3>2. nav' \in Page
      BY <2>16 DEF LogoutAccepted, NavigateTo
    <3> QED
      BY <2>16, <3>1, <3>2 DEF LogoutAccepted, NavigateTo, bootVars
  <2>17. ASSUME LogoutFailed PROVE TypeOK'
    BY <2>17 DEF LogoutFailed, Ready, serviceVars, routerVars, bootVars,
       NoPage
  <2>18. ASSUME NEW s \in Slots, SendApi(s) PROVE TypeOK'
    BY <2>18 DEF SendApi, Ready, serviceVars, routerVars, screenVars,
       bootVars, NoPage, Identity, ApiCall, ConstantsAssumption
  <2>19. ASSUME NEW s \in Slots, ApiSucceeded(s) PROVE TypeOK'
    BY <2>19 DEF ApiSucceeded, Answered, serviceVars, StayHere, Ready,
       NoApiCall, screenVars, bootVars, NoPage, ApiCall
  <2>20. ASSUME NEW s \in Slots, ApiUnauthorizedStale(s) PROVE TypeOK'
    BY <2>20 DEF ApiUnauthorizedStale, Answered, serviceVars, StayHere, Ready,
       NoApiCall, screenVars, bootVars, NoPage, ApiCall
  <2>21. ASSUME NEW s \in Slots, ApiUnauthorized(s) PROVE TypeOK'
    <3>1. identity' \in Identity /\ authGeneration' \in Nat
      BY <2>21, ClearedTyped DEF ApiUnauthorized, ClearUser, SetIdentity
    <3>2. nav' \in Page /\ ldapLoginNavigationPending' \in BOOLEAN
      BY <2>21 DEF ApiUnauthorized, StayHere
    <3> QED
      BY <2>21, <3>1, <3>2 DEF ApiUnauthorized, Answered, screenVars, bootVars
  <2>22. ASSUME NEW s \in Slots, ApiFailed(s) PROVE TypeOK'
    <3>1. nav' \in Page /\ ldapLoginNavigationPending' \in BOOLEAN
      BY <2>22, UrlTyped DEF ApiFailed, NavigateToError, NavigateTo, StayHere
    <3>2. apiCall' \in [Slots -> ApiCall]
      BY <2>22 DEF ApiFailed, Answered
    <3> QED
      BY <2>22, <3>1, <3>2 DEF ApiFailed, Answered, serviceVars, screenVars, bootVars
  <2>23. ASSUME SessionExpires PROVE TypeOK'
    BY <2>23 DEF SessionExpires, serviceVars, routerVars, screenVars,
       bootVars, callVars
  <2>24. CASE UNCHANGED vars
    BY <2>24 DEF vars, serviceVars, routerVars, screenVars, bootVars, callVars
  <2> QED
    BY <2>1, <2>2, <2>3, <2>4, <2>5, <2>6, <2>7, <2>8, <2>9, <2>10, <2>11,
       <2>12, <2>13, <2>14, <2>15, <2>16, <2>17, <2>18, <2>19, <2>20, <2>21,
       <2>22, <2>23, <2>24 DEF Next, User, Boot, LoginAnswered,
       LogoutAnswered, ApiAnswered
<1> QED BY <1>1, <1>2, PTL DEF Spec

-----------------------------------------------------------------------------
(* The inductive invariant *)

\* Every action of the session preserves the inductive invariant.
LEMMA SessionInvStep ==
  ASSUME SessionInv, TypeOK', [Next]_vars
  PROVE  SessionInv'
<1> USE ConstantsAssumption DEF SessionInv, BootFirst, BusyWhilePending,
                                PendingIsLoginNavigation, ViewNeedsIdentity,
                                SenderOfGeneration
<1>1. ASSUME EnvConfigAnswered PROVE SessionInv'
  BY <1>1 DEF EnvConfigAnswered, serviceVars, routerVars, screenVars, callVars
<1>2. ASSUME BootWhoamiAnswered PROVE SessionInv'
  BY <1>2 DEF BootWhoamiAnswered, SetIdentity, ResetIdentity, routerVars,
     screenVars, callVars, EmptyIdentity, Admitted, TypeOK, ApiCall, Identity,
     NoPage, ConstantsAssumption
<1>3. ASSUME Bootstrap PROVE SessionInv'
  BY <1>3 DEF Bootstrap, NavigateTo, serviceVars, screenVars, callVars,
     Admitted, NoPage, ViewPage, LoginPage, ErrorPage, ConstantsAssumption
<1>4. ASSUME Settle PROVE SessionInv'
  <2>1. BootFirst'
    BY <1>4 DEF Settle, bootVars
  <2>2. BusyWhilePending'
    BY <1>4 DEF Settle, NoLoginCall, NoRetryCall
  <2>3. PendingIsLoginNavigation'
    BY <1>4 DEF Settle, NavigateTo
  <2>4. ViewNeedsIdentity'
    BY <1>4, GuardAdmits DEF Settle, serviceVars, Admitted, TypeOK
  <2>5. SenderOfGeneration'
    BY <1>4 DEF Settle, serviceVars
  <2> QED BY <2>1, <2>2, <2>3, <2>4, <2>5
<1>5. ASSUME NEW p \in Addresses, OpenAddress(p) PROVE SessionInv'
  BY <1>5 DEF OpenAddress, Ready, NavigateTo, serviceVars, screenVars,
     bootVars, callVars, NoPage, Admitted, ViewPage, LoginPage, ErrorPage,
     ConstantsAssumption
<1>6. ASSUME Reload PROVE SessionInv'
  BY <1>6 DEF Reload, EmptyIdentity, NoPage, NavigateTo, NoApiCall,
     NoLoginCall, NoRetryCall, Admitted, ViewPage, LoginPage, ErrorPage,
     ConstantsAssumption
<1>7. ASSUME NEW u \in Users, SubmitLogin(u) PROVE SessionInv'
  BY <1>7 DEF SubmitLogin, Ready, serviceVars, routerVars, bootVars, NoPage
<1>8. ASSUME LoginAccepted PROVE SessionInv'
  BY <1>8 DEF LoginAccepted, Ready, serviceVars, routerVars, screenVars,
     bootVars, NoPage
<1>9. ASSUME LoginRefused PROVE SessionInv'
  BY <1>9 DEF LoginRefused, SubmitDone, Ready, NoLoginCall, serviceVars, routerVars,
     bootVars, NoPage
<1>10. ASSUME LoginIdentified PROVE SessionInv'
  BY <1>10 DEF LoginIdentified, SubmitDone, Ready, NoLoginCall, SetIdentity, NavigateTo,
     StayHere, bootVars, NoPage, Admitted, ViewPage, LoginPage, ErrorPage,
     ConstantsAssumption, TypeOK, ApiCall, Identity, EmptyIdentity
<1>11. ASSUME LoginUnidentified PROVE SessionInv'
  BY <1>11 DEF LoginUnidentified, SubmitDone, Ready, NoLoginCall, ResetIdentity,
     NavigateTo, bootVars, NoPage, SetIdentity, EmptyIdentity, Admitted,
     ViewPage, LoginPage, ErrorPage, ConstantsAssumption, TypeOK, ApiCall,
     Identity
<1>12. ASSUME RetryIdentity PROVE SessionInv'
  BY <1>12 DEF RetryIdentity, Ready, serviceVars, routerVars, bootVars, NoPage
<1>13. ASSUME RetryAnswered PROVE SessionInv'
  BY <1>13 DEF RetryAnswered, Ready, NoRetryCall, ResetIdentity, StayHere,
     SetIdentity, NavigateTo, Admitted, bootVars, NoPage, EmptyIdentity,
     ViewPage, LoginPage, ErrorPage, ConstantsAssumption, TypeOK, ApiCall,
     Identity
<1>14. ASSUME RetryPlain PROVE SessionInv'
  BY <1>14 DEF RetryPlain, Ready, NavigateTo, serviceVars, screenVars,
     bootVars, callVars, NoPage, Admitted, ViewPage, LoginPage, ErrorPage,
     ConstantsAssumption
<1>15. ASSUME Logout PROVE SessionInv'
  BY <1>15 DEF Logout, Ready, serviceVars, routerVars, bootVars, NoPage
<1>16. ASSUME LogoutAccepted PROVE SessionInv'
  BY <1>16 DEF LogoutAccepted, Ready, ClearUser, NavigateTo, bootVars, NoPage,
     SetIdentity, Admitted, ViewPage, LoginPage, ErrorPage,
     ConstantsAssumption, TypeOK, ApiCall, Identity, EmptyIdentity
<1>17. ASSUME LogoutFailed PROVE SessionInv'
  BY <1>17 DEF LogoutFailed, Ready, serviceVars, routerVars, bootVars, NoPage
<1>18. ASSUME NEW s \in Slots, SendApi(s) PROVE SessionInv'
  BY <1>18 DEF SendApi, Ready, serviceVars, routerVars, screenVars, bootVars,
     NoPage, TypeOK, ApiCall
<1>19. ASSUME NEW s \in Slots, ApiSucceeded(s) PROVE SessionInv'
  BY <1>19 DEF ApiSucceeded, Answered, serviceVars, StayHere, Ready,
     NoApiCall, screenVars, bootVars, NoPage, TypeOK, ApiCall
<1>20. ASSUME NEW s \in Slots, ApiUnauthorizedStale(s) PROVE SessionInv'
  BY <1>20 DEF ApiUnauthorizedStale, Answered, serviceVars, StayHere, Ready,
     NoApiCall, screenVars, bootVars, NoPage, TypeOK, ApiCall
<1>21. ASSUME NEW s \in Slots, ApiUnauthorized(s) PROVE SessionInv'
  BY <1>21 DEF ApiUnauthorized, Answered, ClearUser, StayHere, Ready,
     NoApiCall, screenVars, bootVars, SetIdentity, NoPage, Admitted, ViewPage,
     LoginPage, ErrorPage, ConstantsAssumption, TypeOK, ApiCall, Identity,
     EmptyIdentity
<1>22. ASSUME NEW s \in Slots, ApiFailed(s) PROVE SessionInv'
  BY <1>22 DEF ApiFailed, Answered, NavigateToError, serviceVars, Ready,
     NoApiCall, screenVars, bootVars, StayHere, NavigateTo, NoPage, Admitted,
     ViewPage, LoginPage, ErrorPage, ConstantsAssumption, TypeOK, ApiCall
<1>23. ASSUME SessionExpires PROVE SessionInv'
  BY <1>23 DEF SessionExpires, serviceVars, routerVars, screenVars, bootVars,
     callVars
<1>24. CASE UNCHANGED vars
  BY <1>24 DEF vars, serviceVars, routerVars, screenVars, bootVars, callVars, Admitted
<1> QED
  BY <1>1, <1>2, <1>3, <1>4, <1>5, <1>6, <1>7, <1>8, <1>9, <1>10, <1>11,
     <1>12, <1>13, <1>14, <1>15, <1>16, <1>17, <1>18, <1>19, <1>20, <1>21,
     <1>22, <1>23, <1>24 DEF Next, User, Boot, LoginAnswered, LogoutAnswered,
     ApiAnswered

\* A fresh page load satisfies the inductive invariant.
LEMMA SessionInvInit == Init => SessionInv
<1> SUFFICES ASSUME Init PROVE SessionInv
  OBVIOUS
<1>0. TypeOK
  BY TypeCorrectInit
<1>1. BootFirst /\ BusyWhilePending /\ PendingIsLoginNavigation
  BY DEF Init, BootFirst, BusyWhilePending, PendingIsLoginNavigation, NoPage,
         NoLoginCall, NoRetryCall
<1>2. ViewNeedsIdentity
  BY ConstantsAssumption DEF Init, ViewNeedsIdentity, NoPage, ConstantsAssumption
<1>3. SenderOfGeneration
  BY DEF Init, SenderOfGeneration, NoApiCall
<1> QED BY <1>0, <1>1, <1>2, <1>3 DEF SessionInv

-----------------------------------------------------------------------------
(* Safety *)

\* The inductive invariant holds in every reachable state: nothing happens before
\* the application has started, busy flags and the interceptor's flag follow what
\* they stand for, no view is left without an identity and without a navigation,
\* and requests of the present generation were sent as the present user.
THEOREM SessionInvariant == Spec => []SessionInv
<1>1. SessionInv /\ TypeOK' /\ [Next]_vars => SessionInv'
  BY SessionInvStep
<1> QED BY <1>1, SessionInvInit, TypeCorrect, PTL DEF Spec

\* A guarded view is left without an admitted identity only while a navigation
\* that takes it away is under way: interceptor, logout and guard leave no gap.
THEOREM ViewsNeedIdentity == Spec => []ViewNeedsIdentity
<1>1. SessionInv => ViewNeedsIdentity
  BY DEF SessionInv
<1> QED BY <1>1, SessionInvariant, PTL

\* The busy flags of the login form, the retry and the logout are up exactly
\* while their call is in flight and their component on screen.
THEOREM BusyFlagsTrackCalls == Spec => []BusyWhilePending
<1>1. SessionInv => BusyWhilePending
  BY DEF SessionInv
<1> QED BY <1>1, SessionInvariant, PTL

\* The flag that keeps one 401 after another from navigating twice never
\* outlives the navigation it stands for.
THEOREM PendingFlagIsFresh == Spec => []PendingIsLoginNavigation
<1>1. SessionInv => PendingIsLoginNavigation
  BY DEF SessionInv
<1> QED BY <1>1, SessionInvariant, PTL

\* An answer clears the user on screen only if its request was sent as that
\* user: among the actions only an answered data request can do both, and of
\* its outcomes only a 401 of the current generation, which SenderOfGeneration
\* ties to the present identity.
THEOREM StaleAnswersKeepSession == Spec => DropOnlyByOwnRequest
<1> DEFINE Dropped(s) ==
      /\ apiCall[s].inFlight /\ ~apiCall'[s].inFlight /\ booted'
      /\ identity.user # Null /\ identity'.user # identity.user
<1>1. ASSUME SessionInv, [Next]_vars
      PROVE  [\A s \in Slots : Dropped(s) => apiCall[s].sender = identity.user]_vars
  <2> SUFFICES ASSUME NEW s \in Slots, Next, Dropped(s)
               PROVE  apiCall[s].sender = identity.user
    BY <1>1
  <2>1. apiCall' # apiCall /\ identity' # identity /\ booted'
    OBVIOUS
  <2>2. PICK t \in Slots : ApiAnswered(t)
    BY <2>1 DEF Next, User, Boot, LoginAnswered, LogoutAnswered, serviceVars, callVars,
       OpenAddress, SubmitLogin, RetryIdentity, RetryPlain, Logout, Reload, SendApi,
       EnvConfigAnswered, BootWhoamiAnswered, Bootstrap, Settle, SessionExpires,
       LoginAccepted, LoginRefused, LoginIdentified, LoginUnidentified,
       RetryAnswered, LogoutAccepted, LogoutFailed
  <2>3. ApiUnauthorized(t)
    BY <2>1, <2>2 DEF ApiAnswered, ApiSucceeded, ApiUnauthorizedStale, ApiFailed, serviceVars
  <2>4. t = s
    BY <1>1, <2>3 DEF ApiUnauthorized, Answered, SessionInv, TypeOK
  <2> QED
    BY <1>1, <2>3, <2>4 DEF ApiUnauthorized, Answered, SessionInv, SenderOfGeneration
<1> QED
  BY <1>1, SessionInvariant, PTL DEF Spec, DropOnlyByOwnRequest

-----------------------------------------------------------------------------
(* The login page, on the event loop of the browser *)

\* The form has somebody to sign in and, with plain addresses, nobody is.
FormServes == identity.mode = "ldap" /\ (PlainAddresses => identity.user = Null)

\* A login page that is not being left has a form that serves.
LoginPageStays ==
  page.at = "login" /\ Guarded(nav).at \in {"none", "login"} => showLoginForm /\ FormServes

\* With plain addresses no "last" parameter spells the login page in another way.
PlainLasts == PlainAddresses => page.last # "otherLogin" /\ nav.last # "otherLogin"

\* Where no navigation is under way the guard has nothing to say.
LEMMA GuardsNothing == Guarded(NoPage).at = "none"
<1>1. "none" \notin Views
  BY ConstantsAssumption DEF ConstantsAssumption
<1> QED BY <1>1 DEF Guarded, NoPage

\* SafeLastRoute leads back to the login page only by another spelling of it.
LEMMA SafeLastRouteLeaves ==
  ASSUME NEW l \in Lasts, l # "otherLogin", NEW p \in PagesAt(SafeLastRoute(l))
  PROVE  p \in Page /\ p.at \notin {"none", "login"}
<1>1. SafeLastRoute(l) \in Lasts /\ SafeLastRoute(l) \notin {"login", "otherLogin"} /\ p \in Page
  BY SafeLastRouteTyped, PagesAtTyped, ConstantsAssumption DEF SafeLastRoute, ConstantsAssumption
<1>2. CASE SafeLastRoute(l) = "error"
  BY <1>1, <1>2 DEF PagesAt
<1>3. CASE SafeLastRoute(l) # "error"
  BY <1>1, <1>3, ConstantsAssumption DEF PagesAt, ViewPage, ConstantsAssumption
<1> QED BY <1>1, <1>2, <1>3

LEMMA LoginPageStep ==
  ASSUME ~NavigationInterleaves, SessionInv, SessionInv', PlainLasts, LoginPageStays, [Next]_vars
  PROVE  LoginPageStays'
<1> SUFFICES ASSUME page'.at = "login", Guarded(nav)'.at \in {"none", "login"}
             PROVE  showLoginForm' /\ FormServes'
  BY DEF LoginPageStays
<1>0. OffersLogin' => FormServes'
  BY DEF OffersLogin, FormServes
<1>1. identity' \in Identity /\ nav \in Page /\ nav' \in Page /\ identity \in Identity
      /\ page \in Page
  BY DEF SessionInv, TypeOK
<1>2. \A p \in Page : p.at \notin {"none", "login"} /\ nav' = p => OffersLogin'
  <2>1. ASSUME NEW p \in Page, p.at \notin {"none", "login"}, nav' = p, ~OffersLogin'
        PROVE  FALSE
    BY <1>1, <2>1, ConstantsAssumption
       DEF Guarded, ErrorPage, OffersLogin, Page, ConstantsAssumption
  <2> QED BY <2>1
<1>3. ASSUME UNCHANGED <<identity, page, showLoginForm>>, Ready
      PROVE  showLoginForm' /\ FormServes'
  <2>1. nav = NoPage /\ page.at = "login"
    BY <1>3 DEF Ready
  <2> QED BY <1>3, <2>1, GuardsNothing DEF LoginPageStays, FormServes
<1>4. ASSUME UNCHANGED <<identity, page, nav, showLoginForm>>
      PROVE  showLoginForm' /\ FormServes'
  BY <1>4 DEF LoginPageStays, Guarded, FormServes
<1>5. page.at = "login" /\ Ready => showLoginForm /\ FormServes
  BY GuardsNothing DEF Ready, LoginPageStays
<1>6. Dashboard \in Views /\ ViewPage(Dashboard) \in Page /\ ViewPage(Dashboard).at \notin {"none", "login"}
  BY PagesTyped, ConstantsAssumption DEF ViewPage, ConstantsAssumption
<1>7. CASE Settle
  <2>1. page' = Guarded(nav) /\ identity' = identity
    BY <1>7 DEF Settle, serviceVars
  <2>2. CASE page.at = "login"
    BY <1>7, <2>1, <2>2 DEF Settle, LoginPageStays, FormServes
  <2>3. CASE page.at # "login"
    <3>1. showLoginForm' = OffersLogin
          /\ (~OffersLogin => nav' = ViewPage(Dashboard))
      BY <1>7, <2>1, <2>3 DEF Settle, NavigateTo, NextFromLogin
    <3> QED BY <1>0, <1>2, <1>6, <2>1, <3>1 DEF OffersLogin
  <2> QED BY <2>2, <2>3
<1>8. CASE Boot
  <2>1. page.at = "login" => booted
    BY DEF SessionInv, BootFirst, NoPage
  <2>2. ~(BootWhoamiAnswered \/ Bootstrap)
    BY <2>1, <1>8 DEF BootWhoamiAnswered, Bootstrap, SessionInv, BootFirst, routerVars
  <2> QED BY <1>4, <1>8, <2>2 DEF Boot, EnvConfigAnswered, serviceVars, routerVars, screenVars
<1>9. CASE User
  BY <1>3, <1>9 DEF User, OpenAddress, SubmitLogin, RetryIdentity, RetryPlain, Logout, Reload,
     SendApi, serviceVars, routerVars, screenVars, NoPage
<1>10. CASE LoginAnswered
  <2>1. CASE LoginAccepted \/ LoginRefused
    BY <1>3, <2>1 DEF LoginAccepted, LoginRefused, serviceVars, routerVars, screenVars
  <2>2. CASE LoginUnidentified
    <3>1. ErrorPage(SafeLastRoute(page.last), TRUE) \in Page
      BY <1>1, PageFields, SafeLastRouteTyped, PagesTyped
    <3>2. nav' = ErrorPage(SafeLastRoute(page.last), TRUE) /\ identity' = EmptyIdentity
      BY <2>2 DEF LoginUnidentified, NavigateTo, ResetIdentity, SetIdentity
    <3> QED BY <1>0, <1>2, <3>1, <3>2 DEF ErrorPage, OffersLogin, EmptyIdentity, Null
  <2>3. CASE LoginIdentified
    <3>1. showLoginForm'
      BY <1>5, <2>3 DEF LoginIdentified
    <3>2. OffersLogin' \/ nav' = ViewPage(Dashboard)
            \/ (identity'.mode = "ldap" /\ \E p \in PagesAt(SafeLastRoute(page.last)) : nav' = p)
      BY <2>3 DEF LoginIdentified, SetIdentity, OffersLogin, NavigateTo
    <3>3. CASE OffersLogin' \/ nav' = ViewPage(Dashboard)
      BY <1>0, <1>2, <1>6, <3>1, <3>3
    <3>4. CASE identity'.mode = "ldap" /\ \E p \in PagesAt(SafeLastRoute(page.last)) : nav' = p
      <4>1. CASE PlainAddresses
        <5>1. page.last \in Lasts /\ page.last # "otherLogin"
          BY <1>1, <4>1, PageFields DEF PlainLasts
        <5> QED BY <1>0, <1>2, <3>1, <3>4, <5>1, SafeLastRouteLeaves
      <4>2. CASE ~PlainAddresses
        BY <3>1, <3>4, <4>2 DEF FormServes
      <4> QED BY <4>1, <4>2
    <3> QED BY <3>2, <3>3, <3>4
  <2> QED BY <1>10, <2>1, <2>2, <2>3 DEF LoginAnswered
<1>11. CASE RetryAnswered
  BY <1>11 DEF RetryAnswered, SessionInv, BusyWhilePending
<1>12. CASE LogoutAnswered
  <2>1. CASE LogoutAccepted
    BY <1>1, <1>5, <2>1 DEF LogoutAccepted, ClearUser, SetIdentity, FormServes, Identity
  <2>2. CASE LogoutFailed
    BY <1>3, <2>2 DEF LogoutFailed, serviceVars, routerVars
  <2> QED BY <1>12, <2>1, <2>2 DEF LogoutAnswered
<1>13. ASSUME NEW s \in Slots, ApiAnswered(s) PROVE showLoginForm' /\ FormServes'
  <2>1. Ready /\ UNCHANGED <<page, showLoginForm>>
    BY <1>13 DEF ApiAnswered, ApiSucceeded, ApiUnauthorizedStale, ApiUnauthorized, ApiFailed,
       Answered, screenVars
  <2>2. CASE ApiUnauthorized(s)
    BY <1>1, <1>5, <2>1, <2>2 DEF ApiUnauthorized, ClearUser, SetIdentity, FormServes, Identity
  <2>3. CASE identity' = identity
    BY <1>3, <2>1, <2>3
  <2> QED BY <1>13, <2>2, <2>3 DEF ApiAnswered, ApiSucceeded, ApiUnauthorizedStale, ApiFailed,
       serviceVars
<1>14. CASE SessionExpires \/ UNCHANGED vars
  BY <1>4, <1>14 DEF SessionExpires, vars, serviceVars, routerVars, screenVars
<1> QED BY <1>7, <1>8, <1>9, <1>10, <1>11, <1>12, <1>13, <1>14 DEF Next

\* Where no address spells the login page in another way, no page on screen or
\* about to be has such a "last": it names a view, comes with the address, or names
\* the page that is left.
LEMMA PlainLastsStep ==
  ASSUME SessionInv, PlainLasts, [Next]_vars
  PROVE  PlainLasts'
<1> SUFFICES ASSUME PlainAddresses PROVE page'.last # "otherLogin" /\ nav'.last # "otherLogin"
  BY DEF PlainLasts
<1> DEFINE Plain(p) == p.last # "otherLogin"
<1>1. /\ Plain(page) /\ Plain(nav) /\ page \in Page /\ nav \in Page
      /\ page.at \in Lasts /\ page.at # "otherLogin" /\ page.last \in Lasts
  BY PageFields, ConstantsAssumption DEF PlainLasts, SessionInv, TypeOK, Page, ConstantsAssumption
<1>2. /\ "otherLogin" \notin Views /\ Dashboard \in Views
      /\ LoginSpellings = {"login"} /\ \A p \in Addresses : Plain(p)
  BY ConstantsAssumption DEF ConstantsAssumption, PlainAddresses
<1>3. /\ Plain(NoPage) /\ \A v : Plain(ViewPage(v))
      /\ \A l : l # "otherLogin" => Plain(LoginPage(l))
      /\ \A l, c : l # "otherLogin" => Plain(ErrorPage(l, c))
  BY DEF NoPage, ViewPage, LoginPage, ErrorPage
<1>4. \A l \in Lasts : \A p \in PagesAt(l) : Plain(p)
  <2>1. ASSUME NEW l \in Lasts, NEW p \in PagesAt(l) PROVE Plain(p)
    <3>1. CASE l = "error"
      BY <1>2, <2>1, <3>1 DEF PagesAt
    <3>2. CASE l \in {"login", "otherLogin"}
      BY <1>2, <1>3, <2>1, <3>2 DEF PagesAt
    <3>3. CASE l \notin {"error", "login", "otherLogin"}
      BY <1>3, <2>1, <3>3 DEF PagesAt
    <3> QED BY <3>1, <3>2, <3>3
  <2> QED BY <2>1
<1>5. SafeLastRoute(page.last) \in Lasts /\ SafeLastRoute(page.last) # "otherLogin"
  BY <1>1, <1>2, SafeLastRouteTyped DEF SafeLastRoute
<1>6. Plain(Guarded(nav))
  BY <1>1, <1>2, <1>3 DEF Guarded
<1>7. Url \subseteq Lasts \ {"otherLogin"}
  BY <1>1, <1>2, UrlTyped DEF Url
<1> HIDE DEF Plain
<1>8. ASSUME NEW p, NavigateTo(p), Plain(p), page' = page \/ Plain(page')
      PROVE  Plain(page') /\ Plain(nav')
  BY <1>1, <1>8 DEF NavigateTo
<1>9. ASSUME UNCHANGED <<page, nav>> PROVE Plain(page') /\ Plain(nav')
  BY <1>1, <1>9
<1>10. CASE Settle
  <2>1. /\ page' = Guarded(nav)
        /\ NavigateTo(IF Guarded(nav).at = "login" /\ page.at # "login" THEN NextFromLogin ELSE NoPage)
    BY <1>10 DEF Settle
  <2> QED BY <1>2, <1>3, <1>6, <1>8, <2>1 DEF NextFromLogin, Plain
<1>11. CASE Boot
  BY <1>2, <1>8, <1>9, <1>11
     DEF Boot, EnvConfigAnswered, BootWhoamiAnswered, Bootstrap, routerVars, Plain
<1>12. CASE User
  BY <1>1, <1>2, <1>3, <1>4, <1>8, <1>9, <1>12
     DEF User, OpenAddress, SubmitLogin, RetryIdentity, RetryPlain, Logout, Reload,
         SendApi, routerVars, Plain
<1>13. CASE LoginAnswered
  <2>1. CASE LoginAccepted \/ LoginRefused
    BY <1>9, <2>1 DEF LoginAccepted, LoginRefused, routerVars, Plain
  <2>2. CASE LoginIdentified
    BY <1>1, <1>3, <1>4, <1>5, <1>8, <1>9, <2>2 DEF LoginIdentified, StayHere, Plain
  <2>3. CASE LoginUnidentified
    BY <1>1, <1>3, <1>5, <1>8, <2>3 DEF LoginUnidentified, Plain
  <2> QED BY <1>13, <2>1, <2>2, <2>3 DEF LoginAnswered
<1>14. CASE RetryAnswered
  BY <1>1, <1>3, <1>4, <1>8, <1>9, <1>14 DEF RetryAnswered, StayHere, Plain
<1>15. CASE LogoutAnswered
  BY <1>3, <1>8, <1>9, <1>15 DEF LogoutAnswered, LogoutAccepted, LogoutFailed, routerVars, Plain
<1>16. ASSUME NEW s \in Slots, ApiAnswered(s) PROVE Plain(page') /\ Plain(nav')
  <2>1. page' = page
    BY <1>16 DEF ApiAnswered, ApiSucceeded, ApiUnauthorizedStale, ApiUnauthorized, ApiFailed, Answered
  <2>2. CASE ApiFailed(s)
    <3>1. UNCHANGED nav \/ \E l \in Url : NavigateTo(ErrorPage(l, FALSE))
      BY <2>2 DEF ApiFailed, NavigateToError, StayHere
    <3> QED BY <1>3, <1>7, <1>8, <1>9, <2>1, <3>1
  <2>3. CASE ApiUnauthorized(s)
    <3>1. UNCHANGED nav \/ nav' = LoginPage(page.at)
      BY <2>3 DEF ApiUnauthorized, StayHere
    <3> QED BY <1>1, <1>3, <1>9, <2>1, <3>1
  <2>4. CASE ApiSucceeded(s) \/ ApiUnauthorizedStale(s)
    BY <1>9, <2>1, <2>4 DEF ApiSucceeded, ApiUnauthorizedStale, StayHere
  <2> QED BY <1>16, <2>2, <2>3, <2>4 DEF ApiAnswered
<1>17. CASE SessionExpires \/ UNCHANGED vars
  BY <1>9, <1>17 DEF SessionExpires, vars, routerVars, Plain
<1> QED BY <1>10, <1>11, <1>12, <1>13, <1>14, <1>15, <1>16, <1>17 DEF Next, Plain

\* Both invariants of the login page, for runs whose navigations settle first.
LEMMA LoginPageInvariant ==
  ASSUME ~NavigationInterleaves
  PROVE  Spec => [](PlainLasts /\ LoginPageStays)
<1>1. Init => PlainLasts /\ LoginPageStays
  BY DEF Init, LoginPageStays, PlainLasts, NoPage
<1>2. SessionInv /\ SessionInv' /\ PlainLasts /\ LoginPageStays /\ [Next]_vars
        => PlainLasts' /\ LoginPageStays'
  BY LoginPageStep, PlainLastsStep
<1> QED BY <1>1, <1>2, SessionInvariant, PTL DEF Spec

\* On the event loop of the browser, where no other callback runs before a
\* navigation has ended, a login page at rest has its form and the mode is ldap,
\* however its address and its "last" parameter are spelled (LoginComponent,
\* AuthGuard, ErrorViewComponent, the interceptor and the logout).
THEOREM LoginPageIsUsable ==
  ASSUME ~NavigationInterleaves
  PROVE  Spec => []LoginPageUsable
<1>1. LoginPageStays => LoginPageUsable
  BY GuardsNothing DEF LoginPageStays, FormServes, LoginPageUsable
<1> QED BY <1>1, LoginPageInvariant, PTL

\* There too, and where no address spells the login page in a way safeLastRoute
\* does not know, nobody is signed in behind a login page at rest.
THEOREM NobodyIsBehindLogin ==
  ASSUME ~NavigationInterleaves, PlainAddresses
  PROVE  Spec => []NobodyBehindLogin
<1>1. LoginPageStays => NobodyBehindLogin
  BY GuardsNothing DEF LoginPageStays, FormServes, NobodyBehindLogin
<1> QED BY <1>1, LoginPageInvariant, PTL

-----------------------------------------------------------------------------
(* What the mapping to Session takes beyond SessionInv *)

\* A navigation that is under way leads somewhere.
NavLeadsSomewhere == nav.at = "none" => nav = NoPage

\* The service knows the mode of its server or none, and nobody without a mode.
ModeOfServer ==
  /\ identity.mode \in {Null, ServerMode}
  /\ identity.mode = Null => identity.user = Null

\* Only an ldap user is offered the logout.
LogoutUnderLdap == logoutCall => ServerMode = "ldap"

\* Data requests are sent by views, so something has been on screen.
RequestsAfterStart == \A s \in Slots : apiCall[s].inFlight => page.at # "none"

\* What the mapping takes beyond SessionInv.
MappingInv ==
  /\ NavLeadsSomewhere
  /\ ModeOfServer
  /\ LogoutUnderLdap
  /\ RequestsAfterStart

-----------------------------------------------------------------------------
(* The invariant of the mapping *)

\* The pages the application builds itself lead somewhere.
LEMMA PagesLead ==
  /\ \A v \in Views : ViewPage(v).at # "none"
  /\ \A l : LoginPage(l).at # "none"
  /\ \A l, c : ErrorPage(l, c).at # "none"
  /\ \A l \in Lasts : \A p \in PagesAt(l) : p.at # "none"
<1> USE ConstantsAssumption DEF ConstantsAssumption
<1>1. \A v \in Views : ViewPage(v).at # "none"
  BY DEF ViewPage
<1>2. \A l : LoginPage(l).at # "none"
  BY DEF LoginPage
<1>3. \A l, c : ErrorPage(l, c).at # "none"
  BY DEF ErrorPage
<1>4. ASSUME NEW l \in Lasts, NEW p \in PagesAt(l) PROVE p.at # "none"
  <2>1. CASE l = "error"
    BY <1>4, <2>1 DEF PagesAt
  <2>2. CASE l \in {"login", "otherLogin"}
    BY <1>2, <1>4, <2>2 DEF PagesAt
  <2>3. CASE l \notin {"error", "login", "otherLogin"}
    <3>1. p = ViewPage(IF l \in Views THEN l ELSE Dashboard)
      BY <1>4, <2>3 DEF PagesAt
    <3> QED BY <1>1, <3>1
  <2> QED BY <2>1, <2>2, <2>3
<1> QED BY <1>1, <1>2, <1>3, <1>4

\* AuthGuard sends a navigation that leads somewhere somewhere.
LEMMA GuardLeads ==
  ASSUME nav \in Page, nav.at # "none"
  PROVE  Guarded(nav).at # "none"
BY PagesLead DEF Guarded

\* What AuthService keeps of a whoami answer names the mode of the server or none.
LEMMA NormalizedMode ==
  ASSUME NEW c \in Users \cup {Null}, NEW raw \in WhoamiReplies(c)
  PROVE  /\ Normalize(raw).mode \in {Null, ServerMode}
         /\ Normalize(raw).mode = Null => Normalize(raw).user = Null
BY ConstantsAssumption DEF WhoamiReplies, Normalize, ConstantsAssumption, AuthModes, Null

\* A fresh page load satisfies the invariant of the mapping.
LEMMA MappingInvInit == Init => MappingInv
BY DEF Init, MappingInv, NavLeadsSomewhere, ModeOfServer, LogoutUnderLdap,
       RequestsAfterStart, EmptyIdentity, NoApiCall

\* Every action preserves where a navigation leads.
LEMMA NavLeadsStep ==
  ASSUME SessionInv, NavLeadsSomewhere, [Next]_vars
  PROVE  NavLeadsSomewhere'
<1> USE PagesLead DEF NavLeadsSomewhere
<1>1. page.last \in Lasts /\ page.at \in Lasts
  BY PageFields DEF SessionInv, TypeOK
<1>2. CASE UNCHANGED nav
  BY <1>2
<1>3. ASSUME NEW p, NavigateTo(p), p = NoPage \/ p.at # "none" PROVE NavLeadsSomewhere'
  BY <1>3 DEF NavigateTo
<1>4. Dashboard \in Views /\ \A p \in Addresses : p.at # "none"
  BY ConstantsAssumption DEF ConstantsAssumption
<1>5. ASSUME Boot PROVE NavLeadsSomewhere'
  BY <1>2, <1>3, <1>4, <1>5 DEF Boot, EnvConfigAnswered, BootWhoamiAnswered, Bootstrap,
     routerVars
<1>6. ASSUME User PROVE NavLeadsSomewhere'
  <2>1. ASSUME NEW p \in Addresses, OpenAddress(p) PROVE NavLeadsSomewhere'
    BY <1>3, <1>4, <2>1 DEF OpenAddress
  <2>2. ASSUME NEW u \in Users, SubmitLogin(u) PROVE NavLeadsSomewhere'
    BY <1>2, <2>2 DEF SubmitLogin, routerVars
  <2>3. CASE RetryIdentity
    BY <1>2, <2>3 DEF RetryIdentity, routerVars
  <2>4. CASE RetryPlain
    BY <1>1, <1>3, <2>4 DEF RetryPlain
  <2>5. CASE Logout
    BY <1>2, <2>5 DEF Logout, routerVars
  <2>6. CASE Reload
    BY <1>3, <2>6 DEF Reload
  <2>7. ASSUME NEW s \in Slots, SendApi(s) PROVE NavLeadsSomewhere'
    BY <1>2, <2>7 DEF SendApi, routerVars
  <2> QED BY <1>6, <2>1, <2>2, <2>3, <2>4, <2>5, <2>6, <2>7 DEF User
<1>7. ASSUME Settle PROVE NavLeadsSomewhere'
  BY <1>3, <1>4, <1>7 DEF Settle, NextFromLogin
<1>8. ASSUME LoginAnswered PROVE NavLeadsSomewhere'
  <2>1. CASE LoginAccepted \/ LoginRefused
    BY <1>2, <2>1 DEF LoginAccepted, LoginRefused, routerVars
  <2>2. CASE LoginIdentified
    <3>1. SafeLastRoute(page.last) \in Lasts
      BY <1>1, SafeLastRouteTyped
    <3> QED BY <1>2, <1>3, <1>4, <2>2, <3>1 DEF LoginIdentified, StayHere
  <2>3. CASE LoginUnidentified
    BY <1>3, <2>3 DEF LoginUnidentified
  <2> QED BY <1>8, <2>1, <2>2, <2>3 DEF LoginAnswered
<1>9. ASSUME RetryAnswered PROVE NavLeadsSomewhere'
  BY <1>1, <1>2, <1>3, <1>9 DEF RetryAnswered, StayHere
<1>10. ASSUME LogoutAnswered PROVE NavLeadsSomewhere'
  BY <1>2, <1>3, <1>10 DEF LogoutAnswered, LogoutAccepted, LogoutFailed, routerVars
<1>11. ASSUME NEW s \in Slots, ApiAnswered(s) PROVE NavLeadsSomewhere'
  <2>1. CASE ApiSucceeded(s) \/ ApiUnauthorizedStale(s)
    BY <1>2, <2>1 DEF ApiSucceeded, ApiUnauthorizedStale, StayHere
  <2>2. CASE ApiUnauthorized(s)
    BY <1>2, <2>2 DEF ApiUnauthorized, StayHere
  <2>3. CASE ApiFailed(s)
    BY <1>2, <1>3, <2>3 DEF ApiFailed, NavigateToError, StayHere
  <2> QED BY <1>11, <2>1, <2>2, <2>3 DEF ApiAnswered
<1>12. CASE SessionExpires \/ UNCHANGED vars
  BY <1>2, <1>12 DEF SessionExpires, vars, routerVars
<1> QED BY <1>5, <1>6, <1>7, <1>8, <1>9, <1>10, <1>11, <1>12 DEF Next

\* Every action leaves the mode the one of the server, or none and nobody.
LEMMA ModeStep ==
  ASSUME SessionInv, ModeOfServer, [Next]_vars
  PROVE  ModeOfServer'
<1> USE DEF ModeOfServer
<1>1. CASE UNCHANGED identity
  BY <1>1
<1>2. CASE ResetIdentity \/ identity' = EmptyIdentity
  BY <1>2 DEF ResetIdentity, SetIdentity, EmptyIdentity
<1>3. CASE ClearUser
  BY <1>3 DEF ClearUser, SetIdentity, SessionInv, TypeOK, Identity
<1>4. ASSUME NEW c \in Users \cup {Null}, NEW raw \in WhoamiReplies(c),
             SetIdentity(Normalize(raw))
      PROVE  ModeOfServer'
  BY <1>4, NormalizedMode DEF SetIdentity
<1>5. loginCall.user \in Users \cup {Null} /\ retryCall.cookie \in Users \cup {Null}
        /\ cookie \in Users \cup {Null}
  BY DEF SessionInv, TypeOK, LoginCall, RetryCall
<1>6. CASE User
  BY <1>1, <1>2, <1>6 DEF User, OpenAddress, SubmitLogin, RetryIdentity, RetryPlain, Logout,
     Reload, SendApi, serviceVars
<1>7. CASE Boot
  BY <1>1, <1>2, <1>4, <1>5, <1>7 DEF Boot, EnvConfigAnswered, BootWhoamiAnswered, Bootstrap,
     serviceVars
<1>8. CASE LoginAnswered
  BY <1>1, <1>2, <1>4, <1>5, <1>8 DEF LoginAnswered, LoginAccepted, LoginRefused,
     LoginIdentified, LoginUnidentified, serviceVars
<1>9. CASE RetryAnswered
  BY <1>2, <1>4, <1>5, <1>9 DEF RetryAnswered
<1>10. CASE LogoutAnswered
  BY <1>1, <1>3, <1>10 DEF LogoutAnswered, LogoutAccepted, LogoutFailed, serviceVars
<1>11. ASSUME NEW s \in Slots, ApiAnswered(s) PROVE ModeOfServer'
  BY <1>1, <1>3, <1>11 DEF ApiAnswered, ApiSucceeded, ApiUnauthorizedStale, ApiUnauthorized,
     ApiFailed, serviceVars
<1>12. CASE Settle \/ SessionExpires \/ UNCHANGED vars
  BY <1>1, <1>12 DEF Settle, SessionExpires, vars, serviceVars
<1> QED BY <1>6, <1>7, <1>8, <1>9, <1>10, <1>11, <1>12 DEF Next

\* A logout leaves only under ldap, where alone a mode is that of an ldap user.
LEMMA LogoutStep ==
  ASSUME ModeOfServer, LogoutUnderLdap, [Next]_vars
  PROVE  LogoutUnderLdap'
<1> USE DEF LogoutUnderLdap
<1>1. CASE Logout
  BY <1>1 DEF Logout, ModeOfServer, Null
<1>2. ASSUME logoutCall' => logoutCall PROVE LogoutUnderLdap'
  BY <1>2
<1>3. ASSUME Next PROVE Logout \/ (logoutCall' => logoutCall)
  BY <1>3 DEF Next, User, Boot, LoginAnswered, LogoutAnswered, ApiAnswered, callVars,
     OpenAddress, SubmitLogin, RetryIdentity, RetryPlain, Reload, SendApi,
     EnvConfigAnswered, BootWhoamiAnswered, Bootstrap, Settle, SessionExpires,
     LoginAccepted, LoginRefused, LoginIdentified, LoginUnidentified, RetryAnswered,
     LogoutAccepted, LogoutFailed, ApiSucceeded, ApiUnauthorizedStale, ApiUnauthorized,
     ApiFailed, Answered
<1> QED BY <1>1, <1>2, <1>3 DEF vars, callVars

\* Nothing but a reload empties the screen, and a reload forgets the requests.
LEMMA RequestsStep ==
  ASSUME SessionInv, NavLeadsSomewhere, RequestsAfterStart, [Next]_vars
  PROVE  RequestsAfterStart'
<1> USE DEF RequestsAfterStart
<1>1. apiCall \in [Slots -> ApiCall] /\ nav \in Page
  BY DEF SessionInv, TypeOK
<1>2. CASE page' = page /\ apiCall' = apiCall
  BY <1>2
<1>3. CASE Settle
  BY <1>1, <1>3, GuardLeads DEF Settle, NavLeadsSomewhere
<1>4. CASE Reload
  BY <1>4 DEF Reload, NoApiCall
<1>5. ASSUME NEW s \in Slots, SendApi(s) PROVE RequestsAfterStart'
  BY <1>5, ConstantsAssumption DEF SendApi, routerVars, ConstantsAssumption
<1>6. ASSUME NEW s \in Slots, Answered(s) PROVE RequestsAfterStart'
  BY <1>1, <1>6 DEF Answered, NoApiCall
<1>7. CASE Boot \/ SessionExpires \/ UNCHANGED vars
  BY <1>2, <1>7 DEF Boot, EnvConfigAnswered, BootWhoamiAnswered, Bootstrap,
     SessionExpires, vars, routerVars, callVars
<1>8. CASE LoginAnswered \/ RetryAnswered \/ LogoutAnswered
  BY <1>2, <1>8 DEF LoginAnswered, LogoutAnswered, LoginAccepted, LoginRefused,
     LoginIdentified, LoginUnidentified, RetryAnswered, LogoutAccepted, LogoutFailed,
     routerVars
<1>9. CASE User
  BY <1>2, <1>4, <1>5, <1>9 DEF User, OpenAddress, SubmitLogin, RetryIdentity, RetryPlain,
     Logout, routerVars, callVars
<1>10. ASSUME NEW s \in Slots, ApiAnswered(s) PROVE Answered(s)
  BY <1>10 DEF ApiAnswered, ApiSucceeded, ApiUnauthorizedStale, ApiUnauthorized, ApiFailed
<1> QED BY <1>3, <1>6, <1>7, <1>8, <1>9, <1>10 DEF Next

\* The invariant of the mapping holds in every reachable state.
THEOREM MappingInvariant == Spec => []MappingInv
<1>1. SessionInv /\ MappingInv /\ [Next]_vars => MappingInv'
  BY NavLeadsStep, ModeStep, LogoutStep, RequestsStep DEF MappingInv
<1> QED BY <1>1, MappingInvInit, SessionInvariant, PTL DEF Spec

-----------------------------------------------------------------------------
(* The refinement *)

\* What is on screen and who is served are what the promise knows.
LEMMA MappedTyped ==
  ASSUME SessionInv
  PROVE  /\ who \in Users \cup {Nobody, Anonymous}
         /\ screen \in {"start", "view", "login", "error"}
BY ConstantsAssumption DEF SessionInv, TypeOK, Identity, Page, who, screen, ConstantsAssumption

\* Who is served depends on the identity alone, and a user is served as an
\* identity that names one.
LEMMA ServedUser ==
  ASSUME SessionInv, ModeOfServer
  PROVE  /\ identity.user # Null => who = identity.user /\ who \in Users
         /\ identity.user = Null => who \notin Users
         /\ who = Nobody <=> ~Admitted(identity)
BY PrincipalsAssumption, ConstantsAssumption
   DEF SessionInv, TypeOK, Identity, ModeOfServer, who, Admitted, Nobody, Anonymous, Null,
       PrincipalsAssumption, ConstantsAssumption

\* A navigation that leads somewhere is one under way.
LEMMA LeadsIsLeaving == \A p : p.at # "none" => p # NoPage
BY DEF NoPage

\* The interceptor, the pages and the links only ever start navigations.
LEMMA NavigationStarts ==
  ASSUME SessionInv
  PROVE  /\ \A p : NavigateTo(p) /\ p.at # "none" => leaving'
         /\ StayHere => leaving' = leaving
         /\ NavigateToError /\ page.at # "none" => leaving' \in {leaving, TRUE}
BY LeadsIsLeaving, PagesLead DEF NavigateTo, StayHere, NavigateToError, leaving

\* A fresh page load is a fresh session.
LEMMA InitMaps == Init => S!Init
BY DEF Init, S!Init, who, screen, leaving, asked, Admitted, EmptyIdentity, NoPage,
       NoApiCall, Null

\* An identity with the requests, the page and the logout left alone.
LEMMA OnlyNavigation ==
  ASSUME UNCHANGED <<identity, page, apiCall>>
  PROVE  UNCHANGED <<who, screen, asked>>
BY DEF who, screen, asked, Admitted

\* A guarded navigation comes to its end.
LEMMA SettleOpens ==
  ASSUME SessionInv, MappingInv, Settle
  PROVE  S!Open
<1> DEFINE p == Guarded(nav)
           opensLogin == p.at = "login" /\ page.at # "login"
<1>1. page' = p /\ nav' = IF opensLogin /\ ~OffersLogin THEN ViewPage(Dashboard) ELSE NoPage
  BY DEF Settle, NavigateTo, NextFromLogin
<1>2. nav \in Page /\ identity \in Identity /\ nav.at # "none" /\ leaving
  BY DEF Settle, SessionInv, TypeOK, MappingInv, NavLeadsSomewhere, leaving
<1>3. p \in Page /\ p.at # "none"
  BY <1>2, GuardedTyped, GuardLeads
<1>4. UNCHANGED <<identity, apiCall, logoutCall>>
  BY DEF Settle, serviceVars
<1>5. UNCHANGED <<who, asked>>
  BY <1>4 DEF who, asked, Admitted
<1>6. screen' \in {"view", "login", "error"}
  BY <1>1, <1>3 DEF screen, Page
<1>7. screen' = "view" => who # Nobody
  <2> SUFFICES ASSUME screen' = "view" PROVE who # Nobody
    OBVIOUS
  <2>1. p.at \in Views
    BY <1>1, <1>3 DEF screen, Page
  <2> QED BY <1>2, <2>1, GuardAdmits, ServedUser DEF MappingInv
<1>8. leaving' \in BOOLEAN /\ (leaving' => screen' = "login" /\ screen # "login")
  <2> SUFFICES ASSUME leaving' PROVE screen' = "login" /\ screen # "login"
    BY DEF leaving
  <2>1. p.at = "login" /\ page.at # "login"
    BY <1>1 DEF leaving
  <2> QED BY <1>1, <2>1, ConstantsAssumption DEF screen, ConstantsAssumption
<1> QED BY <1>2, <1>4, <1>5, <1>6, <1>7, <1>8 DEF S!Open, S!Screens

\* The server said who it is: a whoami was answered or failed, off the views.
LEMMA AnswerIdentifies ==
  ASSUME SessionInv, SessionInv', UNCHANGED <<page, apiCall, logoutCall>>,
         page.at \notin Views, leaving' \in {leaving, TRUE},
         page.at = "none" => leaving' = leaving
  PROVE  S!Identify
<1>1. screen # "view" /\ (screen = "start" => leaving' = leaving)
  BY ConstantsAssumption DEF screen, SessionInv, TypeOK, Page, ConstantsAssumption
<1>2. who' \in Users \cup {Nobody, Anonymous}
  BY DEF SessionInv, TypeOK, Identity, who
<1>3. UNCHANGED <<screen, asked>>
  BY DEF screen, asked
<1> QED BY <1>1, <1>2, <1>3 DEF S!Identify, S!Principals

\* The first request of a user, or one more, or one of nobody.
LEMMA SendAsks ==
  ASSUME SessionInv, MappingInv, NEW s \in Slots, SendApi(s)
  PROVE  S!Ask \/ UNCHANGED S!vars
<1>1. UNCHANGED <<identity, page, nav, logoutCall>> /\ page.at \in Views
  BY DEF SendApi, serviceVars, routerVars
<1>2. UNCHANGED <<who, screen, leaving>> /\ screen = "view"
  BY <1>1, ConstantsAssumption DEF who, screen, leaving, Admitted, ConstantsAssumption
<1>3. asked' = (asked \cup {identity.user}) \ {Null}
  <2>1. apiCall \in [Slots -> ApiCall] /\ ~apiCall[s].inFlight
    BY DEF SendApi, SessionInv, TypeOK
  <2>2. \A t \in Slots : t # s => apiCall'[t] = apiCall[t]
    BY <2>1 DEF SendApi
  <2>3. apiCall'[s].inFlight /\ apiCall'[s].sender = identity.user
    BY <2>1 DEF SendApi
  <2> QED BY <2>1, <2>2, <2>3 DEF asked
<1>4. CASE identity.user = Null
  <2>1. asked' = asked
    BY <1>3, <1>4 DEF asked
  <2> QED BY <1>1, <1>2, <2>1 DEF S!vars
<1>5. CASE identity.user # Null
  <2>1. who = identity.user /\ who \in Users
    BY <1>5, ServedUser DEF MappingInv
  <2>2. asked' = asked \cup {who}
    BY <1>3, <1>5, <2>1 DEF asked
  <2> QED BY <1>1, <1>2, <2>1, <2>2 DEF S!Ask
<1> QED BY <1>4, <1>5

\* Every answer ends one request, of a view or of one that was left.
LEMMA AnswerHeard ==
  ASSUME SessionInv, MappingInv, NEW s \in Slots, Answered(s)
  PROVE  /\ UNCHANGED <<screen, logoutCall>>
         /\ asked' \subseteq asked
         /\ page.at # "none" /\ screen # "start"
<1>1. apiCall \in [Slots -> ApiCall] /\ apiCall[s].inFlight /\ page' = page
        /\ logoutCall' = logoutCall
  BY DEF Answered, SessionInv, TypeOK
<1>2. apiCall' = [apiCall EXCEPT ![s] = NoApiCall]
  BY DEF Answered
<1>3. \A t \in Slots : apiCall'[t].inFlight => t # s /\ apiCall'[t] = apiCall[t]
  BY <1>1, <1>2 DEF NoApiCall
<1>4. asked' \subseteq asked
  BY <1>3 DEF asked
<1>5. page.at # "none"
  BY <1>1 DEF MappingInv, RequestsAfterStart
<1>6. screen # "start" /\ screen' = screen
  BY <1>1, <1>5, MappedTyped DEF screen, SessionInv, TypeOK, Page
<1> QED BY <1>1, <1>4, <1>5, <1>6

\* A 401 of the present generation: it ends the session of the user who asked.
LEMMA UnauthorizedLoses ==
  ASSUME SessionInv, MappingInv, NEW s \in Slots, ApiUnauthorized(s)
  PROVE  S!Lose \/ S!Hear
<1>1. Answered(s) /\ identity.mode = "ldap" /\ apiCall[s].inFlight
  BY DEF ApiUnauthorized, Answered
<1>2. UNCHANGED <<screen, logoutCall>> /\ asked' \subseteq asked /\ page.at # "none"
        /\ screen # "start"
  BY <1>1, AnswerHeard
<1>3. identity' = [identity EXCEPT !.user = Null] /\ identity \in Identity
  BY DEF ApiUnauthorized, ClearUser, SetIdentity, SessionInv, TypeOK
<1>4. who' = Nobody
  BY <1>1, <1>3 DEF who, Admitted, Identity
<1>5. leaving' \in {leaving, TRUE}
  <2>1. CASE StayHere
    BY <2>1 DEF StayHere, leaving
  <2>2. CASE nav' = LoginPage(page.at)
    BY <2>2 DEF LoginPage, NoPage, leaving
  <2> QED BY <2>1, <2>2 DEF ApiUnauthorized
<1>6. screen = "view" => leaving'
  <2> SUFFICES ASSUME screen = "view" PROVE leaving'
    OBVIOUS
  <2>1. page.at # "login"
    BY ConstantsAssumption DEF screen, ConstantsAssumption
  <2>2. CASE ldapLoginNavigationPending
    <3>1. nav.at = "login" /\ nav' = nav
      BY <2>2 DEF SessionInv, PendingIsLoginNavigation, ApiUnauthorized, StayHere
    <3> QED BY <3>1 DEF leaving, NoPage
  <2>3. CASE ~ldapLoginNavigationPending
    BY <2>1, <2>3 DEF ApiUnauthorized, LoginPage, NoPage, leaving
  <2> QED BY <2>2, <2>3
<1>7. CASE identity.user = Null
  <2>1. who = Nobody
    BY <1>1, <1>7 DEF who, Admitted
  <2> QED BY <1>2, <1>4, <1>5, <2>1 DEF S!Hear
<1>8. CASE identity.user # Null
  <2>1. who = identity.user
    BY <1>8, ServedUser DEF MappingInv
  <2>2. apiCall[s].sender = identity.user
    BY <1>1 DEF ApiUnauthorized, SessionInv, SenderOfGeneration
  <2>3. who \in asked
    BY <1>1, <1>8, <2>1, <2>2 DEF asked
  <2> QED BY <1>2, <1>4, <1>5, <1>6, <2>3 DEF S!Lose
<1> QED BY <1>7, <1>8

\* Every step of the session is one the promise allows, or changes nothing it
\* speaks of.
LEMMA StepMaps ==
  ASSUME SessionInv, SessionInv', MappingInv, MappingInv', [Next]_vars
  PROVE  [S!Next]_(S!vars)
<1> USE DEF S!Next
<1>0. /\ Dashboard \in Views /\ ViewPage(Dashboard).at # "none"
      /\ \A l : LoginPage(l).at # "none" /\ \A c : ErrorPage(l, c).at # "none"
  BY PagesLead, ConstantsAssumption DEF ConstantsAssumption
<1>1. ASSUME UNCHANGED <<identity, page, nav, apiCall, logoutCall>> PROVE UNCHANGED S!vars
  BY <1>1 DEF S!vars, who, screen, leaving, asked, Admitted
<1>2. ASSUME UNCHANGED <<identity, page, apiCall, logoutCall>>, leaving' PROVE S!SetOff
  BY <1>2, OnlyNavigation DEF S!SetOff
<1>3. ASSUME NEW p \in Addresses PROVE p.at # "none"
  BY ConstantsAssumption DEF ConstantsAssumption
<1>4. \A l \in Lasts : \A p \in PagesAt(l) : p.at # "none"
  BY PagesLead
<1>5. page.last \in Lasts /\ SafeLastRoute(page.last) \in Lasts
  BY PageFields, SafeLastRouteTyped DEF SessionInv, TypeOK
<1>6. CASE User
  <2>1. ASSUME NEW p \in Addresses, OpenAddress(p) PROVE S!SetOff
    BY <1>2, <1>3, <2>1, NavigationStarts DEF OpenAddress, serviceVars, callVars
  <2>2. ASSUME NEW u \in Users, SubmitLogin(u) PROVE UNCHANGED S!vars
    BY <1>1, <2>2 DEF SubmitLogin, serviceVars, routerVars
  <2>3. CASE RetryIdentity
    BY <1>1, <2>3 DEF RetryIdentity, serviceVars, routerVars
  <2>4. CASE RetryPlain
    BY <1>2, <1>4, <1>5, <2>4, NavigationStarts DEF RetryPlain, serviceVars, callVars
  <2>5. ASSUME Logout PROVE S!AskSignOut
    <3>1. UNCHANGED <<identity, page, nav, apiCall>> /\ logoutCall' = TRUE
      BY <2>5 DEF Logout, serviceVars, routerVars
    <3>2. UNCHANGED <<who, screen, leaving, asked>>
      BY <3>1, OnlyNavigation DEF leaving
    <3>3. who \in Users
      BY <2>5, ServedUser DEF Logout, MappingInv
    <3>4. screen \in {"view", "error"}
      BY <2>5 DEF Logout, SessionInv, TypeOK, Page, screen
    <3>5. ~logoutCall
      BY <2>5 DEF Logout, SessionInv, BusyWhilePending
    <3> QED BY <3>1, <3>2, <3>3, <3>4, <3>5 DEF S!AskSignOut
  <2>6. ASSUME Reload PROVE S!Restart
    BY <2>6 DEF Reload, S!Restart, NavigateTo, who, screen, leaving, asked, Admitted,
       EmptyIdentity, NoPage, NoApiCall
  <2>7. ASSUME NEW s \in Slots, SendApi(s) PROVE S!Ask \/ UNCHANGED S!vars
    BY <2>7, SendAsks
  <2> QED BY <1>6, <2>1, <2>2, <2>3, <2>4, <2>5, <2>6, <2>7 DEF User
<1>7. CASE Boot
  <2>1. CASE EnvConfigAnswered
    BY <1>1, <2>1 DEF EnvConfigAnswered, serviceVars, routerVars, callVars
  <2>2. CASE BootWhoamiAnswered
    <3>1. page.at = "none" /\ UNCHANGED <<page, nav, apiCall, logoutCall>>
      BY <2>2 DEF BootWhoamiAnswered, SessionInv, BootFirst, NoPage, routerVars, callVars
    <3>2. page.at \notin Views /\ leaving' = leaving
      BY <3>1, ConstantsAssumption DEF ConstantsAssumption, leaving
    <3> QED BY <3>1, <3>2, AnswerIdentifies
  <2>3. CASE Bootstrap
    BY <1>2, <1>3, <2>3, NavigationStarts DEF Bootstrap, serviceVars, callVars
  <2> QED BY <1>7, <2>1, <2>2, <2>3 DEF Boot
<1>8. CASE Settle
  BY <1>8, SettleOpens
<1>9. CASE LoginAnswered
  <2>1. CASE LoginAccepted \/ LoginRefused
    BY <1>1, <2>1 DEF LoginAccepted, LoginRefused, serviceVars, routerVars
  <2>2. CASE LoginIdentified \/ LoginUnidentified
    <3>1. UNCHANGED <<page, apiCall, logoutCall>>
      BY <2>2 DEF LoginIdentified, LoginUnidentified
    <3>2. page.at = "login" /\ page.at \notin Views
      BY <2>2, ConstantsAssumption
         DEF LoginIdentified, LoginUnidentified, SessionInv, BusyWhilePending,
             ConstantsAssumption
    <3>3. leaving' \in {leaving, TRUE}
      <4>1. CASE StayHere
        BY <4>1, NavigationStarts
      <4>2. CASE \E p : NavigateTo(p) /\ p.at # "none"
        BY <4>2, NavigationStarts DEF leaving
      <4> QED BY <1>0, <1>4, <1>5, <2>2, <4>1, <4>2 DEF LoginIdentified, LoginUnidentified
    <3> QED BY <3>1, <3>2, <3>3, AnswerIdentifies
  <2> QED BY <1>9, <2>1, <2>2 DEF LoginAnswered
<1>10. CASE RetryAnswered
  <2>1. UNCHANGED <<page, apiCall, logoutCall>>
    BY <1>10 DEF RetryAnswered
  <2>2. page.at = "error" /\ page.at \notin Views
    BY <1>10, ConstantsAssumption
       DEF RetryAnswered, SessionInv, BusyWhilePending, ConstantsAssumption
  <2>3. leaving' \in {leaving, TRUE}
    <3>1. CASE StayHere
      BY <3>1, NavigationStarts
    <3>2. CASE \E p : NavigateTo(p) /\ p.at # "none"
      BY <3>2, NavigationStarts DEF leaving
    <3> QED BY <1>0, <1>4, <1>5, <1>10, <3>1, <3>2 DEF RetryAnswered
  <2> QED BY <2>1, <2>2, <2>3, AnswerIdentifies
<1>11. CASE LogoutAnswered
  <2>1. ASSUME LogoutAccepted PROVE S!SignOut
    <3>1. UNCHANGED <<page, apiCall>> /\ logoutCall /\ ~logoutCall'
            /\ identity' = [identity EXCEPT !.user = Null] /\ identity \in Identity
      BY <2>1 DEF LogoutAccepted, ClearUser, SetIdentity, SessionInv, TypeOK
    <3>2. leaving' = TRUE
      BY <1>0, <2>1, NavigationStarts DEF LogoutAccepted, leaving
    <3>3. identity.mode \in {Null, "ldap"}
      BY <3>1 DEF MappingInv, ModeOfServer, LogoutUnderLdap
    <3>4. who' = Nobody
      BY <3>1, <3>3 DEF who, Admitted, Identity
    <3>5. UNCHANGED <<screen, asked>>
      BY <3>1 DEF screen, asked
    <3> QED BY <3>1, <3>2, <3>4, <3>5 DEF S!SignOut
  <2>2. ASSUME LogoutFailed PROVE S!SignOutFails
    <3>1. UNCHANGED <<identity, page, nav, apiCall>> /\ logoutCall /\ ~logoutCall'
      BY <2>2 DEF LogoutFailed, serviceVars, routerVars
    <3> QED BY <3>1, OnlyNavigation DEF S!SignOutFails, leaving
  <2> QED BY <1>11, <2>1, <2>2 DEF LogoutAnswered
<1>12. ASSUME NEW s \in Slots, ApiAnswered(s) PROVE S!Hear \/ S!Lose
  <2>1. ASSUME Answered(s), identity' = identity, leaving' \in {leaving, TRUE} PROVE S!Hear
    BY <2>1, AnswerHeard DEF S!Hear, who, Admitted
  <2>2. CASE ApiSucceeded(s) \/ ApiUnauthorizedStale(s)
    BY <2>1, <2>2, NavigationStarts DEF ApiSucceeded, ApiUnauthorizedStale, serviceVars
  <2>3. CASE ApiUnauthorized(s)
    BY <2>3, UnauthorizedLoses
  <2>4. CASE ApiFailed(s)
    <3>1. Answered(s) /\ NavigateToError /\ identity' = identity
      BY <2>4 DEF ApiFailed, serviceVars
    <3> QED BY <2>1, <3>1, AnswerHeard, NavigationStarts
  <2> QED BY <1>12, <2>2, <2>3, <2>4 DEF ApiAnswered
<1>13. CASE SessionExpires \/ UNCHANGED vars
  BY <1>1, <1>13 DEF SessionExpires, vars, serviceVars, routerVars, callVars
<1> QED
  BY <1>6, <1>7, <1>8, <1>9, <1>10, <1>11, <1>12, <1>13 DEF Next

\* AuthSession does only what Session allows, for any accounts, views, slots and
\* auth mode: nobody new under an open view, no view for nobody, no sign-out by
\* the answer to somebody else's request.
THEOREM SessionImplemented == Spec => S!Spec
<1>1. SessionInv /\ SessionInv' /\ MappingInv /\ MappingInv' /\ [Next]_vars
        => [S!Next]_(S!vars)
  BY StepMaps
<1> QED BY <1>1, InitMaps, SessionInvariant, MappingInvariant, PTL DEF Spec, S!Spec
=============================================================================
