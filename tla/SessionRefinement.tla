-------------------------- MODULE SessionRefinement --------------------------
(* AuthSession implements Session: its state read as that of the promise.  *)
EXTENDS AuthSession

Nobody == "nobody"
Anonymous == "anonymous"

ASSUME PrincipalsAssumption == {Nobody, Anonymous} \cap Users = {}

\* An identity AuthGuard would not admit serves nobody.
who ==
  IF ~Admitted(identity) THEN Nobody
  ELSE IF identity.user = Null THEN Anonymous
  ELSE identity.user

screen ==
  IF page.at = "none" THEN "start"
  ELSE IF page.at \in Views THEN "view"
  ELSE page.at

leaving == nav # NoPage

asked == {apiCall[s].sender : s \in {t \in Slots : apiCall[t].inFlight}} \ {Null}

S == INSTANCE Session WITH signingOut <- logoutCall

\* Whatever the order of calls, clicks and navigations, the session does only
\* what Session allows: nobody new under an open view, no view for nobody, no
\* sign-out by the answer to somebody else's request, and a navigation under
\* way, for which alone a view waits, comes to its end (AuthService,
\* ApiErrorInterceptor, AuthGuard and the pages that sign in and retry).
ImplementsSession == S!FairSpec
=============================================================================
