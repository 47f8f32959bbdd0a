--------------------------- MODULE MCAuthSession ---------------------------
(* AuthSession on a small instance: two guarded routes, one or two accounts. *)
EXTENDS AuthSession, TLC

CONSTANTS dashboard, applications

MCViews == {dashboard, applications}

\* A deep link, the login page with no way back, with a foreign one and with
\* itself in both spellings, and both kinds of error page.
MCAddresses ==
  {ViewPage(applications), LoginPage("none"), LoginPage("foreign"), LoginPage("login"),
   LoginPage("otherLogin"),
   ErrorPage(applications, FALSE), ErrorPage("none", TRUE)}

\* Requests in flight are interchangeable.
SlotSymmetry == Permutations(Slots)
=============================================================================
