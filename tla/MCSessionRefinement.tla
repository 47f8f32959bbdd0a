------------------------ MODULE MCSessionRefinement ------------------------
(* AuthSession and the promise it keeps, with two accounts. *)
EXTENDS SessionRefinement

CONSTANTS dashboard, applications

MCViews == {dashboard, applications}

\* A deep link, the login page with no way back, with a foreign one and with
\* itself in both spellings, and both kinds of error page.
MCAddresses ==
  {ViewPage(applications), LoginPage("none"), LoginPage("foreign"), LoginPage("login"),
   LoginPage("otherLogin"),
   ErrorPage(applications, FALSE), ErrorPage("none", TRUE)}
=============================================================================
