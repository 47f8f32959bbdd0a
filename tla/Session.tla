------------------------------- MODULE Session -------------------------------
(***************************************************************************)
(* What the application promises about a session, whatever the calls it is *)
(* made of: who it serves, what is on screen, and what may change either.  *)
(* AuthSession implements it (SessionRefinement).                          *)
(*                                                                         *)
(* Nobody new is ever served under an open view; a view opens only for     *)
(* somebody; who is served loses the session by a sign-out or by the       *)
(* answer to a request of their own, and then the view is on its way out.  *)
(***************************************************************************)
CONSTANTS Users, Nobody, Anonymous

VARIABLES
  who,        \* whom the application serves
  screen,     \* what is on screen
  leaving,    \* a navigation is under way
  asked,      \* accounts with a data request in flight
  signingOut  \* a sign-out is in flight

vars == <<who, screen, leaving, asked, signingOut>>

Principals == Users \cup {Nobody, Anonymous}
Screens == {"start", "view", "login", "error"}

Init ==
  /\ who = Nobody /\ screen = "start" /\ ~leaving
  /\ asked = {} /\ ~signingOut

\* A navigation ends. A view opens only for somebody.
Open ==
  /\ leaving
  /\ screen' \in Screens \ {"start"}
  /\ screen' = "view" => who # Nobody
  /\ leaving' \in BOOLEAN /\ (leaving' => screen' = "login" /\ screen # "login")
  /\ UNCHANGED <<who, asked, signingOut>>

SetOff ==
  /\ leaving' = TRUE
  /\ UNCHANGED <<who, screen, asked, signingOut>>

\* The server says who it is: never while a view is open.
Identify ==
  /\ screen # "view"
  /\ who' \in Principals
  /\ leaving' \in {leaving, TRUE} /\ (screen = "start" => leaving' = leaving)
  /\ UNCHANGED <<screen, asked, signingOut>>

\* The first request of an account that has none in flight.
Ask ==
  /\ screen = "view" /\ who \in Users
  /\ asked' = asked \cup {who}
  /\ UNCHANGED <<who, screen, leaving, signingOut>>

\* An answer, which may send the user elsewhere.
Hear ==
  /\ asked' \subseteq asked
  /\ leaving' \in {leaving, TRUE} /\ screen # "start"
  /\ UNCHANGED <<who, screen, signingOut>>

\* An answer that ends the session of the user who asked. A view does not stay.
Lose ==
  /\ who \in asked
  /\ who' = Nobody
  /\ asked' \subseteq asked
  /\ leaving' \in {leaving, TRUE} /\ (screen = "view" => leaving')
  /\ UNCHANGED <<screen, signingOut>>

AskSignOut ==
  /\ who \in Users /\ screen \in {"view", "error"}
  /\ ~signingOut /\ signingOut' = TRUE
  /\ UNCHANGED <<who, screen, leaving, asked>>

SignOut ==
  /\ signingOut /\ ~signingOut'
  /\ who' = Nobody
  /\ leaving' = TRUE
  /\ UNCHANGED <<screen, asked>>

SignOutFails ==
  /\ signingOut /\ ~signingOut'
  /\ UNCHANGED <<who, screen, leaving, asked>>

\* The page is reloaded.
Restart ==
  /\ who' = Nobody /\ screen' = "start" /\ ~leaving'
  /\ asked' = {} /\ ~signingOut'

Next ==
  \/ Open \/ SetOff \/ Identify \/ Ask \/ Hear \/ Lose
  \/ AskSignOut \/ SignOut \/ SignOutFails \/ Restart

Spec == Init /\ [][Next]_vars

\* A navigation ends.
FairSpec == Spec /\ WF_vars(Open)
=============================================================================
