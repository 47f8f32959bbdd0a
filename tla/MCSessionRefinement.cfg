\* The event loop of the browser: a navigation runs to its end before any other
\* callback. Two accounts take turns in one browser.
CONSTANTS
  dashboard = dashboard
  applications = applications
  Views <- MCViews
  Dashboard = dashboard
  Users = {u1, u2}
  Slots = {s1}
  ServerMode = "ldap"
  Addresses <- MCAddresses
  LoginSpellings = {"login", "otherLogin"}
  NavigationInterleaves = FALSE
  MaxGeneration = 5
SPECIFICATION FairSpec
INVARIANTS LoginPageUsable
PROPERTIES BusyEnds ConfigThenBoots ImplementsSession
