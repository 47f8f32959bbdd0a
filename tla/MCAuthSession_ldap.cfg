\* Navigations interleave with every other callback.
CONSTANTS
  dashboard = dashboard
  applications = applications
  Views <- MCViews
  Dashboard = dashboard
  Users = {u1}
  Slots = {s1, s2}
  ServerMode = "ldap"
  Addresses <- MCAddresses
  LoginSpellings = {"login", "otherLogin"}
  NavigationInterleaves = TRUE
  MaxGeneration = 5
SPECIFICATION Spec
SYMMETRY SlotSymmetry
INVARIANTS TypeOK ViewNeedsIdentity BusyWhilePending PendingIsLoginNavigation
PROPERTIES DropOnlyByOwnRequest
