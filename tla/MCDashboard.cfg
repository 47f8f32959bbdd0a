\* A dashboard opened, left and opened again while the layout changes.
\* Visits and changes of the layout are bounded, so the browser comes to a stop.
CHECK_DEADLOCK FALSE
CONSTANTS
  MaxVisits = 2
  MaxLayouts = 2
SPECIFICATION FairSpec
INVARIANTS EventsInv SettledStatusTilesAreCurrent
PROPERTIES ToggleIsFollowed
