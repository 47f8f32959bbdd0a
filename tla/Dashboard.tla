------------------------------ MODULE Dashboard ------------------------------
(***************************************************************************)
(* The dashboard: its requests, its four tiles and the chart of the node   *)
(* utilizations, opened and left again and again (DashboardComponent,      *)
(* DonutChartComponent, AreaChartComponent, VerticalBarChartComponent),    *)
(* the event bus, and the two timers of AppComponent that publish on it.   *)
(*                                                                         *)
(* What a chart shows is abstracted to whether it has data and to the      *)
(* layout of the page it was drawn in.                                     *)
(***************************************************************************)
EXTENDS Naturals

CONSTANTS
  MaxVisits,  \* bound: dashboards opened
  MaxLayouts  \* bound: changes of the layout

ASSUME BoundsAssumption == {MaxVisits, MaxLayouts} \subseteq Nat \ {0}

StatusTiles == {"appStatus", "containerStatus"}
HistoryTiles == {"appHistory", "containerHistory"}
Tiles == StatusTiles \cup HistoryTiles
Charts == Tiles \cup {"utilizations"}
Visits == 1..MaxVisits
NoVisit == 0

VARIABLES
  visit,           \* the dashboard on screen
  created,         \* dashboards created so far
  calls,           \* the requests of a dashboard in flight
  firstPartition,  \* partitionList[0]: "none", "idle" without applications, or "busy"
  history,         \* the tiles whose initial...History has entries
  chart,           \* the charts on screen: has data, and the layout it was drawn in
  layout,          \* the layout of the page, by number
  toggles,         \* timers of toggleNavigation
  resizing,        \* the debounce of the window's resize
  eventRegistry

dashboardVars == <<visit, created, calls, firstPartition, history>>
layoutVars == <<layout, toggles, resizing>>
vars == <<dashboardVars, chart, layoutVars, eventRegistry>>

Requests == {"partitions"} \cup HistoryTiles
Layout == "LAYOUT_CHANGED_EVENT"
Resized == "WINDOW_RESIZED_EVENT"

FreshCharts(now) == [c \in Charts |-> [data |-> FALSE, drawnAt |-> now]]
ChartsOf(v) == {<<v, c>> : c \in Charts}
EventBus == INSTANCE EventBus
  WITH Events <- {Layout, Resized}, Subscribers <- Visits \X (Charts \cup {"dashboard"})

-----------------------------------------------------------------------------
(* Drawing *)

\* Data the dashboard has for a tile. A container status is a figure, maybe 0.
HasData(v, c) ==
  \/ c = "appStatus" /\ firstPartition[v] = "busy"
  \/ c = "containerStatus" /\ firstPartition[v] # "none"
  \/ c \in HistoryTiles /\ c \in history[v]

\* The inputs of the tiles "cs" of visit v are assigned: ngOnChanges of those on
\* screen neither keeps nor draws an empty list.
Draw(v, cs) ==
  chart' = [c \in Charts |->
              IF visit = v /\ c \in cs /\ HasData(v, c)'
              THEN [data |-> TRUE, drawnAt |-> layout] ELSE chart[c]]

-----------------------------------------------------------------------------
(* Opening and leaving *)

\* The dashboard and its charts are created and draw what they have: nothing.
Open ==
  /\ visit = NoVisit /\ created < MaxVisits
  /\ created' = created + 1 /\ visit' = created + 1
  /\ calls' = [calls EXCEPT ![created + 1] = Requests]
  /\ chart' = FreshCharts(layout)
  /\ EventBus!Subscribe(
       [event \in {Layout, Resized} |->
          IF event = Layout THEN {<<created + 1, "dashboard">>} ELSE ChartsOf(created + 1)])
  /\ UNCHANGED <<firstPartition, history, layoutVars>>

(* mutant: the charts stay subscribed *)
LeaveSubscribed ==
  /\ visit # NoVisit
  /\ visit' = NoVisit
  /\ chart' = FreshCharts(0)
  /\ UNCHANGED <<created, calls, firstPartition, history, layoutVars, eventRegistry>>

\* The charts end their subscriptions; the dashboard does not, and its requests
\* stay in flight.
Leave ==
  /\ visit # NoVisit
  /\ visit' = NoVisit
  /\ chart' = FreshCharts(0)
  /\ EventBus!Unsubscribe(Resized, ChartsOf(visit))
  /\ UNCHANGED <<created, calls, firstPartition, history, layoutVars>>

-----------------------------------------------------------------------------
(* Answers *)

Answered(v, request) ==
  /\ request \in calls[v]
  /\ calls' = [calls EXCEPT ![v] = @ \ {request}]
  /\ UNCHANGED <<visit, created, layoutVars, eventRegistry>>

\* updateAppStatusData and updateContainerStatusData.
PartitionsAnswered(v) ==
  /\ Answered(v, "partitions")
  /\ \E p \in {"none", "idle", "busy"} : firstPartition' = [firstPartition EXCEPT ![v] = p]
  /\ UNCHANGED history
  /\ Draw(v, StatusTiles)

HistoryAnswered(v, c) ==
  /\ Answered(v, c)
  /\ \E entries \in SUBSET {c} : history' = [history EXCEPT ![v] = @ \cup entries]
  /\ UNCHANGED firstPartition
  /\ Draw(v, {c})

Failed(v, request) ==
  /\ Answered(v, request)
  /\ UNCHANGED <<firstPartition, history, chart>>

\* The bar chart draws whatever list it is given (NodeUtilizations has the lists).
UtilizationsDrawn ==
  /\ visit # NoVisit
  /\ \E entries \in BOOLEAN :
       chart' = [chart EXCEPT !["utilizations"] = [data |-> entries, drawnAt |-> layout]]
  /\ UNCHANGED <<dashboardVars, layoutVars, eventRegistry>>

-----------------------------------------------------------------------------
(* The layout *)

(* mutant: the timer belongs to opening the navigation alone *)
ToggleWithoutTimer ==
  /\ layout < MaxLayouts
  /\ layout' = layout + 1
  /\ toggles' = IF layout % 2 = 0 THEN toggles + 1 ELSE toggles
  /\ UNCHANGED <<dashboardVars, chart, resizing, eventRegistry>>

ToggleNavigation ==
  /\ layout < MaxLayouts
  /\ layout' = layout + 1
  /\ toggles' = toggles + 1
  /\ UNCHANGED <<dashboardVars, chart, resizing, eventRegistry>>

Resize ==
  /\ layout < MaxLayouts
  /\ layout' = layout + 1
  /\ resizing' = TRUE
  /\ UNCHANGED <<dashboardVars, chart, toggles, eventRegistry>>

(* mutant: the histories are not built again *)
RefreshStatus(v) == Draw(v, StatusTiles)

\* The layout handler of dashboard v.
Refresh(v) == Draw(v, Tiles)

\* Handlers of dashboards that were left assign fields nothing shows.  Without a
\* first partition the handler throws before it assigns anything.
LayoutChanged ==
  /\ toggles > 0
  /\ toggles' = toggles - 1
  /\ UNCHANGED <<dashboardVars, layout, resizing, eventRegistry>>
  /\ IF <<visit, "dashboard">> \in EventBus!Receivers(Layout) /\ firstPartition[visit] # "none"
     THEN Refresh(visit)
     ELSE UNCHANGED chart

\* Each chart draws the data it keeps.
WindowResized ==
  /\ resizing
  /\ resizing' = FALSE
  /\ chart' = [c \in Charts |->
       IF <<visit, c>> \in EventBus!Receivers(Resized)
       THEN [chart[c] EXCEPT !.drawnAt = layout] ELSE chart[c]]
  /\ UNCHANGED <<dashboardVars, layout, toggles, eventRegistry>>

-----------------------------------------------------------------------------
Init ==
  /\ visit = NoVisit /\ created = 0
  /\ calls = [v \in Visits |-> {}]
  /\ firstPartition = [v \in Visits |-> "none"]
  /\ history = [v \in Visits |-> {}]
  /\ chart = FreshCharts(0)
  /\ layout = 0 /\ toggles = 0 /\ resizing = FALSE
  /\ EventBus!Init

Next ==
  \/ Open \/ Leave
  \/ \E v \in Visits : PartitionsAnswered(v)
  \/ \E v \in Visits, c \in HistoryTiles : HistoryAnswered(v, c)
  \/ \E v \in Visits, request \in Requests : Failed(v, request)
  \/ UtilizationsDrawn
  \/ ToggleNavigation \/ Resize \/ LayoutChanged \/ WindowResized

Spec == Init /\ [][Next]_vars

\* A timer that was set fires.
FairSpec == Spec /\ WF_vars(LayoutChanged) /\ WF_vars(WindowResized)

-----------------------------------------------------------------------------
(* Properties *)

\* Every variable keeps the shape its declaration gives it.
TypeOK ==
  /\ visit \in 0..MaxVisits /\ created \in 0..MaxVisits
  /\ calls \in [Visits -> SUBSET Requests]
  /\ firstPartition \in [Visits -> {"none", "idle", "busy"}]
  /\ history \in [Visits -> SUBSET HistoryTiles]
  /\ chart \in [Charts -> [data : BOOLEAN, drawnAt : 0..MaxLayouts]]
  /\ layout \in 0..MaxLayouts /\ toggles \in 0..MaxLayouts /\ resizing \in BOOLEAN
  /\ EventBus!TypeOK

\* A resize reaches the charts on screen, all of them, and no other: a chart
\* that was destroyed has no canvas to draw on (takeUntil in the charts, one
\* Subject per event in the bus).
ResizeReachesChartsOnScreen ==
  EventBus!Receivers(Resized) = IF visit = NoVisit THEN {} ELSE ChartsOf(visit)

\* The registry of the bus and the charts agree, and each keeps its types.
EventsInv == TypeOK /\ ResizeReachesChartsOnScreen

\* Once the timers have fired, a status tile with data is drawn in the present
\* layout: whenever its data arrived, whenever the dashboard was opened, also if
\* an event was published while nobody was subscribed or before there was a
\* partition to read.
SettledStatusTilesAreCurrent ==
  visit # NoVisit /\ toggles = 0 /\ resizing = FALSE
    => \A c \in StatusTiles : chart[c].data => chart[c].drawnAt = layout

\* After a toggle every tile with data is drawn in the layout of the page in the
\* end, if the partitions are known and the dashboard stays on screen.
ToggleIsFollowed ==
  \A v \in Visits :
    (visit = v /\ firstPartition[v] # "none" /\ toggles > 0)
      ~> (visit # v \/ \A c \in Tiles : chart[c].data => chart[c].drawnAt = layout)
=============================================================================
