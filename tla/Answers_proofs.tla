--------------------------- MODULE Answers_proofs ---------------------------
(***************************************************************************)
(* Theorems about the screens that put answers together: Dashboard, for any*)
(* number of dashboards opened and left and any number of changes of the   *)
(* layout; the tile of the node utilizations on it, for any figures and any*)
(* way of the pointer; and SchedulerAnswers with ResourceFormat, for any   *)
(* resources, usages, logs and allocations reported.                       *)
(***************************************************************************)
EXTENDS Dashboard, UtilizationTile, SchedulerAnswers, SequenceTheorems, FiniteSetTheorems,
        WellFoundedInduction, TLAPS

\* A dashboard asks for the partitions once, so that what it has read of them
\* stays; one that was not opened yet has asked for nothing.
PartitionsReadOnce ==
  /\ visit <= created
  /\ \A v \in Visits : v > created => calls[v] = {}
  /\ \A v \in Visits : v > created \/ "partitions" \in calls[v] => firstPartition[v] = "none"

\* The dashboard on screen hears of the layout, and a status tile with data can
\* be drawn from it again.
StatusCanBeDrawn ==
  visit # NoVisit =>
    /\ <<visit, "dashboard">> \in EventBus!Receivers(Layout)
    /\ \A c \in StatusTiles : chart[c].data => HasData(visit, c)

\* The inductive invariant behind the safety properties.
DashboardInv ==
  /\ EventsInv
  /\ toggles <= layout
  /\ PartitionsReadOnce /\ StatusCanBeDrawn
  /\ SettledStatusTilesAreCurrent
-----------------------------------------------------------------------------
(* Facts about the operators *)

LEMMA Names ==
  /\ "utilizations" \notin Tiles /\ StatusTiles \subseteq Tiles /\ Tiles \subseteq Charts
  /\ Layout # Resized /\ NoVisit \notin Visits
BY DEF Tiles, StatusTiles, HistoryTiles, Charts, Layout, Resized, NoVisit, Visits

\* A chart has data and the layout it was drawn in.
Drawn == [data : BOOLEAN, drawnAt : 0..MaxLayouts]

LEMMA FreshTyped ==
  ASSUME NEW now \in 0..MaxLayouts
  PROVE  /\ FreshCharts(now) \in [Charts -> Drawn]
         /\ \A c \in Charts : ~FreshCharts(now)[c].data
BY DEF FreshCharts, Drawn

\* Drawing keeps the shape of the charts.  A tile drawn has data in the present
\* layout; another one stays as it was.
LEMMA DrawEffect ==
  ASSUME chart \in [Charts -> Drawn], layout \in 0..MaxLayouts, NEW v, NEW cs, Draw(v, cs)
  PROVE  /\ chart' \in [Charts -> Drawn]
         /\ \A c \in Charts :
              IF visit = v /\ c \in cs /\ HasData(v, c)'
              THEN chart'[c] = [data |-> TRUE, drawnAt |-> layout] ELSE chart'[c] = chart[c]
<1>1. \A c \in Charts : chart'[c] = IF visit = v /\ c \in cs /\ HasData(v, c)'
                                    THEN [data |-> TRUE, drawnAt |-> layout] ELSE chart[c]
  BY DEF Draw
<1>2. [data |-> TRUE, drawnAt |-> layout] \in Drawn
  BY DEF Drawn
<1>3. chart' = [c \in Charts |-> IF visit = v /\ c \in cs /\ HasData(v, c)'
                                 THEN [data |-> TRUE, drawnAt |-> layout] ELSE chart[c]]
  BY DEF Draw
<1>4. chart' \in [Charts -> Drawn]
  BY <1>2, <1>3
<1> QED BY <1>1, <1>4

\* An event reaches those subscribed before and those new to it.
LEMMA Subscribed ==
  ASSUME NEW wanted, EventBus!Subscribe(wanted), NEW event
  PROVE  EventBus!Receivers(event)'
           = EventBus!Receivers(event) \cup (IF event \in DOMAIN wanted THEN wanted[event] ELSE {})
<1>1. /\ DOMAIN eventRegistry' = DOMAIN eventRegistry \cup DOMAIN wanted
      /\ event \in DOMAIN eventRegistry \cup DOMAIN wanted =>
           eventRegistry'[event] = EventBus!Receivers(event)
                                     \cup (IF event \in DOMAIN wanted THEN wanted[event] ELSE {})
  BY DEF EventBus!Subscribe
<1>2. CASE event \in DOMAIN eventRegistry \cup DOMAIN wanted
  BY <1>1, <1>2 DEF EventBus!Receivers
<1>3. CASE event \notin DOMAIN eventRegistry \cup DOMAIN wanted
  BY <1>1, <1>3 DEF EventBus!Receivers
<1> QED BY <1>2, <1>3

\* Ended subscriptions leave every other one.
LEMMA Unsubscribed ==
  ASSUME NEW event \in DOMAIN eventRegistry, NEW gone, EventBus!Unsubscribe(event, gone),
         EventBus!TypeOK
  PROVE  /\ EventBus!TypeOK'
         /\ EventBus!Receivers(event)' = EventBus!Receivers(event) \ gone
         /\ \A other : other # event => EventBus!Receivers(other)' = EventBus!Receivers(other)
<1>1. /\ DOMAIN eventRegistry' = DOMAIN eventRegistry
      /\ eventRegistry'[event] = eventRegistry[event] \ gone
      /\ \A e \in DOMAIN eventRegistry : e # event => eventRegistry'[e] = eventRegistry[e]
  BY DEF EventBus!Unsubscribe
<1> QED BY <1>1 DEF EventBus!TypeOK, EventBus!Receivers
-----------------------------------------------------------------------------
(* The invariant in three parts *)

\* What the requests and the timers keep between them.
RequestsPart ==
  /\ visit \in 0..MaxVisits /\ created \in 0..MaxVisits
  /\ calls \in [Visits -> SUBSET Requests]
  /\ firstPartition \in [Visits -> {"none", "idle", "busy"}]
  /\ history \in [Visits -> SUBSET HistoryTiles]
  /\ layout \in 0..MaxLayouts /\ toggles \in 0..MaxLayouts /\ resizing \in BOOLEAN
  /\ toggles <= layout
  /\ PartitionsReadOnce

\* What the bus knows of the dashboard on screen.
BusPart ==
  /\ EventBus!TypeOK
  /\ ResizeReachesChartsOnScreen
  /\ visit # NoVisit => <<visit, "dashboard">> \in EventBus!Receivers(Layout)

\* What is drawn.
ChartPart ==
  /\ chart \in [Charts -> Drawn]
  /\ visit # NoVisit => \A c \in StatusTiles : chart[c].data => HasData(visit, c)
  /\ SettledStatusTilesAreCurrent

LEMMA InvSplits == DashboardInv <=> RequestsPart /\ BusPart /\ ChartPart
BY DEF DashboardInv, EventsInv, TypeOK, StatusCanBeDrawn, RequestsPart, BusPart, ChartPart, Drawn

-----------------------------------------------------------------------------
(* The bus *)

LEMMA BusKept ==
  ASSUME BusPart, UNCHANGED <<visit, eventRegistry>>
  PROVE  BusPart'
BY DEF BusPart, EventBus!TypeOK, ResizeReachesChartsOnScreen, EventBus!Receivers

\* The new dashboard subscribes, and every chart of it.
LEMMA OpenSubscribes ==
  ASSUME RequestsPart, BusPart, Open
  PROVE  BusPart'
<1> DEFINE wanted == [event \in {Layout, Resized} |->
                        IF event = Layout THEN {<<created + 1, "dashboard">>}
                        ELSE ChartsOf(created + 1)]
<1>1. /\ visit = NoVisit /\ visit' = created + 1 /\ created + 1 \in Visits
      /\ EventBus!Subscribe(wanted)
  <2>1. visit = NoVisit /\ visit' = created + 1 /\ created < MaxVisits
    BY DEF Open
  <2>2. EventBus!Subscribe(wanted)
    BY DEF Open
  <2> QED BY <2>1, <2>2, BoundsAssumption DEF RequestsPart, Visits, BoundsAssumption
<1>2. /\ DOMAIN wanted = {Layout, Resized} /\ wanted[Layout] = {<<created + 1, "dashboard">>}
      /\ wanted[Resized] = ChartsOf(created + 1)
  BY Names
<1> HIDE DEF wanted
<1>3. /\ EventBus!Receivers(Layout)' = EventBus!Receivers(Layout) \cup {<<created + 1, "dashboard">>}
      /\ EventBus!Receivers(Resized)' = EventBus!Receivers(Resized) \cup ChartsOf(created + 1)
  BY <1>1, <1>2, Subscribed
<1>4. EventBus!Receivers(Resized) = {}
  BY <1>1 DEF BusPart, ResizeReachesChartsOnScreen
<1>5. visit' # NoVisit
  BY <1>1, Names
<1>6. EventBus!TypeOK'
  <2>1. DOMAIN eventRegistry' = DOMAIN eventRegistry \cup {Layout, Resized}
    BY <1>1, <1>2 DEF EventBus!Subscribe
  <2>2. \A event : EventBus!Receivers(event) \subseteq Visits \X (Charts \cup {"dashboard"})
    BY DEF BusPart, EventBus!TypeOK, EventBus!Receivers
  <2>3. <<created + 1, "dashboard">> \in Visits \X (Charts \cup {"dashboard"})
        /\ ChartsOf(created + 1) \subseteq Visits \X (Charts \cup {"dashboard"})
    BY <1>1 DEF ChartsOf
  <2>4. \A event \in DOMAIN eventRegistry' :
          eventRegistry'[event] \subseteq Visits \X (Charts \cup {"dashboard"})
    <3> TAKE event \in DOMAIN eventRegistry'
    <3>1. eventRegistry'[event] = EventBus!Receivers(event)'
      BY DEF EventBus!Receivers
    <3>2. EventBus!Receivers(event)'
            = EventBus!Receivers(event) \cup (IF event \in DOMAIN wanted THEN wanted[event] ELSE {})
      BY <1>1, Subscribed
    <3> QED BY <1>2, <2>2, <2>3, <3>1, <3>2
  <2> QED BY <2>1, <2>4 DEF BusPart, EventBus!TypeOK
<1> QED BY <1>1, <1>3, <1>4, <1>5, <1>6 DEF BusPart, ResizeReachesChartsOnScreen

\* The charts of the dashboard that is left hear no more.
LEMMA LeaveUnsubscribes ==
  ASSUME BusPart, Leave
  PROVE  BusPart'
<1>1. visit # NoVisit /\ visit' = NoVisit /\ EventBus!Unsubscribe(Resized, ChartsOf(visit))
  BY DEF Leave
<1>2. EventBus!Receivers(Resized) = ChartsOf(visit)
  BY <1>1 DEF BusPart, ResizeReachesChartsOnScreen
<1>3. ChartsOf(visit) # {}
  BY DEF ChartsOf, Charts
<1>4. Resized \in DOMAIN eventRegistry
  BY <1>2, <1>3 DEF EventBus!Receivers
<1>5. EventBus!TypeOK' /\ EventBus!Receivers(Resized)' = {}
  BY <1>1, <1>2, <1>4, Unsubscribed DEF BusPart
<1> QED BY <1>1, <1>5 DEF BusPart, ResizeReachesChartsOnScreen

-----------------------------------------------------------------------------
(* Requests *)

LEMMA AnsweredTyped ==
  ASSUME RequestsPart, NEW v \in Visits, NEW request, Answered(v, request)
  PROVE  /\ calls' \in [Visits -> SUBSET Requests]
         /\ request \in calls[v] /\ request \notin calls'[v] /\ v <= created
         /\ \A w \in Visits : calls'[w] \subseteq calls[w]
         /\ UNCHANGED <<visit, created, layout, toggles, resizing>>
<1>1. /\ request \in calls[v] /\ calls' = [calls EXCEPT ![v] = @ \ {request}]
      /\ UNCHANGED <<visit, created, layout, toggles, resizing>>
  BY DEF Answered, layoutVars
<1>2. /\ calls'[v] = calls[v] \ {request}
      /\ \A w \in Visits : w # v => calls'[w] = calls[w]
      /\ calls' \in [Visits -> SUBSET Requests]
  BY <1>1 DEF RequestsPart
<1>3. v <= created
  <2>1. ~(v > created)
    BY <1>1 DEF RequestsPart, PartitionsReadOnce
  <2> QED BY <2>1 DEF RequestsPart, Visits
<1> QED BY <1>1, <1>2, <1>3

LEMMA RequestsKept ==
  ASSUME RequestsPart,
         UNCHANGED <<visit, created, calls, firstPartition, history, layout, toggles, resizing>>
  PROVE  RequestsPart'
BY DEF RequestsPart, PartitionsReadOnce

LEMMA RequestsStep ==
  ASSUME RequestsPart, [Next]_vars
  PROVE  RequestsPart'
<1>1. CASE Open
  <2>1. /\ created < MaxVisits /\ created' = created + 1 /\ visit' = created + 1
        /\ calls' = [calls EXCEPT ![created + 1] = Requests]
        /\ UNCHANGED <<firstPartition, history, layout, toggles, resizing>>
    BY <1>1 DEF Open, layoutVars
  <2>2. created \in Nat /\ MaxVisits \in Nat /\ created + 1 \in Visits
    BY <2>1, BoundsAssumption DEF RequestsPart, Visits, BoundsAssumption
  <2>3. /\ calls' \in [Visits -> SUBSET Requests]
        /\ \A v \in Visits : v # created + 1 => calls'[v] = calls[v]
    BY <2>1, <2>2 DEF RequestsPart
  <2>4. \A v \in Visits : v > created + 1 => v > created /\ v # created + 1
    BY <2>2 DEF Visits
  <2>5. firstPartition[created + 1] = "none"
    BY <2>2 DEF RequestsPart, PartitionsReadOnce
  <2>6. \A v \in Visits : v > created' => calls'[v] = {} /\ firstPartition[v] = "none"
    BY <2>1, <2>3, <2>4 DEF RequestsPart, PartitionsReadOnce
  <2>7. \A v \in Visits : "partitions" \in calls'[v] => firstPartition[v] = "none"
    BY <2>3, <2>5 DEF RequestsPart, PartitionsReadOnce
  <2>8. visit' <= created' /\ visit' \in 0..MaxVisits /\ created' \in 0..MaxVisits
    BY <2>1, <2>2
  <2> QED BY <2>1, <2>3, <2>6, <2>7, <2>8 DEF RequestsPart, PartitionsReadOnce
<1>2. CASE Leave
  <2>1. /\ visit' = 0
        /\ UNCHANGED <<created, calls, firstPartition, history, layout, toggles, resizing>>
    BY <1>2 DEF Leave, NoVisit, layoutVars
  <2>2. visit' \in 0..MaxVisits /\ visit' <= created
    BY <2>1, BoundsAssumption DEF RequestsPart, BoundsAssumption
  <2> QED BY <2>1, <2>2 DEF RequestsPart, PartitionsReadOnce
<1>3. ASSUME NEW v \in Visits, PartitionsAnswered(v)
      PROVE  RequestsPart'
  <2>1. Answered(v, "partitions") /\ UNCHANGED history
    BY <1>3 DEF PartitionsAnswered
  <2>2. PICK p \in {"none", "idle", "busy"} : firstPartition' = [firstPartition EXCEPT ![v] = p]
    BY <1>3 DEF PartitionsAnswered
  <2>3. /\ firstPartition' \in [Visits -> {"none", "idle", "busy"}]
        /\ \A w \in Visits : w # v => firstPartition'[w] = firstPartition[w]
    BY <2>2 DEF RequestsPart
  <2>4. /\ calls' \in [Visits -> SUBSET Requests]
        /\ "partitions" \notin calls'[v] /\ v <= created
        /\ \A w \in Visits : calls'[w] \subseteq calls[w]
        /\ UNCHANGED <<visit, created, layout, toggles, resizing>>
    BY <2>1, AnsweredTyped
  <2>5. \A w \in Visits : w > created => w # v
    BY <2>4 DEF RequestsPart, Visits
  <2> QED BY <2>1, <2>3, <2>4, <2>5 DEF RequestsPart, PartitionsReadOnce
<1>4. ASSUME NEW v \in Visits, NEW c \in HistoryTiles, HistoryAnswered(v, c)
      PROVE  RequestsPart'
  <2>1. Answered(v, c) /\ UNCHANGED firstPartition
    BY <1>4 DEF HistoryAnswered
  <2>2. PICK entries \in SUBSET {c} : history' = [history EXCEPT ![v] = @ \cup entries]
    BY <1>4 DEF HistoryAnswered
  <2>3. history' \in [Visits -> SUBSET HistoryTiles]
    BY <2>2 DEF RequestsPart
  <2>4. /\ calls' \in [Visits -> SUBSET Requests]
        /\ \A w \in Visits : calls'[w] \subseteq calls[w]
        /\ UNCHANGED <<visit, created, layout, toggles, resizing>>
    BY <2>1, AnsweredTyped
  <2> QED BY <2>1, <2>3, <2>4 DEF RequestsPart, PartitionsReadOnce
<1>5. ASSUME NEW v \in Visits, NEW request \in Requests, Failed(v, request)
      PROVE  RequestsPart'
  <2>1. /\ calls' \in [Visits -> SUBSET Requests]
        /\ \A w \in Visits : calls'[w] \subseteq calls[w]
        /\ UNCHANGED <<visit, created, layout, toggles, resizing, firstPartition, history>>
    BY <1>5, AnsweredTyped DEF Failed
  <2> QED BY <2>1 DEF RequestsPart, PartitionsReadOnce
<1>6. CASE UtilizationsDrawn
  BY <1>6, RequestsKept DEF UtilizationsDrawn, dashboardVars, layoutVars
<1>7. CASE ToggleNavigation
  BY <1>7, BoundsAssumption
     DEF ToggleNavigation, RequestsPart, PartitionsReadOnce, dashboardVars, BoundsAssumption
<1>8. CASE Resize
  BY <1>8, BoundsAssumption
     DEF Resize, RequestsPart, PartitionsReadOnce, dashboardVars, BoundsAssumption
<1>9. CASE LayoutChanged
  BY <1>9, BoundsAssumption
     DEF LayoutChanged, RequestsPart, PartitionsReadOnce, dashboardVars, BoundsAssumption
<1>10. CASE WindowResized
  BY <1>10 DEF WindowResized, RequestsPart, PartitionsReadOnce, dashboardVars
<1>11. CASE UNCHANGED vars
  BY <1>11, RequestsKept DEF vars, dashboardVars, layoutVars
<1> QED BY <1>1, <1>2, <1>3, <1>4, <1>5, <1>6, <1>7, <1>8, <1>9, <1>10, <1>11 DEF Next
-----------------------------------------------------------------------------
(* What is drawn *)

\* A status tile has data of the first partition, and none without one.
LEMMA StatusData ==
  ASSUME NEW v, NEW c \in StatusTiles
  PROVE  /\ HasData(v, c) => firstPartition[v] # "none"
         /\ firstPartition'[v] = firstPartition[v] => (HasData(v, c)' <=> HasData(v, c))
BY DEF HasData, StatusTiles, HistoryTiles

LEMMA StatusUntouched ==
  ASSUME ChartPart, UNCHANGED <<visit, firstPartition, layout, toggles, resizing>>,
         chart' \in [Charts -> Drawn], \A c \in StatusTiles : chart'[c] = chart[c]
  PROVE  ChartPart'
<1>1. \A c \in StatusTiles : HasData(visit, c)' <=> HasData(visit, c)
  BY StatusData DEF HasData, StatusTiles, HistoryTiles
<1> QED BY <1>1 DEF ChartPart, SettledStatusTilesAreCurrent

\* A first answer is the first data there is, and is drawn as it comes.
LEMMA PartitionsDrawn ==
  ASSUME RequestsPart, ChartPart, NEW v \in Visits, PartitionsAnswered(v)
  PROVE  ChartPart'
<1>1. /\ "partitions" \in calls[v] /\ UNCHANGED <<visit, layout, toggles, resizing>>
      /\ Draw(v, StatusTiles)
  BY DEF PartitionsAnswered, Answered, layoutVars
<1>2. PICK p \in {"none", "idle", "busy"} : firstPartition' = [firstPartition EXCEPT ![v] = p]
  BY DEF PartitionsAnswered
<1>3. \A w \in Visits : w # v => firstPartition'[w] = firstPartition[w]
  BY <1>2 DEF RequestsPart
<1>4. /\ chart' \in [Charts -> Drawn]
      /\ \A c \in StatusTiles :
           IF visit = v /\ HasData(v, c)'
           THEN chart'[c] = [data |-> TRUE, drawnAt |-> layout] ELSE chart'[c] = chart[c]
  BY <1>1, DrawEffect, Names DEF ChartPart, RequestsPart
<1>5. CASE visit = NoVisit
  BY <1>1, <1>4, <1>5 DEF ChartPart, SettledStatusTilesAreCurrent
<1>6. CASE visit # NoVisit /\ visit # v
  <2>1. visit \in Visits
    BY <1>6 DEF RequestsPart, NoVisit, Visits
  <2>2. \A c \in StatusTiles : chart'[c] = chart[c] /\ (HasData(visit, c)' <=> HasData(visit, c))
    BY <1>1, <1>3, <1>4, <1>6, <2>1 DEF HasData, StatusTiles, HistoryTiles
  <2> QED BY <1>1, <1>4, <2>2 DEF ChartPart, SettledStatusTilesAreCurrent
<1>7. CASE visit # NoVisit /\ visit = v
  <2>1. \A c \in StatusTiles : ~chart[c].data
    BY <1>1, <1>7, StatusData DEF ChartPart, RequestsPart, PartitionsReadOnce
  <2>2. \A c \in StatusTiles : chart'[c].data => HasData(visit, c)' /\ chart'[c].drawnAt = layout
    <3>1. \A c \in StatusTiles : HasData(visit, c)' <=> HasData(v, c)'
      BY <1>1, <1>7 DEF HasData
    <3> QED BY <1>4, <1>7, <2>1, <3>1
  <2> QED BY <1>1, <1>4, <2>2 DEF ChartPart, SettledStatusTilesAreCurrent
<1> QED BY <1>5, <1>6, <1>7

\* The dashboard's handler draws every status tile that has data.
LEMMA LayoutFollowed ==
  ASSUME RequestsPart, BusPart, ChartPart, LayoutChanged
  PROVE  ChartPart'
<1>1. /\ UNCHANGED <<visit, firstPartition, history, layout, resizing>>
      /\ IF <<visit, "dashboard">> \in EventBus!Receivers(Layout) /\ firstPartition[visit] # "none"
         THEN Draw(visit, Tiles) ELSE UNCHANGED chart
  BY DEF LayoutChanged, Refresh, dashboardVars
<1>2. \A c \in StatusTiles : HasData(visit, c)' <=> HasData(visit, c)
  BY <1>1 DEF HasData, StatusTiles, HistoryTiles
<1>3. /\ chart' \in [Charts -> Drawn]
      /\ Draw(visit, Tiles) => \A c \in StatusTiles :
           IF HasData(visit, c)'
           THEN chart'[c] = [data |-> TRUE, drawnAt |-> layout] ELSE chart'[c] = chart[c]
  <2>1. CASE Draw(visit, Tiles)
    <3>1. PICK v : v = visit
      OBVIOUS
    <3>2. \A c \in Charts : HasData(v, c)' <=> HasData(visit, c)'
      BY <1>1, <3>1 DEF HasData
    <3>3. Draw(v, Tiles)
      BY <1>1, <2>1, <3>1 DEF Draw, HasData
    <3> QED BY <3>1, <3>2, <3>3, DrawEffect, Names DEF ChartPart, RequestsPart
  <2>2. CASE ~Draw(visit, Tiles)
    BY <1>1, <2>2 DEF ChartPart
  <2> QED BY <2>1, <2>2
<1>4. ASSUME visit # NoVisit
      PROVE  \A c \in StatusTiles : chart'[c].data => HasData(visit, c) /\ chart'[c].drawnAt = layout
  <2>1. \A c \in StatusTiles : chart[c].data => HasData(visit, c)
    BY <1>4 DEF ChartPart
  <2>2. CASE firstPartition[visit] = "none"
    <3>1. \A c \in StatusTiles : ~chart[c].data /\ chart'[c] = chart[c]
      BY <1>1, <2>1, <2>2, StatusData, Names
    <3> QED BY <3>1
  <2>3. CASE firstPartition[visit] # "none"
    <3>1. Draw(visit, Tiles)
      BY <1>1, <1>4, <2>3 DEF BusPart
    <3> QED BY <1>2, <1>3, <2>1, <3>1
  <2> QED BY <2>2, <2>3
<1> QED BY <1>1, <1>2, <1>3, <1>4 DEF ChartPart, SettledStatusTilesAreCurrent

\* Each chart on screen draws itself again.
LEMMA ResizeFollowed ==
  ASSUME RequestsPart, BusPart, ChartPart, WindowResized
  PROVE  ChartPart'
<1>1. /\ UNCHANGED <<visit, firstPartition, layout, toggles>>
      /\ chart' = [c \in Charts |->
                     IF <<visit, c>> \in EventBus!Receivers(Resized)
                     THEN [chart[c] EXCEPT !.drawnAt = layout] ELSE chart[c]]
  BY DEF WindowResized, dashboardVars
<1>2. \A c \in Charts : chart[c] \in Drawn /\ [chart[c] EXCEPT !.drawnAt = layout] \in Drawn
                        /\ [chart[c] EXCEPT !.drawnAt = layout].data = chart[c].data
                        /\ [chart[c] EXCEPT !.drawnAt = layout].drawnAt = layout
  BY DEF ChartPart, RequestsPart, Drawn
<1>3. chart' \in [Charts -> Drawn]
  BY <1>1, <1>2
<1>4. ASSUME visit # NoVisit
      PROVE  \A c \in StatusTiles : /\ chart'[c].data => chart[c].data
                                    /\ chart'[c].drawnAt = layout
  <2>1. \A c \in Charts : <<visit, c>> \in EventBus!Receivers(Resized)
    BY <1>4 DEF BusPart, ResizeReachesChartsOnScreen, ChartsOf
  <2> QED BY <1>1, <1>2, <2>1, Names
<1>5. \A c \in StatusTiles : HasData(visit, c)' <=> HasData(visit, c)
  BY <1>1 DEF HasData, StatusTiles, HistoryTiles
<1> QED BY <1>1, <1>3, <1>4, <1>5 DEF ChartPart, SettledStatusTilesAreCurrent

LEMMA ChartStep ==
  ASSUME RequestsPart, BusPart, ChartPart, [Next]_vars
  PROVE  ChartPart'
<1>1. CASE Open
  <2>1. chart' = FreshCharts(layout)
    BY <1>1 DEF Open
  <2>2. chart' \in [Charts -> Drawn] /\ \A c \in StatusTiles : ~chart'[c].data
    BY <2>1, FreshTyped, Names DEF RequestsPart
  <2> QED BY <2>2 DEF ChartPart, SettledStatusTilesAreCurrent
<1>2. CASE Leave
  <2>1. chart' = FreshCharts(0) /\ visit' = NoVisit /\ 0 \in 0..MaxLayouts
    BY <1>2, BoundsAssumption DEF Leave, BoundsAssumption
  <2> QED BY <2>1, FreshTyped DEF ChartPart, SettledStatusTilesAreCurrent
<1>3. ASSUME NEW v \in Visits, PartitionsAnswered(v)
      PROVE  ChartPart'
  BY <1>3, PartitionsDrawn
<1>4. ASSUME NEW v \in Visits, NEW c \in HistoryTiles, HistoryAnswered(v, c)
      PROVE  ChartPart'
  <2>1. UNCHANGED <<visit, firstPartition, layout, toggles, resizing>> /\ Draw(v, {c})
    BY <1>4 DEF HistoryAnswered, Answered, layoutVars
  <2>2. c \notin StatusTiles
    BY DEF StatusTiles, HistoryTiles
  <2>3. chart' \in [Charts -> Drawn] /\ \A t \in StatusTiles : chart'[t] = chart[t]
    BY <2>1, <2>2, DrawEffect, Names DEF ChartPart, RequestsPart
  <2> QED BY <2>1, <2>3, StatusUntouched
<1>5. ASSUME NEW v \in Visits, NEW request \in Requests, Failed(v, request)
      PROVE  ChartPart'
  BY <1>5, StatusUntouched DEF Failed, Answered, layoutVars, ChartPart
<1>6. CASE UtilizationsDrawn
  <2>1. PICK entries \in BOOLEAN :
          chart' = [chart EXCEPT !["utilizations"] = [data |-> entries, drawnAt |-> layout]]
    BY <1>6 DEF UtilizationsDrawn
  <2>2. [data |-> entries, drawnAt |-> layout] \in Drawn
    BY DEF Drawn, RequestsPart
  <2>3. chart' \in [Charts -> Drawn]
    BY <2>1, <2>2 DEF ChartPart
  <2>4. \A c \in StatusTiles : chart'[c] = chart[c]
    BY <2>1, Names DEF ChartPart
  <2> QED BY <1>6, <2>3, <2>4, StatusUntouched DEF UtilizationsDrawn, dashboardVars, layoutVars
<1>7. CASE ToggleNavigation \/ Resize
  <2>1. /\ UNCHANGED <<visit, firstPartition, history, chart>>
        /\ toggles' # 0 \/ resizing' = TRUE
    BY <1>7 DEF ToggleNavigation, Resize, dashboardVars, RequestsPart
  <2>2. \A c \in StatusTiles : HasData(visit, c)' <=> HasData(visit, c)
    BY <2>1 DEF HasData
  <2> QED BY <2>1, <2>2 DEF ChartPart, SettledStatusTilesAreCurrent
<1>8. CASE LayoutChanged
  BY <1>8, LayoutFollowed
<1>9. CASE WindowResized
  BY <1>9, ResizeFollowed
<1>10. CASE UNCHANGED vars
  BY <1>10, StatusUntouched DEF vars, dashboardVars, layoutVars, ChartPart
<1> QED BY <1>1, <1>2, <1>3, <1>4, <1>5, <1>6, <1>7, <1>8, <1>9, <1>10 DEF Next

-----------------------------------------------------------------------------
LEMMA BusStep ==
  ASSUME RequestsPart, BusPart, [Next]_vars
  PROVE  BusPart'
<1>1. CASE Open
  BY <1>1, OpenSubscribes
<1>2. CASE Leave
  BY <1>2, LeaveUnsubscribes
<1>3. CASE \/ \E v \in Visits : PartitionsAnswered(v)
           \/ \E v \in Visits, c \in HistoryTiles : HistoryAnswered(v, c)
           \/ \E v \in Visits, request \in Requests : Failed(v, request)
  BY <1>3, BusKept DEF PartitionsAnswered, HistoryAnswered, Failed, Answered
<1>4. CASE UtilizationsDrawn \/ ToggleNavigation \/ Resize \/ LayoutChanged \/ WindowResized
  BY <1>4, BusKept
     DEF UtilizationsDrawn, ToggleNavigation, Resize, LayoutChanged, WindowResized, dashboardVars
<1>5. CASE UNCHANGED vars
  BY <1>5, BusKept DEF vars, dashboardVars
<1> QED BY <1>1, <1>2, <1>3, <1>4, <1>5 DEF Next

LEMMA DashboardInvInit == Init => DashboardInv
<1> SUFFICES ASSUME Init PROVE RequestsPart /\ BusPart /\ ChartPart
  BY InvSplits
<1>1. RequestsPart
  <2>1. 0 \in 0..MaxVisits /\ 0 \in 0..MaxLayouts
    BY BoundsAssumption DEF BoundsAssumption
  <2>2. \A v \in Visits : calls[v] = {} /\ firstPartition[v] = "none" /\ history[v] = {}
    BY DEF Init
  <2>3. /\ calls \in [Visits -> SUBSET Requests] /\ history \in [Visits -> SUBSET HistoryTiles]
        /\ firstPartition \in [Visits -> {"none", "idle", "busy"}]
    BY DEF Init
  <2>4. visit = 0 /\ created = 0 /\ layout = 0 /\ toggles = 0 /\ resizing \in BOOLEAN
    BY DEF Init, NoVisit
  <2>5. PartitionsReadOnce
    BY <2>2, <2>4 DEF PartitionsReadOnce
  <2> QED BY <2>1, <2>3, <2>4, <2>5 DEF RequestsPart
<1>2. BusPart
  <2>1. DOMAIN eventRegistry = {}
    BY DEF Init, EventBus!Init
  <2> QED BY <2>1 DEF Init, BusPart, EventBus!TypeOK, EventBus!Receivers, ResizeReachesChartsOnScreen
<1>3. ChartPart
  BY FreshTyped, BoundsAssumption
     DEF Init, ChartPart, SettledStatusTilesAreCurrent, BoundsAssumption
<1> QED BY <1>1, <1>2, <1>3

\* The inductive invariant holds of every behaviour of the dashboard, its charts
\* and the event bus.
THEOREM DashboardInvariant == Spec => []DashboardInv
<1>1. DashboardInv /\ [Next]_vars => DashboardInv'
  <2> SUFFICES ASSUME DashboardInv, [Next]_vars PROVE DashboardInv'
    OBVIOUS
  <2>1. RequestsPart' /\ BusPart' /\ ChartPart'
    BY InvSplits, RequestsStep, BusStep, ChartStep
  <2> QED BY <2>1 DEF DashboardInv, EventsInv, TypeOK, StatusCanBeDrawn, RequestsPart,
                      BusPart, ChartPart, Drawn
<1> QED BY <1>1, DashboardInvInit, PTL DEF Spec

\* A resize reaches the charts on screen and no chart that was destroyed, for any
\* number of dashboards opened and left (the takeUntil of the charts).
THEOREM ResizesReachCharts == Spec => []EventsInv
<1>1. DashboardInv => EventsInv
  BY DEF DashboardInv
<1> QED BY <1>1, DashboardInvariant, PTL

\* With no timer left a status tile with data is drawn in the present layout,
\* however toggles, resizes and answers overlapped (the layout handler of the
\* dashboard and the resize handler of the charts).
THEOREM StatusTilesAreCurrent == Spec => []SettledStatusTilesAreCurrent
<1>1. DashboardInv => SettledStatusTilesAreCurrent
  BY DEF DashboardInv
<1> QED BY <1>1, DashboardInvariant, PTL
-----------------------------------------------------------------------------
(* The tile of the node utilizations, which keeps a state of its own *)

\* Series i of the chart was made from series i of the input, and has its colour.
DrawnFromInput ==
  /\ Chart!SeriesAreOfTheInput
  /\ \A i \in DOMAIN barChart : DOMAIN barChart[i] = {"set", "color", "dim"}

ChartOfTile == DrawnFromInput /\ Chart!DimmingFollowsPointer

\* With nothing in flight the input is what the last answer has of the partition
\* selected. Before the partitions are there one request is in flight at most.
InputIsOfSelection ==
  /\ FiguresTypeOK
  /\ partitionsCall => figureCalls <= 1 /\ partitionList = {}
  /\ figureCalls = 0 /\ partitionSelected \in DOMAIN lastReport
       => barChartDataSets = DataSets(lastReport[partitionSelected])

-----------------------------------------------------------------------------
(* The chart of the tile *)

\* A chart made anew dims nothing, and no mouse event has reached it.
LEMMA RenderedChart ==
  ASSUME Chart!RenderChart(barChartDataSets')
  PROVE  ChartOfTile'
<1>1. /\ DOMAIN barChart' = DOMAIN barChartDataSets'
      /\ \A i \in DOMAIN barChart' :
           barChart'[i] = [set |-> barChartDataSets'[i], color |-> barChartDataSets'[i].color,
                           dim |-> FALSE]
      /\ pointed' = <<"outside", 0>>
  BY DEF Chart!RenderChart, Chart!Outside
<1>2. pointed' # <<"area", 0>> /\ pointed'[1] # "bar"
  BY <1>1
<1> QED BY <1>1, <1>2
        DEF ChartOfTile, DrawnFromInput, Chart!SeriesAreOfTheInput,
            Chart!DimmingFollowsPointer, Chart!Area

\* The series keep what they were made from and get their colours back.
LEMMA RecoloredChart ==
  ASSUME DrawnFromInput, UNCHANGED barChartDataSets, NEW dimmed, Chart!Recolor(dimmed)
  PROVE  DrawnFromInput' /\ \A i \in DOMAIN barChart' : barChart'[i].dim = (i \in dimmed)
<1>1. /\ DOMAIN barChart' = DOMAIN barChart
      /\ \A i \in DOMAIN barChart :
           barChart'[i] = [barChart[i] EXCEPT !.color = barChartDataSets[i].color,
                                              !.dim = i \in dimmed]
  BY DEF Chart!Recolor
<1>2. ASSUME NEW i \in DOMAIN barChart
      PROVE  /\ DOMAIN barChart'[i] = {"set", "color", "dim"}
             /\ barChart'[i].set = barChartDataSets[i]
             /\ barChart'[i].color = barChartDataSets[i].color
             /\ barChart'[i].dim = (i \in dimmed)
  <2> DEFINE old == barChart[i]  color == barChartDataSets[i].color  new == i \in dimmed
  <2>1. barChart'[i] = [old EXCEPT !.color = color, !.dim = new]
    BY <1>1
  <2>2. DOMAIN old = {"set", "color", "dim"} /\ old.set = barChartDataSets[i]
    BY DEF DrawnFromInput, Chart!SeriesAreOfTheInput
  <2> HIDE DEF old, color, new
  <2>3. /\ DOMAIN barChart'[i] = DOMAIN old /\ barChart'[i].set = old.set
        /\ barChart'[i].color = color /\ barChart'[i].dim = new
    BY <2>1, <2>2
  <2> QED BY <2>2, <2>3 DEF color, new
<1> QED BY <1>1, <1>2 DEF DrawnFromInput, Chart!SeriesAreOfTheInput

\* Whatever the pointer does, beside the bars nothing is dimmed and over a bar
\* all others are.
LEMMA PointerStep ==
  ASSUME ChartOfTile, Chart!Pointer
  PROVE  ChartOfTile' /\ UNCHANGED barChartDataSets
<1>1. ASSUME NEW i \in DOMAIN barChart, Chart!LegendHover(i)
      PROVE  ChartOfTile' /\ UNCHANGED barChartDataSets
  <2>1. /\ UNCHANGED barChartDataSets /\ pointed' = <<"legend", i>>
        /\ DOMAIN barChart' = DOMAIN barChart
        /\ \A j \in DOMAIN barChart :
             barChart'[j] = IF j = i THEN barChart[j]
               ELSE [barChart[j] EXCEPT !.color = barChartDataSets[j].color, !.dim = TRUE]
    BY <1>1 DEF Chart!LegendHover, Chart!MoveTo
  <2>2. ASSUME NEW j \in DOMAIN barChart
        PROVE  /\ DOMAIN barChart'[j] = {"set", "color", "dim"}
               /\ barChart'[j].set = barChartDataSets[j]
               /\ barChart'[j].color = barChartDataSets[j].color
    <3>1. /\ DOMAIN barChart[j] = {"set", "color", "dim"} /\ barChart[j].set = barChartDataSets[j]
          /\ barChart[j].color = barChartDataSets[j].color
      BY DEF ChartOfTile, DrawnFromInput, Chart!SeriesAreOfTheInput
    <3> QED BY <2>1, <3>1
  <2>3. DrawnFromInput'
    BY <2>1, <2>2 DEF ChartOfTile, DrawnFromInput, Chart!SeriesAreOfTheInput
  <2>4. pointed' # <<"area", 0>> /\ pointed'[1] # "bar"
    BY <2>1
  <2> QED BY <2>1, <2>3, <2>4 DEF ChartOfTile, Chart!DimmingFollowsPointer, Chart!Area
<1>2. ASSUME NEW i \in DOMAIN barChart, Chart!LegendNext(i)
      PROVE  ChartOfTile' /\ UNCHANGED barChartDataSets
  <2>1. UNCHANGED barChartDataSets /\ pointed' = <<"legend", i>>
        /\ Chart!Recolor(DOMAIN barChart \ {i})
    BY <1>2 DEF Chart!LegendNext, Chart!MoveTo
  <2>2. DrawnFromInput'
    BY <2>1, RecoloredChart DEF ChartOfTile
  <2>3. pointed' # <<"area", 0>> /\ pointed'[1] # "bar"
    BY <2>1
  <2> QED BY <2>1, <2>2, <2>3 DEF ChartOfTile, Chart!DimmingFollowsPointer, Chart!Area
<1>3. ASSUME NEW i \in DOMAIN barChart, Chart!BarHover(i)
      PROVE  ChartOfTile' /\ UNCHANGED barChartDataSets
  <2>1. UNCHANGED barChartDataSets /\ pointed' = <<"bar", i>>
        /\ Chart!Recolor(DOMAIN barChart \ {i})
    BY <1>3 DEF Chart!BarHover, Chart!MoveTo
  <2>2. /\ DrawnFromInput' /\ DOMAIN barChart' = DOMAIN barChart
        /\ \A j \in DOMAIN barChart' : barChart'[j].dim = (j \in DOMAIN barChart \ {i})
    <3>1. DOMAIN barChart' = DOMAIN barChart
      BY <2>1 DEF Chart!Recolor
    <3> QED BY <2>1, <3>1, RecoloredChart DEF ChartOfTile
  <2>3. pointed' # <<"area", 0>> /\ pointed'[2] = i
    BY <2>1
  <2>4. \A j \in DOMAIN barChart' : barChart'[j].dim <=> j # pointed'[2]
    BY <2>2, <2>3
  <2> QED BY <2>1, <2>2, <2>3, <2>4
          DEF ChartOfTile, Chart!DimmingFollowsPointer, Chart!Area
<1>4. CASE Chart!LegendLeave \/ Chart!AreaHover
  <2>1. /\ UNCHANGED barChartDataSets /\ Chart!Recolor({})
        /\ pointed' \in {<<"outside", 0>>, <<"area", 0>>}
    BY <1>4 DEF Chart!LegendLeave, Chart!AreaHover, Chart!MoveTo,
                Chart!Outside, Chart!Area
  <2>2. DrawnFromInput' /\ \A j \in DOMAIN barChart' : ~barChart'[j].dim
    <3>1. DrawnFromInput' /\ \A j \in DOMAIN barChart' : barChart'[j].dim = (j \in {})
      BY <2>1, RecoloredChart DEF ChartOfTile
    <3> QED BY <3>1
  <2>3. pointed'[1] # "bar"
    BY <2>1
  <2> QED BY <2>1, <2>2, <2>3 DEF ChartOfTile, Chart!DimmingFollowsPointer
<1>5. CASE Chart!AreaLeave
  <2>1. UNCHANGED <<barChartDataSets, barChart>> /\ pointed' = <<"outside", 0>>
    BY <1>5 DEF Chart!AreaLeave, Chart!MoveTo, Chart!Outside
  <2>2. pointed' # <<"area", 0>> /\ pointed'[1] # "bar"
    BY <2>1
  <2> QED BY <2>1, <2>2
          DEF ChartOfTile, DrawnFromInput, Chart!SeriesAreOfTheInput,
              Chart!DimmingFollowsPointer, Chart!Area
<1> QED BY <1>1, <1>2, <1>3, <1>4, <1>5 DEF Chart!Pointer
-----------------------------------------------------------------------------
(* The component of the tile *)

\* Steps of the component leave the chart to its input.
LEMMA ChartUntouchedStep ==
  ASSUME ChartOfTile, UNCHANGED <<barChartDataSets, barChart, pointed>>
  PROVE  ChartOfTile'
BY DEF ChartOfTile, DrawnFromInput, Chart!SeriesAreOfTheInput, Chart!DimmingFollowsPointer

LEMMA ChartOfTileStep ==
  ASSUME ChartOfTile, [TileNext]_tileVars
  PROVE  ChartOfTile'
<1>1. ASSUME NEW report, FiguresShown(report)
      PROVE  ChartOfTile'
  <2>1. CASE partitionSelected \in DOMAIN report
    BY <1>1, <2>1, RenderedChart DEF FiguresShown, Chart!OnChanges
  <2>2. CASE partitionSelected \notin DOMAIN report
    BY <1>1, <2>2, ChartUntouchedStep DEF FiguresShown, UtilizationsAnswered
  <2> QED BY <2>1, <2>2
<1>2. CASE ChartUntouched
  BY <1>2, ChartUntouchedStep
     DEF ChartUntouched, PartitionListAnswered, PartitionListFailed,
         UtilizationsFailed, OnPartitionSelectionChanged
<1>3. CASE ChartAlone
  <2>1. CASE Chart!Pointer
    BY <2>1, PointerStep
  <2>2. CASE Chart!WindowResized
    BY <2>2, RenderedChart DEF Chart!WindowResized, Chart!RenderChart
  <2> QED BY <1>3, <2>1, <2>2 DEF ChartAlone
<1>4. CASE UNCHANGED tileVars
  BY <1>4, ChartUntouchedStep DEF tileVars, figuresVars
<1> QED BY <1>1, <1>2, <1>3, <1>4 DEF TileNext

LEMMA InputStep ==
  ASSUME InputIsOfSelection, ChartOfTile, [TileNext]_tileVars
  PROVE  InputIsOfSelection'
<1>0. /\ FiguresTypeOK /\ figureCalls \in Nat /\ MaxCalls \in Nat /\ MaxCalls >= 2
  BY ConstantsAssumption DEF ConstantsAssumption, InputIsOfSelection, FiguresTypeOK
<1>1. ASSUME NEW report \in Reports, FiguresShown(report)
      PROVE  InputIsOfSelection'
  <2>1. /\ figureCalls > 0 /\ figureCalls' = figureCalls - 1 /\ lastReport' = report
        /\ UNCHANGED <<partitionsCall, partitionList, partitionSelected, stored>>
        /\ partitionSelected \in DOMAIN report
             => barChartDataSets' = DataSets(report[partitionSelected])
    BY <1>1 DEF FiguresShown, UtilizationsAnswered, Answer, choiceVars
  <2>2. figureCalls' \in 0..MaxCalls /\ figureCalls' <= figureCalls
    BY <1>0, <2>1 DEF FiguresTypeOK
  <2>3. FiguresTypeOK'
    BY <1>0, <2>1, <2>2 DEF FiguresTypeOK
  <2>4. partitionsCall' => figureCalls' <= 1 /\ partitionList' = {}
    BY <1>0, <2>1, <2>2 DEF InputIsOfSelection
  <2> QED BY <2>1, <2>3, <2>4 DEF InputIsOfSelection
<1>2. CASE UtilizationsFailed
  <2>1. /\ figureCalls > 0 /\ figureCalls' = figureCalls - 1 /\ lastReport' = <<>>
        /\ UNCHANGED <<partitionsCall, partitionList, partitionSelected, stored>>
    BY <1>2 DEF UtilizationsFailed, Answer, choiceVars
  <2>2. figureCalls' \in 0..MaxCalls /\ figureCalls' <= figureCalls
    BY <1>0, <2>1 DEF FiguresTypeOK
  <2>3. FiguresTypeOK'
    BY <1>0, <2>1, <2>2 DEF FiguresTypeOK
  <2>4. partitionsCall' => figureCalls' <= 1 /\ partitionList' = {}
    BY <1>0, <2>1, <2>2 DEF InputIsOfSelection
  <2>5. DOMAIN lastReport' = {}
    BY <2>1
  <2> QED BY <2>3, <2>4, <2>5 DEF InputIsOfSelection
<1>3. CASE PartitionListAnswered
  <2>1. /\ partitionsCall /\ partitionsCall' = FALSE /\ figureCalls' = figureCalls + 1
        /\ lastReport' = lastReport
    BY <1>3 DEF PartitionListAnswered, Reload
  <2>2. figureCalls' \in 0..MaxCalls /\ figureCalls' # 0
    BY <1>0, <2>1 DEF InputIsOfSelection
  <2>3. /\ partitionList' \subseteq Partitions
        /\ {partitionSelected', stored'} \subseteq Partitions \cup {None}
    BY <1>0, <1>3, ConstantsAssumption
       DEF PartitionListAnswered, Reload, FiguresTypeOK, ConstantsAssumption
  <2> QED BY <1>0, <2>1, <2>2, <2>3 DEF InputIsOfSelection, FiguresTypeOK
<1>4. CASE PartitionListFailed
  BY <1>4 DEF PartitionListFailed, choiceVars, InputIsOfSelection, FiguresTypeOK
<1>5. ASSUME NEW p \in Partitions, OnPartitionSelectionChanged(p)
      PROVE  InputIsOfSelection'
  <2>1. /\ partitionList # {} /\ figureCalls + 2 <= MaxCalls /\ figureCalls' = figureCalls + 2
        /\ partitionSelected' = p
        /\ UNCHANGED <<partitionsCall, partitionList, stored, lastReport>>
    BY <1>5 DEF OnPartitionSelectionChanged
  <2>2. figureCalls' \in 0..MaxCalls /\ figureCalls' # 0 /\ ~partitionsCall
    BY <1>0, <2>1 DEF InputIsOfSelection
  <2> QED BY <1>0, <2>1, <2>2 DEF InputIsOfSelection, FiguresTypeOK
<1>6. ASSUME UNCHANGED <<partitionsCall, figureCalls, partitionList, partitionSelected, stored,
                         lastReport, barChartDataSets>>
      PROVE  InputIsOfSelection'
  BY <1>6 DEF InputIsOfSelection, FiguresTypeOK
<1>7. CASE ChartAlone
  <2>1. UNCHANGED barChartDataSets
    BY <1>7, PointerStep DEF ChartAlone, Chart!WindowResized
  <2> QED BY <1>6, <1>7, <2>1 DEF ChartAlone, choiceVars
<1>8. CASE UNCHANGED tileVars
  BY <1>6, <1>8 DEF tileVars, figuresVars, choiceVars
<1> QED BY <1>1, <1>2, <1>3, <1>4, <1>5, <1>7, <1>8 DEF TileNext, ChartUntouched

LEMMA TileInvInit == ASSUME TileInit PROVE InputIsOfSelection /\ ChartOfTile
<1>1. /\ partitionsCall = TRUE /\ figureCalls = 1 /\ partitionList = {}
      /\ partitionSelected = None /\ stored \in Partitions \cup {None}
      /\ barChartDataSets = <<>> /\ lastReport = <<>> /\ barChart = <<>>
      /\ pointed = <<"outside", 0>>
  BY DEF TileInit, FiguresInit, Chart!Init, Chart!Outside
<1>2. 1 \in 0..MaxCalls
  BY ConstantsAssumption DEF ConstantsAssumption
<1>3. DOMAIN <<>> = {}
  OBVIOUS
<1>4. InputIsOfSelection
  BY <1>1, <1>2, <1>3 DEF InputIsOfSelection, FiguresTypeOK
<1>5. pointed # <<"area", 0>> /\ pointed[1] # "bar"
  BY <1>1
<1>6. ChartOfTile
  BY <1>1, <1>3, <1>5 DEF ChartOfTile, DrawnFromInput, Chart!SeriesAreOfTheInput,
                          Chart!DimmingFollowsPointer, Chart!Area
<1> QED BY <1>4, <1>6

\* What the tile keeps between its figures, its input and its chart.
THEOREM TileInvariant == TileSpec => [](InputIsOfSelection /\ ChartOfTile)
<1>1. /\ InputIsOfSelection /\ ChartOfTile
      /\ [TileNext]_tileVars
      => (InputIsOfSelection /\ ChartOfTile)'
  BY InputStep, ChartOfTileStep
<1> QED BY <1>1, TileInvInit, PTL DEF TileSpec

\* The chart draws its input and nothing older and beside the bars dims nothing,
\* for any figures and any moves of the pointer (the hover handlers and
\* ngOnChanges of VerticalBarChartComponent).
THEOREM ChartCorrect == TileSpec => []ChartInv
<1>1. InputIsOfSelection /\ ChartOfTile => ChartInv
  BY DEF InputIsOfSelection, ChartOfTile, DrawnFromInput, ChartInv
<1> QED BY <1>1, TileInvariant, PTL

\* Once nothing is in flight the canvas shows the figures of the partition
\* selected, for any partitions, reports and number of superseded requests
\* (fetchBarChartData reads partitionSelected when the answer is there).
THEOREM CanvasIsOfSelection == TileSpec => []CanvasFollowsSelection
<1>1. ASSUME InputIsOfSelection, ChartOfTile
      PROVE  CanvasFollowsSelection
  <2> SUFFICES ASSUME figureCalls = 0, partitionSelected \in DOMAIN lastReport
               PROVE  LET sets == DataSets(lastReport[partitionSelected])
                      IN [i \in DOMAIN barChart |-> <<barChart[i].set.type, barChart[i].color>>]
                           = [i \in DOMAIN sets |-> <<sets[i].type, sets[i].color>>]
    BY DEF CanvasFollowsSelection
  <2>1. barChartDataSets = DataSets(lastReport[partitionSelected])
    BY <1>1 DEF InputIsOfSelection
  <2>2. /\ DOMAIN barChart = DOMAIN barChartDataSets
        /\ \A i \in DOMAIN barChart : barChart[i].set = barChartDataSets[i]
                                      /\ barChart[i].color = barChartDataSets[i].color
    BY <1>1 DEF ChartOfTile, DrawnFromInput, Chart!SeriesAreOfTheInput
  <2> QED BY <2>1, <2>2
<1> QED BY <1>1, TileInvariant, PTL
-----------------------------------------------------------------------------
(* Induction over numbers and over finite sets, folds and sorted lists *)

LEMMA LeastNumber ==
  ASSUME NEW T, T \subseteq Nat, T # {}
  PROVE \E m \in T : \A n \in T : m <= n
<1>1. PICK x \in T : \A y \in T : <<y, x>> \notin OpToRel(<, Nat)
  BY NatLessThanWellFounded, WFMin
<1>2. \A y \in T : ~(y < x)
  BY <1>1 DEF OpToRel
<1> QED BY <1>2

\* A step of a recursion looks at the values at lower places only.
LooksBelow(D, V, height, step) ==
  /\ V # {} /\ \E n \in Nat : height \in [D -> 0..n]
  /\ step \in [D \X [D -> V] -> V]
  /\ \A q \in D : \A f, g \in [D -> V] :
       (\A r \in D : height[r] < height[q] => f[r] = g[r]) => step[<<q, f>>] = step[<<q, g>>]

LEMMA RecursionExists ==
  ASSUME NEW D, NEW V, NEW height, NEW step, LooksBelow(D, V, height, step)
  PROVE  \E f \in [D -> V] : \A q \in D : f[q] = step[<<q, f>>]
<1>1. /\ step \in [D \X [D -> V] -> V]
      /\ \A q \in D : \A f, g \in [D -> V] :
           (\A r \in D : height[r] < height[q] => f[r] = g[r]) => step[<<q, f>>] = step[<<q, g>>]
  BY DEF LooksBelow
<1>2. PICK v \in V, N \in Nat : height \in [D -> 0..N]
  BY DEF LooksBelow
<1> DEFINE Up(f, k) == \A q \in D : height[q] < k => f[q] = step[<<q, f>>]
           Short == {k \in Nat : ~ \E f \in [D -> V] : Up(f, k)}
<1>3. ASSUME Short # {} PROVE FALSE
  <2>1. PICK m \in Short : \A k \in Short : m <= k
    <3>1. Short \subseteq Nat
      OBVIOUS
    <3> HIDE DEF Short
    <3> QED BY <1>3, <3>1, LeastNumber
  <2>2. m \in Nat /\ ~ \E f \in [D -> V] : Up(f, m)
    BY <2>1
  <2>3. CASE m = 0
    <3>1. [q \in D |-> v] \in [D -> V]
      OBVIOUS
    <3>2. Up([q \in D |-> v], 0)
      BY <1>2
    <3> QED BY <2>2, <2>3, <3>1, <3>2
  <2>4. CASE m # 0
    <3>1. m - 1 \in Nat /\ ~(m <= m - 1)
      BY <2>2, <2>4
    <3>2. m - 1 \notin Short
      <4> HIDE DEF Short
      <4> QED BY <2>1, <3>1
    <3>3. PICK f \in [D -> V] : Up(f, m - 1)
      BY <3>1, <3>2
    <3> DEFINE g == [q \in D |-> step[<<q, f>>]]
    <3>4. g \in [D -> V] /\ \A q \in D : g[q] = step[<<q, f>>]
      BY <1>1
    <3> HIDE DEF g
    <3>5. \A r \in D : height[r] < m - 1 => g[r] = f[r]
      BY <3>3, <3>4
    <3>6. ASSUME NEW q \in D, height[q] < m PROVE g[q] = step[<<q, g>>]
      <4>1. \A r \in D : height[r] < height[q] => height[r] < m - 1
        BY <1>2, <2>2, <3>6
      <4>2. \A r \in D : height[r] < height[q] => f[r] = g[r]
        BY <3>5, <4>1
      <4>3. step[<<q, f>>] = step[<<q, g>>]
        BY <1>1, <3>4, <4>2
      <4> QED BY <3>4, <4>3
    <3> QED BY <2>2, <3>4, <3>6
  <2> QED BY <2>3, <2>4
<1>4. PICK f \in [D -> V] : Up(f, N + 1)
  <2>1. N + 1 \notin Short
    <3> HIDE DEF Short
    <3> QED BY <1>3
  <2> HIDE DEF Up
  <2> QED BY <2>1
<1>5. \A q \in D : height[q] < N + 1
  BY <1>2
<1> QED BY <1>4, <1>5

\* Induction over the subsets of a finite set: what holds of none, and of a set
\* if it holds of that set without one of its elements, holds of each.
Inductive(Good, S) ==
  /\ {} \in Good
  /\ \A s \in SUBSET S : s # {} => \E x \in s : s \ {x} \in Good => s \in Good

LEMMA FiniteInduction ==
  ASSUME NEW S, IsFiniteSet(S), NEW Good, Inductive(Good, S)
  PROVE  SUBSET S \subseteq Good
<1> DEFINE Bad == {s \in SUBSET S : s \notin Good}
           Sizes == {Cardinality(s) : s \in Bad}
<1>1. \A s \in SUBSET S : IsFiniteSet(s) /\ Cardinality(s) \in Nat
  BY FS_Subset, FS_CardinalityType
<1>2. ASSUME Bad # {} PROVE FALSE
  <2>0. \A s \in Bad : s # {}
    BY DEF Inductive
  <2>1. Sizes \subseteq Nat /\ Sizes # {}
    BY <1>1, <1>2
  <2>2. PICK m \in Sizes : \A n \in Sizes : m <= n
    <3> HIDE DEF Sizes
    <3> QED BY <2>1, LeastNumber
  <2>3. PICK s \in Bad : Cardinality(s) = m
    BY <2>2
  <2>4. s \in SUBSET S /\ s \notin Good
    BY <2>3
  <2>5. PICK x \in s : s \ {x} \in Good => s \in Good
    BY <2>0, <2>3, <2>4 DEF Inductive
  <2>6. s \ {x} \in SUBSET S /\ s \ {x} \notin Good
    BY <2>4, <2>5
  <2>7. Cardinality(s \ {x}) \in Sizes
    BY <2>6
  <2>8. IsFiniteSet(s) /\ Cardinality(s) \in Nat
    BY <1>1, <2>4
  <2>9. Cardinality(s \ {x}) = Cardinality(s) - 1
    BY <2>5, <2>8, FS_RemoveElement
  <2> HIDE DEF Bad, Sizes
  <2>10. m <= Cardinality(s) - 1
    BY <2>2, <2>7, <2>9
  <2> QED BY <2>3, <2>8, <2>10
<1> QED BY <1>2

\* A fold over the subsets of S: which element comes off and what it adds.
FoldEq(iter, S, base, pick, add) ==
  iter = [s \in SUBSET S |-> IF s = {} THEN base ELSE add[<<pick[s], iter[s \ {pick[s]}]>>]]

\* There is one, with numbers as values if what is added keeps them.
LEMMA FoldExists ==
  ASSUME NEW S, IsFiniteSet(S), NEW base \in Nat, NEW pick, NEW add \in [S \X Nat -> Nat],
         \A s \in SUBSET S : s # {} => pick[s] \in s
  PROVE  \E iter \in [SUBSET S -> Nat] : FoldEq(iter, S, base, pick, add)
<1> DEFINE D == SUBSET S
           F == [D -> Nat]
           height == [s \in D |-> Cardinality(s)]
           rest(s) == s \ {pick[s]}
           step == [p \in D \X F |-> IF p[1] = {} THEN base
                                     ELSE add[<<pick[p[1]], p[2][rest(p[1])]>>]]
<1>1. \A s \in D : /\ IsFiniteSet(s) /\ Cardinality(s) \in Nat
                   /\ Cardinality(s) <= Cardinality(S) /\ Cardinality(S) \in Nat
  BY FS_Subset, FS_CardinalityType
<1>2. ASSUME NEW s \in D, s # {}
      PROVE  /\ pick[s] \in s /\ pick[s] \in S /\ rest(s) \in D
             /\ Cardinality(rest(s)) < Cardinality(s)
  <2>1. pick[s] \in s
    BY <1>2
  <2>2. Cardinality(rest(s)) = Cardinality(s) - 1 /\ Cardinality(s) \in Nat
    BY <1>1, <2>1, FS_RemoveElement
  <2> QED BY <2>1, <2>2
<1>3. \A s \in D, f \in F :
        step[<<s, f>>] = IF s = {} THEN base ELSE add[<<pick[s], f[rest(s)]>>]
  OBVIOUS
<1>4. step \in [D \X F -> Nat]
  <2>1. ASSUME NEW s \in D, NEW f \in F PROVE step[<<s, f>>] \in Nat
    <3>1. CASE s = {}
      <4> HIDE DEF step, D, F
      <4> QED BY <1>3, <3>1
    <3>2. CASE s # {}
      <4>1. f[rest(s)] \in Nat
        BY <1>2, <3>2
      <4>2. <<pick[s], f[rest(s)]>> \in S \X Nat
        BY <1>2, <3>2, <4>1
      <4> HIDE DEF step, D, F, rest
      <4> QED BY <1>3, <3>2, <4>2
    <3> QED BY <3>1, <3>2
  <2>2. step = [p \in D \X F |-> step[p]]
    OBVIOUS
  <2> HIDE DEF step, D, F
  <2>3. \A p \in D \X F : step[p] \in Nat
    BY <2>1
  <2> QED BY <2>2, <2>3
<1>5. ASSUME NEW s \in D, NEW f \in F, NEW g \in F,
             \A r \in D : height[r] < height[s] => f[r] = g[r]
      PROVE  step[<<s, f>>] = step[<<s, g>>]
  <2>1. s # {} => f[rest(s)] = g[rest(s)]
    <3>1. \A r \in D : height[r] = Cardinality(r)
      OBVIOUS
    <3> HIDE DEF height, D, F, rest
    <3> QED BY <1>2, <1>5, <3>1
  <2> HIDE DEF step, D, F, rest
  <2>2. /\ step[<<s, f>>] = IF s = {} THEN base ELSE add[<<pick[s], f[rest(s)]>>]
        /\ step[<<s, g>>] = IF s = {} THEN base ELSE add[<<pick[s], g[rest(s)]>>]
    BY <1>3
  <2> QED BY <2>1, <2>2
<1>6. LooksBelow(D, Nat, height, step)
  <2>1. height \in [D -> 0..Cardinality(S)] /\ Cardinality(S) \in Nat
    <3>1. \A s \in D : Cardinality(s) \in 0..Cardinality(S)
      BY <1>1
    <3> HIDE DEF D
    <3> QED BY <3>1, FS_CardinalityType
  <2> HIDE DEF step, height, D
  <2> QED BY <1>4, <1>5, <2>1 DEF LooksBelow
<1>7. PICK iter \in F : \A s \in D : iter[s] = step[<<s, iter>>]
  <2> HIDE DEF step, height, D
  <2> QED BY <1>6, RecursionExists
<1>8. \A s \in D : iter[s] = IF s = {} THEN base ELSE add[<<pick[s], iter[rest(s)]>>]
  <2> HIDE DEF step, D, F, rest
  <2> QED BY <1>3, <1>7
<1>9. iter = [s \in D |-> iter[s]]
  OBVIOUS
<1> HIDE DEF D
<1>10. iter = [s \in D |-> IF s = {} THEN base ELSE add[<<pick[s], iter[rest(s)]>>]]
  BY <1>8, <1>9
<1> QED BY <1>10 DEF FoldEq, D

\* The sum of numbers is a number.
LEMMA SumIsNat ==
  ASSUME NEW D, IsFiniteSet(D), NEW f \in [D -> Nat]
  PROVE  SumFunction(f) \in Nat
<1> DEFINE Eq(iter) == iter = [s \in SUBSET D |-> IF s = {} THEN 0
                         ELSE f[CHOOSE x \in s : TRUE] + iter[s \ {CHOOSE x \in s : TRUE}]]
           iter == CHOOSE g : Eq(g)
           pick == [s \in SUBSET D |-> CHOOSE x \in s : TRUE]
           add == [p \in D \X Nat |-> f[p[1]] + p[2]]
<1>1. SumFunction(f) = iter[D]
  BY DEF SumFunction, SumFunctionOnSet, FoldFunctionOnSet, MapThenFoldSet
<1>2. \A s \in SUBSET D : s # {} => pick[s] \in s
  OBVIOUS
<1>3. add \in [D \X Nat -> Nat]
  OBVIOUS
<1>4. PICK g \in [SUBSET D -> Nat] : FoldEq(g, D, 0, pick, add)
  <2> HIDE DEF pick, add
  <2> QED BY <1>2, <1>3, FoldExists
<1>5. Eq(g)
  <2>1. \A s \in SUBSET D : s # {} => add[<<pick[s], g[s \ {pick[s]}]>>]
                              = f[CHOOSE x \in s : TRUE] + g[s \ {CHOOSE x \in s : TRUE}]
    <3> SUFFICES ASSUME NEW s \in SUBSET D, s # {}
                 PROVE  add[<<pick[s], g[s \ {pick[s]}]>>]
                          = f[CHOOSE x \in s : TRUE] + g[s \ {CHOOSE x \in s : TRUE}]
      OBVIOUS
    <3>1. pick[s] = CHOOSE x \in s : TRUE
      OBVIOUS
    <3>2. pick[s] \in D /\ s \ {pick[s]} \in SUBSET D
      BY <1>2
    <3>3. g[s \ {pick[s]}] \in Nat
      BY <3>2
    <3> HIDE DEF pick
    <3>4. add[<<pick[s], g[s \ {pick[s]}]>>] = f[pick[s]] + g[s \ {pick[s]}]
      BY <3>2, <3>3
    <3> QED BY <3>1, <3>4
  <2> HIDE DEF pick, add
  <2> QED BY <1>4, <2>1 DEF FoldEq
<1>6. Eq(iter)
  <2> HIDE DEF Eq
  <2> QED BY <1>5
<1> DEFINE Good == {s \in SUBSET D : iter[s] \in Nat}
<1>7. {} \in Good
  <2> HIDE DEF iter
  <2> QED BY <1>6
<1>8. ASSUME NEW s \in SUBSET D, s # {} PROVE \E x \in s : s \ {x} \in Good => s \in Good
  <2> DEFINE taken == CHOOSE x \in s : TRUE
  <2>1. taken \in s
    BY <1>8
  <2>2. iter[s] = f[taken] + iter[s \ {taken}]
    <3> HIDE DEF iter
    <3> QED BY <1>6, <1>8
  <2>3. f[taken] \in Nat
    BY <2>1
  <2> HIDE DEF taken, iter
  <2>4. s \ {taken} \in Good => s \in Good
    BY <2>2, <2>3
  <2> QED BY <2>1, <2>4
<1>9. SUBSET D \subseteq Good
  <2> HIDE DEF Good
  <2>1. Inductive(Good, D)
    BY <1>7, <1>8 DEF Inductive
  <2> QED BY <2>1, FiniteInduction
<1> QED BY <1>1, <1>9

StrictOrder(S, R) ==
  /\ \A x, y, z \in S : <<x, y>> \in R /\ <<y, z>> \in R => <<x, z>> \in R
  /\ \A x \in S : <<x, x>> \notin R
  /\ \A x, y \in S : x # y => <<x, y>> \in R \/ <<y, x>> \in R

\* A sorted list has every element once, in the order it is sorted by.
LEMMA SortedInOrder ==
  ASSUME NEW S, IsFiniteSet(S), NEW R, StrictOrder(S, R)
  PROVE  LET list == Sorted(S, R) IN
         /\ Cardinality(S) \in Nat
         /\ list \in Seq(S) /\ Len(list) = Cardinality(S)
         /\ \A x \in S : \E i \in 1..Cardinality(S) : list[i] = x
         /\ \A i, j \in 1..Cardinality(S) : i < j => <<list[i], list[j]>> \in R
<1> DEFINE n == Cardinality(S)
           Lower(x) == {y \in S : <<y, x>> \in R}
           rank == [x \in S |-> Cardinality(Lower(x)) + 1]
           list == Sorted(S, R)
<1>1. n \in Nat
  BY FS_CardinalityType
<1>2. \A x \in S : Lower(x) \subseteq S /\ x \notin Lower(x)
  BY DEF StrictOrder
<1>3. \A x \in S : IsFiniteSet(Lower(x)) /\ Cardinality(Lower(x)) \in Nat
  BY <1>2, FS_Subset, FS_CardinalityType
<1>4. \A x \in S : Cardinality(Lower(x)) < n
  <2> SUFFICES ASSUME NEW x \in S PROVE Cardinality(Lower(x)) < n
    OBVIOUS
  <2>1. Lower(x) \in SUBSET S /\ Lower(x) # S
    BY <1>2
  <2>2. Cardinality(Lower(x)) <= n /\ Cardinality(Lower(x)) # n
    <3> HIDE DEF Lower
    <3> QED BY <2>1, FS_Subset
  <2> HIDE DEF Lower, n
  <2> QED BY <1>1, <1>3, <2>2
<1>5. ASSUME NEW x \in S, NEW y \in S, <<x, y>> \in R
      PROVE  Cardinality(Lower(x)) < Cardinality(Lower(y))
  <2>1. Lower(x) \cup {x} \subseteq Lower(y)
    BY <1>5 DEF StrictOrder
  <2>2. x \notin Lower(x) /\ IsFiniteSet(Lower(x)) /\ IsFiniteSet(Lower(y))
    BY <1>2, <1>3
  <2>3. Cardinality(Lower(x)) \in Nat /\ Cardinality(Lower(y)) \in Nat
    BY <1>3
  <2> HIDE DEF Lower
  <2>4. Cardinality(Lower(x) \cup {x}) = Cardinality(Lower(x)) + 1
    BY <2>2, FS_AddElement
  <2>5. Cardinality(Lower(x) \cup {x}) <= Cardinality(Lower(y))
    BY <2>1, <2>2, FS_Subset
  <2> QED BY <2>3, <2>4, <2>5
<1>6. \A x, y \in S : Cardinality(Lower(x)) = Cardinality(Lower(y)) => x = y
  <2> SUFFICES ASSUME NEW x \in S, NEW y \in S, Cardinality(Lower(x)) = Cardinality(Lower(y)), x # y
               PROVE  FALSE
    OBVIOUS
  <2>1. <<x, y>> \in R \/ <<y, x>> \in R
    BY DEF StrictOrder
  <2>2. Cardinality(Lower(x)) \in Nat
    BY <1>3
  <2> HIDE DEF Lower
  <2> QED BY <1>5, <2>1, <2>2
<1>7. \A i \in 1..n : \E x \in S : Cardinality(Lower(x)) = i - 1
  <2>1. rank \in [S -> 1..n]
    <3> SUFFICES ASSUME NEW x \in S PROVE Cardinality(Lower(x)) + 1 \in 1..n
      OBVIOUS
    <3> HIDE DEF Lower, n
    <3> QED BY <1>1, <1>3, <1>4
  <2>2. \A x, y \in S : rank[x] = rank[y] => x = y
    <3> SUFFICES ASSUME NEW x \in S, NEW y \in S, rank[x] = rank[y] PROVE x = y
      OBVIOUS
    <3>1. Cardinality(Lower(x)) + 1 = Cardinality(Lower(y)) + 1
      OBVIOUS
    <3> HIDE DEF rank, Lower
    <3>2. Cardinality(Lower(x)) = Cardinality(Lower(y))
      BY <1>3, <3>1
    <3> QED BY <1>6, <3>2
  <2>3. rank \in Injection(S, 1..n)
    <3> HIDE DEF rank
    <3> QED BY <2>1, <2>2 DEF Injection, IsInjective
  <2>4. IsFiniteSet(1..n) /\ Cardinality(1..n) = n
    <3> HIDE DEF n
    <3> QED BY <1>1, FS_Interval
  <2>5. rank \in Surjection(S, 1..n)
    <3> HIDE DEF rank
    <3> QED BY <2>3, <2>4, FS_Injection
  <2>6. ASSUME NEW i \in 1..n PROVE \E x \in S : Cardinality(Lower(x)) = i - 1
    <3>1. PICK x \in S : rank[x] = i
      <4> HIDE DEF rank
      <4> QED BY <2>5 DEF Surjection
    <3>2. Cardinality(Lower(x)) + 1 = i
      BY <3>1
    <3> HIDE DEF Lower, n
    <3> QED BY <1>1, <1>3, <3>2
  <2> QED BY <2>6
<1>8. \A i \in 1..n : list[i] = CHOOSE x \in S : Cardinality(Lower(x)) = i - 1
  BY DEF Sorted
<1>9. list \in [1..n -> S]
  <2>1. \A i \in 1..n : (CHOOSE x \in S : Cardinality(Lower(x)) = i - 1) \in S
    <3> HIDE DEF Lower, n
    <3> QED BY <1>7
  <2>2. list = [i \in 1..n |-> CHOOSE x \in S : Cardinality(Lower(x)) = i - 1]
    BY DEF Sorted
  <2> HIDE DEF list, Lower, n
  <2> QED BY <2>1, <2>2
<1> HIDE DEF list, Lower, rank, n
<1>10. \A i \in 1..n : list[i] \in S /\ Cardinality(Lower(list[i])) = i - 1
  BY <1>7, <1>8
<1>11. list \in Seq(S) /\ Len(list) = n
  <2>1. list \in Seq(S)
    BY <1>1, <1>9
  <2> QED BY <1>1, <1>9, <2>1
<1>12. \A x \in S : \E i \in 1..n : list[i] = x
  <2> SUFFICES ASSUME NEW x \in S PROVE \E i \in 1..n : list[i] = x
    OBVIOUS
  <2> DEFINE i == Cardinality(Lower(x)) + 1
  <2>1. i \in 1..n /\ i - 1 = Cardinality(Lower(x))
    BY <1>1, <1>3, <1>4
  <2> HIDE DEF i
  <2>2. list[i] \in S /\ Cardinality(Lower(list[i])) = Cardinality(Lower(x))
    BY <1>10, <2>1
  <2> QED BY <1>6, <2>1, <2>2
<1>13. \A i, j \in 1..n : i < j => <<list[i], list[j]>> \in R
  <2> SUFFICES ASSUME NEW i \in 1..n, NEW j \in 1..n, i < j PROVE <<list[i], list[j]>> \in R
    OBVIOUS
  <2>1. /\ list[i] \in S /\ Cardinality(Lower(list[i])) = i - 1
        /\ list[j] \in S /\ Cardinality(Lower(list[j])) = j - 1
    BY <1>10
  <2>2. i - 1 < j - 1 /\ ~(j - 1 < i - 1)
    BY <1>1
  <2>3. list[i] # list[j]
    BY <1>1, <2>1
  <2>4. <<list[j], list[i]>> \notin R
    BY <1>5, <2>1, <2>2
  <2> QED BY <2>1, <2>3, <2>4 DEF StrictOrder
<1> QED BY <1>1, <1>11, <1>12, <1>13 DEF list, n
-----------------------------------------------------------------------------
(* The most used resource types of the tile *)

\* A mean utilization: a fraction with numbers.
Fraction == {<<a, b>> : a \in Nat, b \in Nat \ {0}}

LEMMA FractionParts == \A x \in Fraction : x[1] \in Nat /\ x[2] \in Nat \ {0}
BY DEF Fraction

LEMMA Cancel ==
  ASSUME NEW c \in Nat \ {0}, NEW p \in Nat, NEW q \in Nat
  PROVE  /\ c * p >= c * q => p >= q
         /\ c * p > c * q => p > q
OBVIOUS

LEMMA Multiply ==
  ASSUME NEW c \in Nat, NEW p \in Nat, NEW q \in Nat
  PROVE  /\ p >= q => c * p >= c * q
         /\ c # 0 /\ p > q => c * p > c * q
OBVIOUS

\* The greater of two fractions is greater than what the smaller one exceeds.
LEMMA ExceedsTransitive ==
  ASSUME NEW x \in Fraction, NEW y \in Fraction, NEW z \in Fraction,
         ~Exceeds(y, x), ~Exceeds(z, y)
  PROVE  /\ ~Exceeds(z, x)
         /\ Exceeds(x, y) \/ Exceeds(y, z) => Exceeds(x, z)
<1> DEFINE a == x[1] b == x[2] c == y[1] d == y[2] e == z[1] f == z[2]
<1>1. /\ a \in Nat /\ c \in Nat /\ e \in Nat
      /\ b \in Nat \ {0} /\ d \in Nat \ {0} /\ f \in Nat \ {0}
  BY FractionParts
<1>2. /\ Exceeds(x, y) <=> a * d > c * b
      /\ Exceeds(y, z) <=> c * f > e * d
      /\ Exceeds(y, x) <=> c * b > a * d
      /\ Exceeds(z, y) <=> e * d > c * f
      /\ Exceeds(x, z) <=> a * f > e * b
      /\ Exceeds(z, x) <=> e * b > a * f
  BY DEF Exceeds
<1> HIDE DEF a, b, c, d, e, f
<1>3. a * d \in Nat /\ c * b \in Nat /\ c * f \in Nat /\ e * d \in Nat /\ a * f \in Nat /\ e * b \in Nat
  BY <1>1
<1>4. a * d >= c * b /\ c * f >= e * d
  BY <1>2, <1>3
<1>5. f * (a * d) >= f * (c * b) /\ b * (c * f) >= b * (e * d)
  BY <1>1, <1>3, <1>4, Multiply
<1>6. /\ a * d > c * b => f * (a * d) > f * (c * b)
      /\ c * f > e * d => b * (c * f) > b * (e * d)
  BY <1>1, <1>3, Multiply
<1>7. /\ f * (a * d) = d * (a * f) /\ f * (c * b) = b * (c * f) /\ b * (e * d) = d * (e * b)
      /\ f * (a * d) \in Nat /\ f * (c * b) \in Nat /\ b * (e * d) \in Nat
  BY <1>1
<1>8. d * (a * f) >= d * (e * b)
  BY <1>5, <1>7
<1>9. a * d > c * b \/ c * f > e * d => d * (a * f) > d * (e * b)
  BY <1>5, <1>6, <1>7
<1>10. a * f >= e * b
  BY <1>1, <1>3, <1>8, Cancel
<1>11. a * d > c * b \/ c * f > e * d => a * f > e * b
  BY <1>1, <1>3, <1>9, Cancel
<1> QED BY <1>2, <1>3, <1>10, <1>11

LEMMA ExceedsAsymmetric ==
  ASSUME NEW x \in Fraction, NEW y \in Fraction
  PROVE  ~(Exceeds(x, y) /\ Exceeds(y, x))
<1>1. x[1] * y[2] \in Nat /\ y[1] * x[2] \in Nat
  BY FractionParts
<1> QED BY <1>1 DEF Exceeds

LEMMA AvgIsFraction ==
  ASSUME NEW counts \in [1..Buckets -> Nat]
  PROVE  AvgUtilization(counts) \in Fraction
<1> DEFINE total == SumFunction(counts)
           shares == [i \in 1..Buckets |-> counts[i] * (2 * i - 1)]
           weighted == SumFunction(shares)
<1>1. Buckets \in Nat /\ IsFiniteSet(1..Buckets)
  BY ConstantsAssumption, FS_Interval DEF ConstantsAssumption
<1>2. total \in Nat
  BY <1>1, SumIsNat
<1>3. shares \in [1..Buckets -> Nat]
  <2>1. \A i \in 1..Buckets : counts[i] \in Nat /\ 2 * i - 1 \in Nat
    BY <1>1
  <2>2. \A i \in 1..Buckets : counts[i] * (2 * i - 1) \in Nat
    BY <2>1
  <2> QED BY <2>2
<1>4. weighted \in Nat
  <2> HIDE DEF shares
  <2> QED BY <1>1, <1>3, SumIsNat
<1>5. AvgUtilization(counts) = IF total = 0 THEN <<0, 1>> ELSE <<weighted, total>>
  BY DEF AvgUtilization
<1> HIDE DEF total, shares, weighted
<1> QED BY <1>2, <1>4, <1>5 DEF Fraction

\* The figures of one partition.
Figures == UNION {{report[p] : p \in DOMAIN report} : report \in Reports}

LEMMA FiguresTyped ==
  ASSUME NEW figures \in Figures
  PROVE  /\ DOMAIN figures \subseteq Types
         /\ \A t \in DOMAIN figures : figures[t] \in [1..Buckets -> Nat]
BY ConstantsAssumption DEF ConstantsAssumption, Figures

LEMMA TypesFinite == IsFiniteSet(Types)
<1>1. TypeOrder \in Seq(Types)
  BY ConstantsAssumption DEF ConstantsAssumption
<1>2. DOMAIN TypeOrder = 1..Len(TypeOrder) /\ Len(TypeOrder) \in Nat
  BY <1>1
<1>3. TypeOrder \in Surjection(1..Len(TypeOrder), Types)
  BY <1>1, <1>2 DEF Surjection, Types, ToSet
<1> QED BY <1>2, <1>3, FS_Interval, FS_Surjection

LEMMA PositionFound ==
  \A t \in Types : Position(TypeOrder, t) \in Nat /\ TypeOrder[Position(TypeOrder, t)] = t
<1>1. \A t \in Types : \E i \in DOMAIN TypeOrder : TypeOrder[i] = t
  BY DEF Types, ToSet
<1>2. DOMAIN TypeOrder \subseteq Nat
  BY ConstantsAssumption DEF ConstantsAssumption
<1> QED BY <1>1, <1>2 DEF Position

TypePairs(figures) ==
  {pair \in (DOMAIN figures) \X (DOMAIN figures) : Precedes(figures, pair[1], pair[2])}

LEMMA TypePair ==
  ASSUME NEW figures, NEW t \in DOMAIN figures, NEW u \in DOMAIN figures
  PROVE  <<t, u>> \in TypePairs(figures) <=> Precedes(figures, t, u)
BY DEF TypePairs

\* The two stable sorts give one strict order.
LEMMA TypesInOrder ==
  ASSUME NEW figures \in Figures
  PROVE  IsFiniteSet(DOMAIN figures) /\ StrictOrder(DOMAIN figures, TypePairs(figures))
<1> DEFINE types == DOMAIN figures
           avg(t) == AvgUtilization(figures[t])
<1>1. IsFiniteSet(types)
  BY FiguresTyped, TypesFinite, FS_Subset
<1>2. \A t \in types : avg(t) \in Fraction
  BY FiguresTyped, AvgIsFraction
<1>3. \A t, u \in types : Precedes(figures, t, u) <=>
        \/ Exceeds(avg(t), avg(u))
        \/ ~Exceeds(avg(u), avg(t)) /\ Before(t, u)
  BY DEF Precedes
<1>4. /\ \A t \in types : ~Before(t, t)
      /\ \A t, u \in types : t # u => Before(t, u) \/ Before(u, t)
      /\ \A t, u, v \in types : Before(t, u) /\ Before(u, v) => Before(t, v)
  <2>1. /\ \A t \in types : Position(TypeOrder, t) \in Nat
        /\ \A t, u \in types : Position(TypeOrder, t) = Position(TypeOrder, u) => t = u
    BY FiguresTyped, PositionFound
  <2> QED BY <2>1 DEF Before
<1> HIDE DEF types, avg
<1>5. \A t, u \in types : ~(Exceeds(avg(t), avg(u)) /\ Exceeds(avg(u), avg(t)))
  BY <1>2, ExceedsAsymmetric
<1>6. \A t \in types : ~Precedes(figures, t, t)
  BY <1>3, <1>4, <1>5
<1>7. \A t, u \in types : t # u => Precedes(figures, t, u) \/ Precedes(figures, u, t)
  BY <1>3, <1>4
<1>8. \A t, u, v \in types : Precedes(figures, t, u) /\ Precedes(figures, u, v)
                               => Precedes(figures, t, v)
  <2> SUFFICES ASSUME NEW t \in types, NEW u \in types, NEW v \in types,
                      Precedes(figures, t, u), Precedes(figures, u, v)
               PROVE  Precedes(figures, t, v)
    OBVIOUS
  <2>1. ~Exceeds(avg(u), avg(t)) /\ ~Exceeds(avg(v), avg(u))
    BY <1>3, <1>5
  <2>2. /\ ~Exceeds(avg(v), avg(t))
        /\ Exceeds(avg(t), avg(u)) \/ Exceeds(avg(u), avg(v)) => Exceeds(avg(t), avg(v))
    BY <1>2, <2>1, ExceedsTransitive
  <2>3. CASE Exceeds(avg(t), avg(u)) \/ Exceeds(avg(u), avg(v))
    BY <1>3, <2>2, <2>3
  <2>4. CASE ~Exceeds(avg(t), avg(u)) /\ ~Exceeds(avg(u), avg(v))
    <3>1. Before(t, u) /\ Before(u, v)
      BY <1>3, <2>4
    <3> QED BY <1>3, <1>4, <2>2, <3>1
  <2> QED BY <2>3, <2>4
<1>9. StrictOrder(types, TypePairs(figures))
  <2>1. \A t, u \in types : <<t, u>> \in TypePairs(figures) <=> Precedes(figures, t, u)
    BY TypePair DEF types
  <2> QED BY <1>6, <1>7, <1>8, <2>1, Zenon DEF StrictOrder
<1> QED BY <1>1, <1>9 DEF types

\* The series of a chart: the first MaxShown types in that order.
LEMMA SeriesOfFigures ==
  ASSUME NEW figures \in Figures
  PROVE  LET sets == DataSets(figures)
             n == Cardinality(DOMAIN figures)
             shown == InOrder(figures)
             k == IF n < MaxShown THEN n ELSE MaxShown
         IN /\ n \in Nat /\ k \in Nat /\ k <= n /\ k <= MaxShown
            /\ \A i \in 1..n : shown[i] \in DOMAIN figures
            /\ \A t \in DOMAIN figures : \E i \in 1..n : shown[i] = t
            /\ \A i, j \in 1..n : i < j => Precedes(figures, shown[i], shown[j])
            /\ DOMAIN sets = 1..k /\ Len(sets) = k
            /\ \A i \in 1..k : /\ sets[i].type = shown[i]
                               /\ sets[i].avg = AvgUtilization(figures[shown[i]])
                               /\ sets[i].color \in 0..Palette - 1
<1> DEFINE n == Cardinality(DOMAIN figures)
           shown == InOrder(figures)
           k == IF n < MaxShown THEN n ELSE MaxShown
           sets == DataSets(figures)
<1>1. shown = Sorted(DOMAIN figures, TypePairs(figures))
  BY DEF InOrder, TypePairs
<1>2. IsFiniteSet(DOMAIN figures) /\ StrictOrder(DOMAIN figures, TypePairs(figures))
  BY TypesInOrder
<1> HIDE DEF shown
<1>3. /\ n \in Nat /\ shown \in Seq(DOMAIN figures) /\ Len(shown) = n
      /\ \A t \in DOMAIN figures : \E i \in 1..n : shown[i] = t
      /\ \A i, j \in 1..n : i < j => <<shown[i], shown[j]>> \in TypePairs(figures)
  BY <1>1, <1>2, SortedInOrder
<1>4. \A i \in 1..n : shown[i] \in DOMAIN figures
  BY <1>3
<1>5. \A i, j \in 1..n : i < j => Precedes(figures, shown[i], shown[j])
  BY <1>3, <1>4, TypePair
<1>6. k \in Nat /\ k <= n /\ k <= MaxShown
  BY <1>3, ConstantsAssumption DEF ConstantsAssumption
<1>7. sets = [i \in 1..k |-> [type |-> shown[i], avg |-> AvgUtilization(figures[shown[i]]),
                              color |-> Color(shown[i], DOMAIN figures)]]
  BY <1>3 DEF DataSets, shown
<1>8. \A t : Color(t, DOMAIN figures) \in 0..Palette - 1
  <2> SUFFICES ASSUME NEW t PROVE Color(t, DOMAIN figures) \in 0..Palette - 1
    OBVIOUS
  <2> DEFINE earlier == {u \in DOMAIN figures : Position(NameOrder, u) < Position(NameOrder, t)}
  <2>1. earlier \in SUBSET DOMAIN figures
    OBVIOUS
  <2>2. Color(t, DOMAIN figures) = Cardinality(earlier) % Palette
    BY DEF Color
  <2> HIDE DEF earlier
  <2>3. Cardinality(earlier) \in Nat
    BY <1>2, <2>1, FS_Subset, FS_CardinalityType
  <2>4. Palette \in Nat \ {0}
    BY ConstantsAssumption DEF ConstantsAssumption
  <2> QED BY <2>2, <2>3, <2>4
<1> HIDE DEF sets, k, n
<1>9. DOMAIN sets = 1..k /\ Len(sets) = k
  BY <1>6, <1>7
<1>10. \A i \in 1..k : /\ sets[i].type = shown[i]
                       /\ sets[i].avg = AvgUtilization(figures[shown[i]])
                       /\ sets[i].color \in 0..Palette - 1
  BY <1>7, <1>8
<1> QED BY <1>3, <1>4, <1>5, <1>6, <1>9, <1>10 DEF n, shown, k, sets

\* What a chart of figures shows.
MostUsedOf(figures, sets) ==
  LET drawn == {sets[i].type : i \in DOMAIN sets} IN
  /\ Len(sets) <= MaxShown
  /\ \A i \in DOMAIN sets : sets[i].type \in Types /\ sets[i].color \in 0..Palette - 1
  /\ \A t \in drawn, u \in DOMAIN figures \ drawn :
       ~Exceeds(AvgUtilization(figures[u]), AvgUtilization(figures[t]))
  /\ \A i, j \in DOMAIN sets : i < j => ~Exceeds(sets[j].avg, sets[i].avg)

LEMMA ChartOfFigures ==
  ASSUME NEW figures \in Figures
  PROVE  MostUsedOf(figures, DataSets(figures))
<1> DEFINE sets == DataSets(figures)
           n == Cardinality(DOMAIN figures)
           shown == InOrder(figures)
           k == IF n < MaxShown THEN n ELSE MaxShown
           drawn == {sets[i].type : i \in DOMAIN sets}
           avg(t) == AvgUtilization(figures[t])
<1>1. /\ n \in Nat /\ k \in Nat /\ k <= n /\ k <= MaxShown
      /\ \A i \in 1..n : shown[i] \in DOMAIN figures
      /\ \A t \in DOMAIN figures : \E i \in 1..n : shown[i] = t
      /\ \A i, j \in 1..n : i < j => Precedes(figures, shown[i], shown[j])
      /\ DOMAIN sets = 1..k /\ Len(sets) = k
      /\ \A i \in 1..k : /\ sets[i].type = shown[i] /\ sets[i].avg = avg(shown[i])
                         /\ sets[i].color \in 0..Palette - 1
  BY SeriesOfFigures
<1>2. \A t, u \in DOMAIN figures : Precedes(figures, t, u) => ~Exceeds(avg(u), avg(t))
  <2>1. \A t \in DOMAIN figures : avg(t) \in Fraction
    BY FiguresTyped, AvgIsFraction
  <2>2. \A t, u \in DOMAIN figures : ~(Exceeds(avg(t), avg(u)) /\ Exceeds(avg(u), avg(t)))
    BY <2>1, ExceedsAsymmetric
  <2> QED BY <2>2 DEF Precedes
<1>3. DOMAIN figures \subseteq Types
  BY FiguresTyped
<1>4. MostUsedOf(figures, sets) <=>
        /\ Len(sets) <= MaxShown
        /\ \A i \in DOMAIN sets : sets[i].type \in Types /\ sets[i].color \in 0..Palette - 1
        /\ \A t \in drawn, u \in DOMAIN figures \ drawn : ~Exceeds(avg(u), avg(t))
        /\ \A i, j \in DOMAIN sets : i < j => ~Exceeds(sets[j].avg, sets[i].avg)
  BY DEF MostUsedOf
<1>5. drawn = {shown[i] : i \in 1..k}
  <2>1. DOMAIN sets = 1..k /\ \A i \in 1..k : sets[i].type = shown[i]
    BY <1>1
  <2> HIDE DEF sets, shown, k
  <2> QED BY <2>1
<1> HIDE DEF sets, n, shown, k, drawn, avg
<1>6. \A i, j \in 1..n : i < j => ~Exceeds(avg(shown[j]), avg(shown[i]))
  BY <1>1, <1>2
<1>7. \A i \in 1..k : i \in 1..n
  BY <1>1
<1>8. \A i \in DOMAIN sets : sets[i].type \in Types /\ sets[i].color \in 0..Palette - 1
  BY <1>1, <1>3, <1>7
<1>9. ASSUME NEW i \in DOMAIN sets, NEW j \in DOMAIN sets, i < j
      PROVE  ~Exceeds(sets[j].avg, sets[i].avg)
  <2>1. /\ i \in 1..n /\ sets[i].avg = avg(shown[i])
        /\ j \in 1..n /\ sets[j].avg = avg(shown[j])
    BY <1>1, <1>7
  <2> QED BY <1>6, <1>9, <2>1
<1>10. ASSUME NEW t \in drawn, NEW u \in DOMAIN figures \ drawn
       PROVE  ~Exceeds(avg(u), avg(t))
  <2>1. PICK i \in 1..k : t = shown[i]
    BY <1>5, <1>10
  <2>2. PICK j \in 1..n : shown[j] = u
    BY <1>1, <1>10
  <2>3. j \notin 1..k
    BY <1>5, <1>10, <2>2
  <2>4. i < j /\ i \in 1..n
    BY <1>1, <1>7, <2>1, <2>2, <2>3
  <2> QED BY <1>6, <2>1, <2>2, <2>4
<1> QED BY <1>1, <1>4, <1>8, <1>9, <1>10 DEF sets

-----------------------------------------------------------------------------
\* Whatever is in flight, the series are those of some figures answered.
SeriesOfAnAnswer ==
  barChartDataSets = <<>> \/ \E figures \in Figures : barChartDataSets = DataSets(figures)

LEMMA SeriesStep ==
  ASSUME SeriesOfAnAnswer, ChartOfTile, [TileNext]_tileVars
  PROVE  SeriesOfAnAnswer'
<1>1. ASSUME UNCHANGED barChartDataSets PROVE SeriesOfAnAnswer'
  BY <1>1 DEF SeriesOfAnAnswer
<1>2. ASSUME NEW report \in Reports, FiguresShown(report) PROVE SeriesOfAnAnswer'
  <2>1. CASE partitionSelected \in DOMAIN report
    <3>1. barChartDataSets' = DataSets(report[partitionSelected])
      BY <1>2, <2>1 DEF FiguresShown, UtilizationsAnswered
    <3>2. report[partitionSelected] \in Figures
      BY <2>1 DEF Figures
    <3> QED BY <3>1, <3>2 DEF SeriesOfAnAnswer
  <2>2. CASE partitionSelected \notin DOMAIN report
    BY <1>1, <1>2, <2>2 DEF FiguresShown, UtilizationsAnswered
  <2> QED BY <2>1, <2>2
<1>3. CASE ChartUntouched
  BY <1>1, <1>3 DEF ChartUntouched, PartitionListAnswered, PartitionListFailed,
                    UtilizationsFailed, OnPartitionSelectionChanged
<1>4. CASE ChartAlone
  BY <1>1, <1>4, PointerStep DEF ChartAlone, Chart!WindowResized
<1>5. CASE UNCHANGED tileVars
  BY <1>1, <1>5 DEF tileVars, figuresVars
<1> QED BY <1>2, <1>3, <1>4, <1>5 DEF TileNext

\* The chart leaves out no resource type that is used more than one it draws, in
\* every state for its colours and once nothing is in flight for its figures
\* (fetchBarChartData, calculateAvgUtilization and generateColorMapping).
THEOREM MostUsedTypesAreShown == TileSpec => []MostUsedShown
<1>1. ASSUME SeriesOfAnAnswer, InputIsOfSelection PROVE MostUsedShown
  <2>1. /\ Len(barChartDataSets) <= MaxShown
        /\ \A i \in DOMAIN barChartDataSets :
             barChartDataSets[i].type \in Types /\ barChartDataSets[i].color \in 0..Palette - 1
    <3>1. CASE barChartDataSets = <<>>
      <4>1. Len(<<>>) = 0 /\ DOMAIN <<>> = {} /\ MaxShown \in Nat
        BY ConstantsAssumption DEF ConstantsAssumption
      <4> QED BY <3>1, <4>1
    <3>2. CASE \E figures \in Figures : barChartDataSets = DataSets(figures)
      BY <3>2, ChartOfFigures DEF MostUsedOf
    <3> QED BY <1>1, <3>1, <3>2 DEF SeriesOfAnAnswer
  <2>2. ASSUME figureCalls = 0, partitionSelected \in DOMAIN lastReport
        PROVE  MostUsedOf(lastReport[partitionSelected], barChartDataSets)
    <3>1. barChartDataSets = DataSets(lastReport[partitionSelected])
      BY <1>1, <2>2 DEF InputIsOfSelection
    <3>2. lastReport \in Reports
      <4>1. DOMAIN <<>> = {}
        OBVIOUS
      <4> QED BY <1>1, <2>2, <4>1 DEF InputIsOfSelection, FiguresTypeOK
    <3>3. lastReport[partitionSelected] \in Figures
      BY <2>2, <3>2 DEF Figures
    <3> QED BY <3>1, <3>3, ChartOfFigures
  <2> QED BY <2>1, <2>2 DEF MostUsedShown, MostUsedOf
<1>2. TileInit => SeriesOfAnAnswer
  BY DEF TileInit, FiguresInit, SeriesOfAnAnswer
<1>3. SeriesOfAnAnswer /\ (InputIsOfSelection /\ ChartOfTile) /\ [TileNext]_tileVars => SeriesOfAnAnswer'
  BY SeriesStep
<1> QED BY <1>1, <1>2, <1>3, TileInvariant, PTL DEF TileSpec
-----------------------------------------------------------------------------
(* Resources and usage: every value reported is of the right kind *)

\* What the scheduler may report: whatever it sent last is of the right kind.
ReportedTyped ==
  /\ reported.amount \in Nat
  /\ reported.resource \subseteq Keys
  /\ reported.usage \in Usage

LEMMA NothingReported ==
  Nothing.amount = 0 /\ Nothing.resource = {} /\ Nothing.usage \in Usage
<1>1. DOMAIN NoUsage = {} /\ NoUsage \in [{} -> Usages]
  BY DEF NoUsage
<1> QED BY <1>1 DEF Nothing, Usage

LEMMA ReportedStep ==
  ASSUME ReportedTyped, [AnswersNext]_<<answer, reported>>
  PROVE  ReportedTyped'
<1>1. CASE UNCHANGED reported
  BY <1>1 DEF ReportedTyped
<1>2. CASE reported' = Nothing
  BY <1>2, NothingReported DEF ReportedTyped
<1>3. ASSUME NEW v \in Amounts, ReportAmount(v) PROVE ReportedTyped'
  <2>1. /\ reported'.amount = v
        /\ reported'.resource = Nothing.resource /\ reported'.usage = Nothing.usage
    BY <1>3 DEF ReportAmount, Nothing
  <2>2. v \in Nat
    BY FormatsAssumption DEF FormatsAssumption
  <2> QED BY <2>1, <2>2, NothingReported DEF ReportedTyped
<1>4. ASSUME NEW keys \in SUBSET Keys, ReportResource(keys) PROVE ReportedTyped'
  <2>1. /\ reported'.amount = Nothing.amount
        /\ reported'.resource = keys /\ reported'.usage = Nothing.usage
    BY <1>4 DEF ReportResource, Nothing
  <2> QED BY <2>1, NothingReported DEF ReportedTyped
<1>5. ASSUME NEW u \in Usage, ReportUsage(u) PROVE ReportedTyped'
  <2>1. /\ reported'.amount = Nothing.amount
        /\ reported'.resource = Nothing.resource /\ reported'.usage = u
    BY <1>5 DEF ReportUsage, Nothing
  <2> QED BY <2>1, NothingReported DEF ReportedTyped
<1> QED BY <1>1, <1>2, <1>3, <1>4, <1>5 DEF AnswersNext, FormatsNext, ReportAgain

LEMMA ReportedInvariant == AnswersSpec => []ReportedTyped
<1>1. AnswersInit => ReportedTyped
  BY NothingReported DEF AnswersInit, FormatsInit, ReportedTyped
<1> QED BY <1>1, ReportedStep, PTL DEF AnswersSpec

LEMMA UsageOfKeys ==
  ASSUME NEW u \in Usage
  PROVE  /\ DOMAIN u \subseteq UsageKeys
         /\ \A k \in DOMAIN u : u[k] \in Nat
<1>1. PICK S \in SUBSET UsageKeys : u \in [S -> Usages]
  BY DEF Usage
<1> QED BY <1>1, FormatsAssumption DEF FormatsAssumption

\* The most used of the two is what one of them is cut to, and neither is cut to
\* more.
LEMMA MostUsed ==
  ASSUME NEW u \in Usage
  PROVE  LET most == AbsUsagePercent(u) IN
         /\ most <= 100
         /\ \A k \in DOMAIN u : u[k] <= most \/ most = 100
         /\ \/ DOMAIN u = {} /\ most = 0
            \/ \E k \in DOMAIN u : u[k] = most \/ (most = 100 /\ u[k] > 100)
<1>1. DOMAIN u \subseteq {"memory", "vcore"} /\ \A k \in DOMAIN u : u[k] \in Nat
  BY UsageOfKeys DEF UsageKeys
<1> DEFINE most == Greater(Used(u, "memory"), Used(u, "vcore"))
<1>2. /\ most \in Nat
      /\ \A k \in DOMAIN u : u[k] <= most
      /\ (DOMAIN u = {} /\ most = 0) \/ \E k \in DOMAIN u : u[k] = most
  <2> DEFINE m == Used(u, "memory")
             v == Used(u, "vcore")
  <2>1. /\ IF "memory" \in DOMAIN u THEN m = u["memory"] ELSE m = 0
        /\ IF "vcore" \in DOMAIN u THEN v = u["vcore"] ELSE v = 0
    BY DEF Used
  <2>2. m \in Nat /\ v \in Nat
    BY <1>1, <2>1
  <2>3. most = (IF m < v THEN v ELSE m)
    BY DEF Greater
  <2> HIDE DEF m, v, most
  <2>4. most \in Nat /\ m <= most /\ v <= most /\ most \in {m, v}
    BY <2>2, <2>3
  <2>5. \A k \in DOMAIN u : u[k] <= most
    BY <1>1, <2>1, <2>4
  <2>6. (DOMAIN u = {} /\ most = 0) \/ \E k \in DOMAIN u : u[k] = most
    <3>1. CASE DOMAIN u = {}
      BY <2>1, <2>4, <3>1
    <3>2. CASE most = 0 /\ DOMAIN u # {}
      <4>1. \A k \in DOMAIN u : u[k] \in Nat /\ u[k] <= 0
        BY <1>1, <2>5, <3>2
      <4>2. \A n \in Nat : n <= 0 => n = 0
        OBVIOUS
      <4> QED BY <3>2, <4>1, <4>2
    <3>3. CASE most # 0
      BY <2>1, <2>4, <3>3
    <3> QED BY <3>1, <3>2, <3>3
  <2> QED BY <2>4, <2>5, <2>6
<1>3. AbsUsagePercent(u) = IF most < 100 THEN most ELSE 100
  BY DEF AbsUsagePercent
<1> HIDE DEF most
<1>4. /\ AbsUsagePercent(u) <= 100
      /\ \A k \in DOMAIN u : u[k] <= AbsUsagePercent(u) \/ AbsUsagePercent(u) = 100
  BY <1>1, <1>2, <1>3
<1>5. CASE DOMAIN u = {} /\ most = 0
  <2>1. AbsUsagePercent(u) = 0
    BY <1>3, <1>5
  <2> QED BY <1>4, <1>5, <2>1
<1>6. ASSUME NEW k \in DOMAIN u, u[k] = most
      PROVE  u[k] = AbsUsagePercent(u) \/ (AbsUsagePercent(u) = 100 /\ u[k] > 100)
  BY <1>1, <1>2, <1>3, <1>6
<1> QED BY <1>2, <1>4, <1>5, <1>6

\* What a column shows of the usage.
LEMMA ColumnShows ==
  ASSUME NEW u \in Usage, NEW k \in UsageKeys
  PROVE  /\ UsageColumn(u, k).text = "percent" <=> k \in DOMAIN u /\ u[k] <= 100
         /\ UsageColumn(u, k).text = "n/a" <=> DOMAIN u = {}
         /\ UsageColumn(u, k).text = "wrong format" <=>
              DOMAIN u # {} /\ ~(k \in DOMAIN u /\ u[k] <= 100)
         /\ k \in DOMAIN u /\ u[k] <= 100 => UsageColumn(u, k).percent = u[k]
BY DEF UsageColumn

\* The rack and the two columns of the diagram agree for any usage reported
\* (absUsagePercent of the scheduler service; formatPercent and the column
\* formatters of CommonUtil).
THEOREM RacksAgreeWithDiagram == AnswersSpec => []RackAgreesWithDiagram
<1>1. ASSUME NEW u \in Usage
      PROVE  LET read == {k \in UsageKeys : UsageColumn(u, k).text = "percent"} IN
             /\ \A k \in read : UsageColumn(u, k).percent <= AbsUsagePercent(u)
             /\ \/ \E k \in read : UsageColumn(u, k).percent = AbsUsagePercent(u)
                \/ AbsUsagePercent(u) = 0 /\ \A k \in UsageKeys : UsageColumn(u, k).text = "n/a"
                \/ AbsUsagePercent(u) = 100
                     /\ \E k \in UsageKeys : UsageColumn(u, k).text = "wrong format"
  <2> DEFINE rack == AbsUsagePercent(u)
             read == {k \in UsageKeys : UsageColumn(u, k).text = "percent"}
  <2>1. DOMAIN u \subseteq UsageKeys /\ \A k \in DOMAIN u : u[k] \in Nat
    BY UsageOfKeys
  <2>2. \A k \in UsageKeys :
          /\ k \in read <=> k \in DOMAIN u /\ u[k] <= 100
          /\ k \in read => UsageColumn(u, k).percent = u[k]
    BY ColumnShows
  <2>3. /\ rack <= 100
        /\ \A k \in DOMAIN u : u[k] <= rack \/ rack = 100
        /\ (DOMAIN u = {} /\ rack = 0) \/ \E k \in DOMAIN u : u[k] = rack \/ (rack = 100 /\ u[k] > 100)
    BY MostUsed
  <2>4. \A k \in read : UsageColumn(u, k).percent <= rack
    BY <2>1, <2>2, <2>3
  <2>5. CASE DOMAIN u = {} /\ rack = 0
    BY <2>4, <2>5, ColumnShows
  <2> HIDE DEF rack, read
  <2>6. ASSUME NEW k \in DOMAIN u, u[k] = rack \/ (rack = 100 /\ u[k] > 100)
        PROVE  /\ k \in UsageKeys
               /\ \/ k \in read /\ UsageColumn(u, k).percent = rack
                  \/ rack = 100 /\ UsageColumn(u, k).text = "wrong format"
    <3> k \in UsageKeys /\ u[k] \in Nat
      BY <2>1, <2>6
    <3>1. CASE u[k] <= 100
      <4>1. u[k] = rack
        BY <2>6, <3>1
      <4>2. k \in read /\ UsageColumn(u, k).percent = u[k]
        BY <2>2, <2>6, <3>1
      <4> QED BY <4>1, <4>2
    <3>2. CASE u[k] > 100
      <4>1. rack = 100
        BY <2>3, <2>6, <3>2
      <4>2. UsageColumn(u, k).text = "wrong format"
        <5>1. DOMAIN u # {} /\ ~(u[k] <= 100)
          BY <2>6, <3>2
        <5> QED BY <5>1, ColumnShows
      <4> QED BY <4>1, <4>2
    <3>3. u[k] <= 100 \/ u[k] > 100
      OBVIOUS
    <3> QED BY <3>1, <3>2, <3>3
  <2>7. CASE \E k \in DOMAIN u : u[k] = rack \/ (rack = 100 /\ u[k] > 100)
    <3>1. \/ \E k \in read : UsageColumn(u, k).percent = rack
          \/ rack = 100 /\ \E k \in UsageKeys : UsageColumn(u, k).text = "wrong format"
      <4>1. PICK k \in DOMAIN u : u[k] = rack \/ (rack = 100 /\ u[k] > 100)
        BY <2>7
      <4>2. /\ k \in UsageKeys
            /\ \/ k \in read /\ UsageColumn(u, k).percent = rack
               \/ rack = 100 /\ UsageColumn(u, k).text = "wrong format"
        BY <2>6, <4>1
      <4> QED BY <4>2
    <3> QED BY <2>4, <3>1 DEF rack, read
  <2> QED BY <2>3, <2>5, <2>7
<1>2. ReportedTyped => RackAgreesWithDiagram
  BY <1>1 DEF ReportedTyped, RackAgreesWithDiagram
<1> QED BY <1>2, ReportedInvariant, PTL

\* What comes before every other element is the first of the list, and what
\* comes before all but that one the second.
LEMMA FirstOfSorted ==
  ASSUME NEW S, IsFiniteSet(S), NEW R, StrictOrder(S, R),
         NEW x \in S, \A y \in S : y # x => <<x, y>> \in R
  PROVE  1 \in 1..Cardinality(S) /\ Sorted(S, R)[1] = x
<1>1. PICK i \in 1..Cardinality(S) : Sorted(S, R)[i] = x
  BY SortedInOrder
<1>2. /\ Cardinality(S) \in Nat
      /\ \A j, k \in 1..Cardinality(S) : j < k => <<Sorted(S, R)[j], Sorted(S, R)[k]>> \in R
      /\ \A j \in 1..Cardinality(S) : Sorted(S, R)[j] \in S
  BY SortedInOrder
<1>3. 1 \in 1..Cardinality(S)
  BY <1>1, <1>2
<1>4. ASSUME i # 1 PROVE FALSE
  <2>1. Sorted(S, R)[1] \in S /\ <<Sorted(S, R)[1], x>> \in R
    BY <1>1, <1>2, <1>3, <1>4
  <2> QED BY <2>1 DEF StrictOrder
<1> QED BY <1>1, <1>3, <1>4

LEMMA SecondOfSorted ==
  ASSUME NEW S, IsFiniteSet(S), NEW R, StrictOrder(S, R),
         NEW x \in S, \A y \in S : y # x => <<x, y>> \in R,
         NEW z \in S, z # x, \A y \in S : y \notin {x, z} => <<z, y>> \in R
  PROVE  2 \in 1..Cardinality(S) /\ Sorted(S, R)[2] = z
<1>1. PICK i \in 1..Cardinality(S) : Sorted(S, R)[i] = z
  BY SortedInOrder
<1>2. /\ Cardinality(S) \in Nat
      /\ \A j, k \in 1..Cardinality(S) : j < k => <<Sorted(S, R)[j], Sorted(S, R)[k]>> \in R
      /\ \A j \in 1..Cardinality(S) : Sorted(S, R)[j] \in S
  BY SortedInOrder
<1>3. 1 \in 1..Cardinality(S) /\ Sorted(S, R)[1] = x
  BY FirstOfSorted
<1>4. i > 1 /\ 2 \in 1..Cardinality(S)
  BY <1>1, <1>2, <1>3
<1>5. ASSUME i # 2 PROVE FALSE
  <2>1. 2 < i /\ 1 < 2
    BY <1>4, <1>5
  <2>2. /\ Sorted(S, R)[2] \in S /\ <<Sorted(S, R)[2], z>> \in R
        /\ <<x, Sorted(S, R)[2]>> \in R
    BY <1>1, <1>2, <1>3, <1>4, <2>1
  <2>3. Sorted(S, R)[2] \notin {x, z}
    BY <2>2 DEF StrictOrder
  <2> QED BY <2>2, <2>3 DEF StrictOrder
<1> QED BY <1>1, <1>4, <1>5

\* The order of formatResource.
KeyPairs(keys) == {pair \in keys \X keys : ResourcesCompare(pair[1], pair[2])}

LEMMA KeyPair == ASSUME NEW keys, NEW a \in keys, NEW b \in keys
                 PROVE  <<a, b>> \in KeyPairs(keys) <=> ResourcesCompare(a, b)
BY DEF KeyPairs

LEMMA PlaceFound == \A k \in Keys : PlaceOf(k) \in Nat /\ KeyOrder[PlaceOf(k)] = k
<1>1. \A k \in Keys : \E i \in DOMAIN KeyOrder : KeyOrder[i] = k
  BY DEF Keys, ToSet
<1>2. DOMAIN KeyOrder \subseteq Nat
  BY FormatsAssumption DEF FormatsAssumption
<1> QED BY <1>1, <1>2 DEF PlaceOf

LEMMA KeysInOrder ==
  ASSUME NEW keys, keys \subseteq Keys
  PROVE  IsFiniteSet(keys) /\ StrictOrder(keys, KeyPairs(keys))
<1>1. IsFiniteSet(keys)
  <2>1. KeyOrder \in Seq(Keys)
    BY FormatsAssumption DEF FormatsAssumption
  <2>2. DOMAIN KeyOrder = 1..Len(KeyOrder) /\ Len(KeyOrder) \in Nat
    BY <2>1
  <2>3. KeyOrder \in Surjection(1..Len(KeyOrder), Keys)
    BY <2>1, <2>2 DEF Surjection, Keys, ToSet
  <2>4. IsFiniteSet(Keys)
    BY <2>2, <2>3, FS_Interval, FS_Surjection
  <2> QED BY <2>4, FS_Subset
<1>2. \A k \in keys : Rank(k) \in 1..5
  BY DEF Rank
<1>3. /\ \A k \in keys : PlaceOf(k) \in Nat
      /\ \A a, b \in keys : PlaceOf(a) = PlaceOf(b) => a = b
  BY PlaceFound
<1>4. \A a \in keys : ~ResourcesCompare(a, a)
  BY <1>2, <1>3 DEF ResourcesCompare
<1>5. \A a, b \in keys : a # b => ResourcesCompare(a, b) \/ ResourcesCompare(b, a)
  BY <1>2, <1>3 DEF ResourcesCompare
<1>6. \A a, b, c \in keys : ResourcesCompare(a, b) /\ ResourcesCompare(b, c) => ResourcesCompare(a, c)
  BY <1>2, <1>3 DEF ResourcesCompare
<1>7. StrictOrder(keys, KeyPairs(keys))
  <2>1. \A a, b \in keys : <<a, b>> \in KeyPairs(keys) <=> ResourcesCompare(a, b)
    BY KeyPair
  <2> QED BY <1>4, <1>5, <1>6, <2>1, Zenon DEF StrictOrder
<1> QED BY <1>1, <1>7

\* Memory comes first, then CPU.
LEMMA MemoryThenCpu ==
  ASSUME NEW keys, keys \subseteq Keys
  PROVE  LET lines == FormatResource(keys) IN
         /\ "memory" \in keys => lines[1] = "memory"
         /\ "memory" \notin keys /\ "vcore" \in keys => lines[1] = "vcore"
         /\ "memory" \in keys /\ "vcore" \in keys => lines[2] = "vcore"
         /\ lines = <<"n/a">> \/ lines \in Seq(keys)
         /\ "memory" \in keys \/ "vcore" \in keys => Len(lines) > 0
         /\ "memory" \in keys /\ "vcore" \in keys => Len(lines) > 1
<1> DEFINE R == KeyPairs(keys)
<1>1. keys # {} => FormatResource(keys) = Sorted(keys, R)
  BY DEF FormatResource, KeyPairs
<1>2. IsFiniteSet(keys) /\ StrictOrder(keys, R)
  BY KeysInOrder
<1>3. keys = {} => FormatResource(keys) = <<"n/a">>
  BY DEF FormatResource
<1>4. \A k \in keys : /\ k # "memory" => ResourcesCompare("memory", k)
                      /\ k \notin {"memory", "vcore"} => ResourcesCompare("vcore", k)
  BY DEF ResourcesCompare, Rank
<1>5. \A a, b \in keys : <<a, b>> \in R <=> ResourcesCompare(a, b)
  BY KeyPair
<1>6. /\ Cardinality(keys) \in Nat /\ Sorted(keys, R) \in Seq(keys)
      /\ Len(Sorted(keys, R)) = Cardinality(keys)
  BY <1>2, SortedInOrder
<1> HIDE DEF R
<1>7. ASSUME "memory" \in keys
      PROVE  Cardinality(keys) > 0 /\ Sorted(keys, R)[1] = "memory"
  <2>1. \A k \in keys : k # "memory" => <<"memory", k>> \in R
    BY <1>4, <1>5, <1>7
  <2>2. 1 \in 1..Cardinality(keys) /\ Sorted(keys, R)[1] = "memory"
    BY <1>2, <1>7, <2>1, FirstOfSorted
  <2> QED BY <1>6, <2>2
<1>8. ASSUME "memory" \notin keys, "vcore" \in keys
      PROVE  Cardinality(keys) > 0 /\ Sorted(keys, R)[1] = "vcore"
  <2>1. \A k \in keys : k # "vcore" => <<"vcore", k>> \in R
    BY <1>4, <1>5, <1>8
  <2>2. 1 \in 1..Cardinality(keys) /\ Sorted(keys, R)[1] = "vcore"
    BY <1>2, <1>8, <2>1, FirstOfSorted
  <2> QED BY <1>6, <2>2
<1>9. ASSUME "memory" \in keys, "vcore" \in keys
      PROVE  Cardinality(keys) > 1 /\ Sorted(keys, R)[2] = "vcore"
  <2>1. /\ \A k \in keys : k # "memory" => <<"memory", k>> \in R
        /\ \A k \in keys : k \notin {"memory", "vcore"} => <<"vcore", k>> \in R
    BY <1>4, <1>5, <1>9
  <2>2. "vcore" # "memory"
    OBVIOUS
  <2>3. 2 \in 1..Cardinality(keys) /\ Sorted(keys, R)[2] = "vcore"
    BY <1>2, <1>9, <2>1, <2>2, SecondOfSorted
  <2> QED BY <1>6, <2>3
<1>10. keys = {} => "memory" \notin keys /\ "vcore" \notin keys
  OBVIOUS
<1> QED BY <1>1, <1>3, <1>6, <1>7, <1>8, <1>9, <1>10

LEMMA Prepended ==
  ASSUME NEW S, NEW line \in S, NEW rest \in Seq(S)
  PROVE  /\ <<line>> \o rest \in Seq(S) /\ Len(<<line>> \o rest) = Len(rest) + 1
         /\ (<<line>> \o rest)[1] = line
         /\ Len(rest) > 0 => (<<line>> \o rest)[2] = rest[1]
<1>1. <<line>> \in Seq(S) /\ Len(<<line>>) = 1 /\ <<line>>[1] = line
  OBVIOUS
<1>2. Len(rest) \in Nat
  OBVIOUS
<1>3. /\ <<line>> \o rest \in Seq(S) /\ Len(<<line>> \o rest) = 1 + Len(rest)
      /\ \A i \in 1..(1 + Len(rest)) :
           (<<line>> \o rest)[i] = IF i <= 1 THEN <<line>>[i] ELSE rest[i - 1]
  BY <1>1, ConcatProperties
<1>4. (<<line>> \o rest)[1] = line
  BY <1>1, <1>2, <1>3
<1>5. Len(rest) > 0 => (<<line>> \o rest)[2] = rest[1]
  BY <1>2, <1>3
<1> QED BY <1>2, <1>3, <1>4, <1>5

LEMMA OneLine ==
  ASSUME NEW S, NEW line \in S
  PROVE  <<line>> \in Seq(S)
OBVIOUS

LEMMA MoreLines ==
  ASSUME NEW S, NEW T, S \subseteq T, NEW s \in Seq(S)
  PROVE  s \in Seq(T)
OBVIOUS

\* The first two lines of a cell.
LEMMA CellLines ==
  ASSUME NEW keys, keys \subseteq Keys, keys \cap (NamedCpu \cup NamedMemory) \subseteq UsageKeys
  PROVE  LET cell == Cell(keys) IN
         /\ \E i \in {1, 2} : AboutMemory(cell[i]) /\ AboutCpu(cell[3 - i])
         /\ "memory" \in keys /\ "vcore" \notin keys => cell[1] = "CPU: n/a"
         /\ ~("memory" \in keys /\ "vcore" \notin keys) => AboutMemory(cell[1])
         /\ \E T : cell \in Seq(T)
         /\ Len(cell) > 1
<1> DEFINE lines == FormatResource(keys)
           cell == Cell(keys)
           noMemory == "Memory: n/a"
           noCpu == "CPU: n/a"
           memory == "memory"
           cpu == "vcore"
           S == keys \cup {"n/a", noMemory, noCpu}
<1>1. /\ keys \cap NamedMemory = {} <=> memory \notin keys
      /\ keys \cap NamedCpu = {} <=> cpu \notin keys
  BY FormatsAssumption DEF FormatsAssumption, UsageKeys
<1>2. /\ memory \in keys => lines[1] = memory
      /\ memory \notin keys /\ cpu \in keys => lines[1] = cpu
      /\ memory \in keys /\ cpu \in keys => lines[2] = cpu
      /\ memory \in keys \/ cpu \in keys => Len(lines) > 0
      /\ memory \in keys /\ cpu \in keys => Len(lines) > 1
  BY MemoryThenCpu
<1>3. lines \in Seq(S)
  <2>1. lines = <<"n/a">> \/ lines \in Seq(keys)
    BY MemoryThenCpu
  <2>2. "n/a" \in S /\ keys \subseteq S
    OBVIOUS
  <2> HIDE DEF S, lines
  <2> QED BY <2>1, <2>2, OneLine, MoreLines
<1>4. AboutMemory(memory) /\ AboutMemory(noMemory) /\ AboutCpu(cpu) /\ AboutCpu(noCpu)
  BY FormatsAssumption DEF FormatsAssumption, AboutMemory, AboutCpu
<1>5. noCpu \in S /\ noMemory \in S
  OBVIOUS
<1>6. cell = (IF memory \notin keys THEN <<noMemory>> ELSE <<>>)
               \o (IF cpu \notin keys THEN <<noCpu>> ELSE <<>>) \o lines
  BY <1>1 DEF Cell
<1>7. <<>> \in Seq(S) /\ \A s \in Seq(S) : <<>> \o s = s /\ s \o <<>> = s
  BY ConcatEmptySeq
<1> HIDE DEF lines, S, cell, noMemory, noCpu, memory, cpu
<1>8. <<noCpu>> \in Seq(S) /\ <<noMemory>> \in Seq(S)
  BY <1>5, OneLine
<1>9. /\ \/ AboutMemory(cell[1]) /\ AboutCpu(cell[2])
         \/ AboutMemory(cell[2]) /\ AboutCpu(cell[1])
      /\ memory \in keys /\ cpu \notin keys => cell[1] = noCpu
      /\ ~(memory \in keys /\ cpu \notin keys) => AboutMemory(cell[1])
      /\ cell \in Seq(S) /\ Len(cell) > 1
  <2> Len(lines) \in Nat
    BY <1>3
  <2>1. CASE memory \in keys /\ cpu \in keys
    <3>1. cell = lines
      BY <1>3, <1>6, <1>7, <2>1
    <3> QED BY <1>2, <1>3, <1>4, <2>1, <3>1
  <2>2. CASE memory \in keys /\ cpu \notin keys
    <3>1. cell = <<noCpu>> \o lines
      BY <1>6, <1>7, <1>8, <2>2
    <3>2. cell[1] = noCpu /\ cell[2] = memory /\ cell \in Seq(S) /\ Len(cell) > 1
      BY <1>2, <1>3, <1>5, <2>2, <3>1, Prepended
    <3> QED BY <1>4, <2>2, <3>2
  <2>3. CASE memory \notin keys /\ cpu \in keys
    <3>1. cell = <<noMemory>> \o lines
      BY <1>6, <1>7, <1>8, <2>3
    <3>2. cell[1] = noMemory /\ cell[2] = cpu /\ cell \in Seq(S) /\ Len(cell) > 1
      BY <1>2, <1>3, <1>5, <2>3, <3>1, Prepended
    <3> QED BY <1>4, <2>3, <3>2
  <2>4. CASE memory \notin keys /\ cpu \notin keys
    <3> DEFINE rest == <<noCpu>> \o lines
    <3>1. cell = <<noMemory>> \o rest
      BY <1>3, <1>6, <1>8, <2>4, ConcatAssociative
    <3>2. rest \in Seq(S) /\ Len(rest) = Len(lines) + 1 /\ rest[1] = noCpu
      BY <1>3, <1>5, Prepended
    <3> HIDE DEF rest
    <3>3. Len(lines) \in Nat
      BY <1>3
    <3>4. Len(rest) > 0
      BY <3>2, <3>3
    <3>5. cell[1] = noMemory /\ cell[2] = noCpu /\ cell \in Seq(S) /\ Len(cell) > 1
      BY <1>5, <3>1, <3>2, <3>4, Prepended
    <3> QED BY <1>4, <2>4, <3>5
  <2> QED BY <2>1, <2>2, <2>3, <2>4
<1>10. 3 - 1 = 2 /\ 3 - 2 = 1
  OBVIOUS
<1>11. \E T : cell \in Seq(T)
  BY <1>9
<1> QED BY <1>9, <1>10, <1>11 DEF cell, memory, cpu, noCpu

\* Folded, a cell keeps those of its first two lines its table has room for.
LEMMA FoldedLine ==
  ASSUME NEW keys, NEW T, Cell(keys) \in Seq(T), Len(Cell(keys)) > 1, NEW table \in Tables
  PROVE  /\ Folded(keys, table)[1] = Cell(keys)[1]
         /\ table # "allocations" => Folded(keys, table)[2] = Cell(keys)[2]
<1> DEFINE cell == Cell(keys)
           n == FoldedLines(table)
<1>1. n \in 1..2 /\ (table # "allocations" => n = 2)
  BY DEF FoldedLines
<1>2. Folded(keys, table) = SubSeq(cell, 1, n)
  BY DEF Folded
<1>3. cell \in Seq(T) /\ Len(cell) > 1 /\ Len(cell) \in Nat
  OBVIOUS
<1> HIDE DEF cell, n
<1>4. \A i \in 1..n : SubSeq(cell, 1, n)[i] = cell[i]
  BY <1>1, <1>3
<1> QED BY <1>1, <1>2, <1>4 DEF cell

\* What a folded cell shows, for any resource types and any of them reported
\* (formatResource, the formatResources of the tables and their templates).
THEOREM FoldedCellsShow == AnswersSpec => []FoldedCells
<1>1. ASSUME NEW keys, keys \subseteq Keys,
             keys \cap (NamedCpu \cup NamedMemory) \subseteq UsageKeys, NEW table \in Tables
      PROVE  IF table # "allocations"
             THEN \E i \in {1, 2} :
                    AboutMemory(Folded(keys, table)[i]) /\ AboutCpu(Folded(keys, table)[3 - i])
             ELSE IF "memory" \in keys /\ "vcore" \notin keys
                  THEN Folded(keys, table)[1] = "CPU: n/a"
             ELSE AboutMemory(Folded(keys, table)[1])
  <2>1. PICK T : Cell(keys) \in Seq(T)
    BY <1>1, CellLines
  <2>2. Len(Cell(keys)) > 1
    BY <1>1, CellLines
  <2>3. /\ Folded(keys, table)[1] = Cell(keys)[1]
        /\ table # "allocations" => Folded(keys, table)[2] = Cell(keys)[2]
    BY <2>1, <2>2, FoldedLine
  <2>4. \A i \in {1, 2} : 3 - i \in {1, 2} /\ (i = 1 => 3 - i = 2) /\ (i = 2 => 3 - i = 1)
    OBVIOUS
  <2>5. CASE table # "allocations"
    <3>1. PICK i \in {1, 2} : AboutMemory(Cell(keys)[i]) /\ AboutCpu(Cell(keys)[3 - i])
      BY <1>1, CellLines
    <3>2. Folded(keys, table)[i] = Cell(keys)[i] /\ Folded(keys, table)[3 - i] = Cell(keys)[3 - i]
      BY <2>3, <2>4, <2>5, <3>1
    <3> QED BY <2>5, <3>1, <3>2
  <2>6. CASE table = "allocations"
    BY <1>1, <2>3, <2>6, CellLines
  <2> QED BY <2>5, <2>6
<1>2. ReportedTyped => FoldedCells
  BY <1>1 DEF ReportedTyped, FoldedCells
<1> QED BY <1>2, ReportedInvariant, PTL
-----------------------------------------------------------------------------
(* Amounts: recursive functions, reasoned about through least numbers *)

\* A unit is worth Base of the one before it.
LEMMA Scales ==
  /\ Scale[0] = 1
  /\ \A u \in 1..UnitsLen : Scale[u] = Base * Scale[u - 1]
  /\ \A u \in 0..UnitsLen : Scale[u] \in Nat \ {0}
<1>1. UnitsLen \in Nat /\ Base \in Nat \ {0, 1}
  BY FormatsAssumption DEF FormatsAssumption
<1> DEFINE Eq(g) == g = [u \in 0..UnitsLen |-> IF u = 0 THEN 1 ELSE Base * g[u - 1]]
<1>2. PICK g \in [0..UnitsLen -> Nat] :
        \A u \in 0..UnitsLen : g[u] = IF u = 0 THEN 1 ELSE Base * g[u - 1]
  <2> DEFINE D == 0..UnitsLen
             F == [D -> Nat]
             height == [u \in D |-> u]
             step == [p \in D \X F |-> IF p[1] = 0 THEN 1 ELSE Base * p[2][p[1] - 1]]
  <2>1. \A u \in D : u = 0 \/ (u - 1 \in D /\ u - 1 < u)
    BY <1>1
  <2>2. \A u \in D, f \in F : step[<<u, f>>] = IF u = 0 THEN 1 ELSE Base * f[u - 1]
    OBVIOUS
  <2>3. step \in [D \X F -> Nat]
    <3>1. ASSUME NEW u \in D, NEW f \in F PROVE step[<<u, f>>] \in Nat
      <4>1. u = 0 \/ f[u - 1] \in Nat
        BY <2>1
      <4> HIDE DEF step, D, F
      <4> QED BY <1>1, <2>2, <4>1
    <3>2. step = [p \in D \X F |-> step[p]]
      OBVIOUS
    <3> HIDE DEF step, D, F
    <3>3. \A p \in D \X F : step[p] \in Nat
      BY <3>1
    <3> QED BY <3>2, <3>3
  <2>4. ASSUME NEW u \in D, NEW f \in F, NEW h \in F,
               \A r \in D : height[r] < height[u] => f[r] = h[r]
        PROVE  step[<<u, f>>] = step[<<u, h>>]
    <3>1. u = 0 \/ f[u - 1] = h[u - 1]
      BY <2>1, <2>4
    <3> HIDE DEF step, D, F
    <3> QED BY <2>2, <3>1
  <2>5. LooksBelow(D, Nat, height, step)
    <3>1. height \in [D -> 0..UnitsLen]
      OBVIOUS
    <3> HIDE DEF step, height, D
    <3> QED BY <1>1, <2>3, <2>4, <3>1 DEF LooksBelow
  <2>6. PICK g \in F : \A u \in D : g[u] = step[<<u, g>>]
    <3> HIDE DEF step, height, D
    <3> QED BY <2>5, RecursionExists
  <2>7. \A u \in D : g[u] = IF u = 0 THEN 1 ELSE Base * g[u - 1]
    <3> HIDE DEF step, D, F
    <3> QED BY <2>2, <2>6
  <2> QED BY <2>6, <2>7
<1>3. Eq(g)
  <2>1. g = [u \in 0..UnitsLen |-> g[u]]
    OBVIOUS
  <2> QED BY <1>2, <2>1
<1>4. Scale = CHOOSE h : Eq(h)
  BY DEF Scale
<1>5. Eq(Scale)
  <2> HIDE DEF Eq
  <2> QED BY <1>3, <1>4
<1>6. /\ Scale[0] = 1
      /\ \A u \in 1..UnitsLen : Scale[u] = Base * Scale[u - 1]
  <2>1. 0 \in 0..UnitsLen /\ \A u \in 1..UnitsLen : u \in 0..UnitsLen /\ u # 0
    BY <1>1
  <2> QED BY <1>5, <2>1
<1> DEFINE Bad == {u \in 0..UnitsLen : Scale[u] \notin Nat \ {0}}
<1>7. ASSUME Bad # {} PROVE FALSE
  <2>1. PICK m \in Bad : \A u \in Bad : m <= u
    <3>1. Bad \subseteq Nat
      BY <1>1
    <3> HIDE DEF Bad
    <3> QED BY <1>7, <3>1, LeastNumber
  <2>2. m \in 0..UnitsLen /\ m # 0 /\ Scale[m] \notin Nat \ {0}
    BY <1>6, <2>1
  <2>3. m \in 1..UnitsLen /\ m - 1 \in 0..UnitsLen /\ ~(m <= m - 1)
    BY <1>1, <2>2
  <2>4. m - 1 \notin Bad
    <3> HIDE DEF Bad
    <3> QED BY <2>1, <2>3
  <2>5. Scale[m - 1] \in Nat \ {0}
    BY <2>3, <2>4
  <2>6. Scale[m] = Base * Scale[m - 1]
    BY <1>6, <2>3
  <2> HIDE DEF Bad, Eq
  <2>7. Base * Scale[m - 1] \in Nat \ {0}
    BY <1>1, <2>5
  <2> QED BY <2>2, <2>6, <2>7
<1>8. \A u \in 0..UnitsLen : Scale[u] \in Nat \ {0}
  BY <1>7
<1> QED BY <1>6, <1>8

\* The division stops at unit u: less than one Base of it is left, or it is the last.
Stops(v, u) == u = UnitsLen \/ ~(v >= Scale[u + 1])

\* The unit of an amount is the first at which it stops.
FirstStop(v, from, u) ==
  u \in from..UnitsLen /\ Stops(v, u) /\ \A w \in from..(u - 1) : ~Stops(v, w)

LEMMA FirstStopExists ==
  ASSUME NEW v, NEW from \in 0..UnitsLen
  PROVE  \E u \in 0..UnitsLen : FirstStop(v, from, u)
<1>1. UnitsLen \in Nat
  BY FormatsAssumption DEF FormatsAssumption
<1> DEFINE All == {u \in from..UnitsLen : Stops(v, u)}
<1>2. All \subseteq Nat /\ All # {}
  <2>1. UnitsLen \in from..UnitsLen
    BY <1>1
  <2> QED BY <1>1, <2>1 DEF Stops
<1>3. PICK u \in All : \A w \in All : u <= w
  <2> HIDE DEF All
  <2> QED BY <1>2, LeastNumber
<1>4. u \in from..UnitsLen /\ u \in 0..UnitsLen /\ Stops(v, u)
  BY <1>1, <1>3
<1>5. ASSUME NEW w \in from..(u - 1) PROVE ~Stops(v, w)
  <2>1. w \in from..UnitsLen /\ ~(u <= w)
    BY <1>1, <1>4
  <2>2. w \notin All
    <3> HIDE DEF All
    <3> QED BY <1>3, <2>1
  <2> QED BY <2>1, <2>2
<1> QED BY <1>4, <1>5 DEF FirstStop

LEMMA FirstStopUnique ==
  ASSUME NEW v, NEW from \in 0..UnitsLen, NEW u, NEW w, FirstStop(v, from, u), FirstStop(v, from, w)
  PROVE  u = w
<1>1. UnitsLen \in Nat
  BY FormatsAssumption DEF FormatsAssumption
<1>2. /\ u \in from..UnitsLen /\ Stops(v, u) /\ \A x \in from..(u - 1) : ~Stops(v, x)
      /\ w \in from..UnitsLen /\ Stops(v, w) /\ \A x \in from..(w - 1) : ~Stops(v, x)
  BY DEF FirstStop
<1>3. ~(u \in from..(w - 1)) /\ ~(w \in from..(u - 1))
  BY <1>2
<1> QED BY <1>1, <1>2, <1>3

LEMMA UnitIsFirstStop ==
  ASSUME NEW v
  PROVE  FirstStop(v, 0, Unit(v))
<1>1. UnitsLen \in Nat /\ 0 \in 0..UnitsLen
  BY FormatsAssumption DEF FormatsAssumption
<1> DEFINE Eq(g) == g = [u \in 0..UnitsLen |->
                           IF u < UnitsLen /\ v >= Scale[u + 1] THEN g[u + 1] ELSE u]
           first == [u \in 0..UnitsLen |-> CHOOSE w \in 0..UnitsLen : FirstStop(v, u, w)]
           more == CHOOSE g : Eq(g)
<1>2. \A u \in 0..UnitsLen : first[u] \in 0..UnitsLen /\ FirstStop(v, u, first[u])
  BY FirstStopExists
<1>3. \A u \in 0..UnitsLen : u < UnitsLen /\ v >= Scale[u + 1] <=> ~Stops(v, u)
  BY <1>1 DEF Stops
<1>4. Eq(first)
  <2>1. ASSUME NEW u \in 0..UnitsLen, Stops(v, u) PROVE first[u] = u
    <3>1. FirstStop(v, u, u)
      BY <1>1, <2>1 DEF FirstStop
    <3> HIDE DEF first
    <3> QED BY <1>2, <3>1, FirstStopUnique
  <2>2. ASSUME NEW u \in 0..UnitsLen, ~Stops(v, u) PROVE first[u] = first[u + 1]
    <3>1. u + 1 \in 0..UnitsLen
      BY <1>1, <2>2 DEF Stops
    <3> HIDE DEF first
    <3>2. FirstStop(v, u + 1, first[u + 1])
      BY <1>2, <3>1
    <3>3. FirstStop(v, u, first[u + 1])
      <4>1. \A w \in u..(first[u + 1] - 1) : w = u \/ w \in (u + 1)..(first[u + 1] - 1)
        BY <1>1, <1>2, <3>1
      <4>2. first[u + 1] \in u..UnitsLen
        BY <1>1, <3>1, <3>2 DEF FirstStop
      <4> QED BY <2>2, <3>2, <4>1, <4>2 DEF FirstStop
    <3> QED BY <1>2, <3>3, FirstStopUnique
  <2>3. first = [u \in 0..UnitsLen |-> first[u]]
    OBVIOUS
  <2> HIDE DEF first
  <2> QED BY <1>3, <2>1, <2>2, <2>3
<1>5. Unit(v) = more[0]
  BY DEF Unit
<1>6. Eq(more)
  <2> HIDE DEF Eq, first
  <2> QED BY <1>4
<1> HIDE DEF first, more
<1> DEFINE Bad == {n \in 0..UnitsLen : ~FirstStop(v, UnitsLen - n, more[UnitsLen - n])}
<1>7. ASSUME Bad # {} PROVE FALSE
  <2>1. PICK m \in Bad : \A n \in Bad : m <= n
    <3>1. Bad \subseteq Nat
      BY <1>1
    <3> HIDE DEF Bad
    <3> QED BY <1>7, <3>1, LeastNumber
  <2> DEFINE u == UnitsLen - m
  <2>2. u \in 0..UnitsLen /\ m \in 0..UnitsLen /\ ~FirstStop(v, u, more[u])
    BY <1>1, <2>1
  <2> HIDE DEF Bad
  <2>3. CASE Stops(v, u)
    <3>1. more[u] = u
      BY <1>3, <1>6, <2>2, <2>3
    <3>2. FirstStop(v, u, u)
      BY <1>1, <2>2, <2>3 DEF FirstStop
    <3> QED BY <2>2, <3>1, <3>2
  <2>4. CASE ~Stops(v, u)
    <3>1. m - 1 \in 0..UnitsLen /\ u + 1 = UnitsLen - (m - 1) /\ ~(m <= m - 1) /\ u + 1 \in 0..UnitsLen
      BY <1>1, <2>2, <2>4 DEF Stops
    <3>2. m - 1 \notin Bad
      BY <2>1, <3>1
    <3>3. FirstStop(v, u + 1, more[u + 1])
      BY <3>1, <3>2 DEF Bad
    <3>4. more[u] = more[u + 1]
      BY <1>3, <1>6, <2>2, <2>4
    <3> HIDE DEF u
    <3>5. FirstStop(v, u, more[u + 1])
      <4>1. more[u + 1] \in (u + 1)..UnitsLen
        BY <3>3 DEF FirstStop
      <4>2. \A w \in u..(more[u + 1] - 1) : w = u \/ w \in (u + 1)..(more[u + 1] - 1)
        BY <1>1, <2>2, <4>1
      <4>3. more[u + 1] \in u..UnitsLen
        BY <1>1, <2>2, <4>1
      <4> QED BY <2>4, <3>3, <4>2, <4>3 DEF FirstStop
    <3> QED BY <2>2, <3>4, <3>5
  <2> QED BY <2>3, <2>4
<1>8. FirstStop(v, 0, more[0])
  <2>1. UnitsLen \notin Bad /\ UnitsLen \in 0..UnitsLen /\ UnitsLen - UnitsLen = 0
    BY <1>1, <1>7
  <2> QED BY <2>1
<1> QED BY <1>5, <1>8

LEMMA Quotient ==
  ASSUME NEW a \in Nat, NEW d \in Nat \ {0}
  PROVE  a \div d \in Nat /\ d * (a \div d) <= a /\ a < d * (a \div d) + d
OBVIOUS

LEMMA TimesMonotone ==
  ASSUME NEW a \in Nat, NEW b \in Nat, NEW c \in Nat, a <= b
  PROVE  a * c <= b * c
OBVIOUS

\* Half a hundredth up or down at most.
RoundedTo(v, scale, h) ==
  /\ h \in Nat /\ h * scale \in Nat
  /\ 2 * (h * scale) <= 200 * v + scale
  /\ 200 * v < 2 * (h * scale) + scale

LEMMA Rounded ==
  ASSUME NEW v \in Nat, NEW scale \in Nat \ {0}
  PROVE  RoundedTo(v, scale, (200 * v + scale) \div (2 * scale))
<1> DEFINE a == 200 * v + scale
           d == 2 * scale
           h == a \div d
<1>1. a \in Nat /\ d \in Nat \ {0}
  OBVIOUS
<1> HIDE DEF a, d
<1>2. h \in Nat /\ d * h <= a /\ a < d * h + d
  BY <1>1, Quotient
<1> HIDE DEF h
<1>3. d * h = 2 * (h * scale) /\ h * scale \in Nat
  BY <1>2 DEF d
<1> DEFINE read == h * scale
<1> HIDE DEF read
<1>4. 2 * read <= 200 * v + scale /\ 200 * v + scale < 2 * read + 2 * scale /\ read \in Nat
  BY <1>2, <1>3 DEF read, a, d
<1>5. 200 * v < 2 * read + scale
  BY <1>4
<1> QED BY <1>2, <1>4, <1>5 DEF RoundedTo, read, h, a, d

\* What is printed of an amount, and where its unit ends.
LEMMA PrintedAmount ==
  ASSUME NEW v \in Nat
  PROVE  LET u == Unit(v)
             h == Printed(v).hundredths
             read == h * Scale[u]
         IN /\ Printed(v).unit = u /\ u \in 0..UnitsLen
            /\ Scale[u] \in Nat \ {0} /\ h \in Nat /\ read \in Nat
            /\ 2 * read <= 200 * v + Scale[u] /\ 200 * v < 2 * read + Scale[u]
            /\ u # UnitsLen => u + 1 \in 0..UnitsLen /\ v < Scale[u + 1] /\ h <= 100 * Base
            /\ u # 0 => h >= 100
<1> DEFINE u == Unit(v)
           scale == Scale[u]
           h == Printed(v).hundredths
           read == h * scale
<1>1. UnitsLen \in Nat /\ Base \in Nat \ {0, 1}
  BY FormatsAssumption DEF FormatsAssumption
<1>2. u \in 0..UnitsLen /\ Stops(v, u) /\ \A w \in 0..(u - 1) : ~Stops(v, w)
  BY UnitIsFirstStop DEF FirstStop
<1>3. scale \in Nat \ {0}
  BY <1>2, Scales
<1>4. Printed(v).unit = u /\ h = (200 * v + scale) \div (2 * scale)
  BY DEF Printed
<1> HIDE DEF u, scale, h, read
<1>5. /\ h \in Nat /\ read \in Nat
      /\ 2 * read <= 200 * v + scale /\ 200 * v < 2 * read + scale
  <2>1. RoundedTo(v, scale, h)
    BY <1>3, <1>4, Rounded
  <2> QED BY <2>1 DEF RoundedTo, read
<1>6. ASSUME u # UnitsLen
      PROVE  u + 1 \in 0..UnitsLen /\ v < Scale[u + 1] /\ h <= 100 * Base
  <2>1. u + 1 \in 0..UnitsLen /\ u + 1 \in 1..UnitsLen /\ (u + 1) - 1 = u
    BY <1>1, <1>2, <1>6
  <2>2. Scale[u + 1] = Base * scale /\ Scale[u + 1] \in Nat
    BY <2>1, Scales DEF scale
  <2>3. v < Scale[u + 1]
    BY <1>2, <1>6, <2>2 DEF Stops
  <2>4. ASSUME h >= 100 * Base + 1 PROVE FALSE
    <3>1. (100 * Base + 1) * scale <= h * scale
      BY <1>1, <1>3, <1>5, <2>4, TimesMonotone
    <3>2. (100 * Base + 1) * scale = 100 * (Base * scale) + scale /\ Base * scale \in Nat
      BY <1>1, <1>3
    <3> DEFINE top == Base * scale
    <3> HIDE DEF top
    <3>3. 100 * top + scale <= read /\ v < top /\ top \in Nat
      BY <2>2, <2>3, <3>1, <3>2 DEF top, read
    <3> QED BY <1>3, <1>5, <3>3
  <2>5. h <= 100 * Base
    BY <1>1, <1>5, <2>4
  <2> QED BY <2>1, <2>3, <2>5
<1>7. ASSUME u # 0 PROVE h >= 100
  <2>1. u - 1 \in 0..(u - 1) /\ (u - 1) + 1 = u
    BY <1>1, <1>2, <1>7
  <2>2. v >= scale
    BY <1>2, <2>1 DEF Stops, scale
  <2>3. ASSUME h <= 99 PROVE FALSE
    <3>1. h * scale <= 99 * scale
      BY <1>3, <1>5, <2>3, TimesMonotone
    <3>2. read <= 99 * scale
      BY <3>1 DEF read
    <3> QED BY <1>3, <1>5, <2>2, <3>2
  <2> QED BY <1>5, <2>3
<1> QED BY <1>2, <1>3, <1>4, <1>5, <1>6, <1>7 DEF u, scale, h, read

\* One more never prints as less.
LEMMA PrintedMonotone ==
  ASSUME NEW v \in Nat
  PROVE  Printed(v).hundredths * Scale[Unit(v)] <= Printed(v + 1).hundredths * Scale[Unit(v + 1)]
<1> DEFINE u == Unit(v)
           w == Unit(v + 1)
           h == Printed(v).hundredths
           k == Printed(v + 1).hundredths
           read == h * Scale[u]
           next == k * Scale[w]
<1>1. UnitsLen \in Nat /\ Base \in Nat \ {0, 1}
  BY FormatsAssumption DEF FormatsAssumption
<1>2. /\ u \in 0..UnitsLen /\ Scale[u] \in Nat \ {0} /\ h \in Nat /\ read \in Nat
      /\ 2 * read <= 200 * v + Scale[u]
      /\ u # UnitsLen => u + 1 \in 0..UnitsLen /\ v < Scale[u + 1] /\ h <= 100 * Base
  BY PrintedAmount
<1>3. v + 1 \in Nat
  OBVIOUS
<1>4. /\ Scale[w] \in Nat \ {0} /\ k \in Nat /\ next \in Nat
      /\ 200 * (v + 1) < 2 * next + Scale[w]
      /\ w # 0 => k >= 100
  BY <1>3, PrintedAmount
<1>5. FirstStop(v, 0, u) /\ FirstStop(v + 1, 0, w)
  BY UnitIsFirstStop
<1> HIDE DEF u, w, h, k, read, next
<1>6. CASE w = u
  <2> DEFINE scale == Scale[u]
  <2>1. scale \in Nat \ {0} /\ read = h * scale /\ next = k * scale
    BY <1>2, <1>6 DEF read, next
  <2>2. 2 * read <= 200 * v + scale /\ 200 * (v + 1) < 2 * next + scale
    BY <1>2, <1>4, <1>6
  <2> HIDE DEF scale
  <2>3. ASSUME h >= k + 1 PROVE FALSE
    <3>1. (k + 1) * scale <= h * scale
      BY <1>2, <1>4, <2>1, <2>3, TimesMonotone
    <3>2. (k + 1) * scale = k * scale + scale
      BY <1>4, <2>1
    <3>3. next + scale <= read
      BY <2>1, <3>1, <3>2
    <3> QED BY <1>2, <1>4, <2>1, <2>2, <3>3
  <2>4. h <= k
    BY <1>2, <1>4, <2>3
  <2>5. h * scale <= k * scale
    BY <1>2, <1>4, <2>1, <2>4, TimesMonotone
  <2> QED BY <2>1, <2>5 DEF u, w, h, k, read, next
<1>7. CASE w # u
  <2>1. \A x \in 0..(u - 1) : ~Stops(v + 1, x)
    <3>1. \A x \in 0..(u - 1) : x \in 0..UnitsLen /\ x + 1 \in 0..UnitsLen
      BY <1>1, <1>2
    <3>2. \A x \in 0..(u - 1) : x # UnitsLen /\ v >= Scale[x + 1] /\ Scale[x + 1] \in Nat
      BY <1>5, <3>1, Scales DEF FirstStop, Stops
    <3> QED BY <3>2 DEF Stops
  <2>2. ~Stops(v + 1, u)
    <3>1. Stops(v + 1, u) => FirstStop(v + 1, 0, u)
      BY <1>2, <2>1 DEF FirstStop
    <3>2. 0 \in 0..UnitsLen
      BY <1>1
    <3> QED BY <1>5, <1>7, <3>1, <3>2, FirstStopUnique
  <2>3. u # UnitsLen /\ v + 1 >= Scale[u + 1]
    BY <2>2 DEF Stops
  <2>4. u + 1 \in 1..UnitsLen /\ u + 1 \in 0..UnitsLen
    BY <1>1, <1>2, <2>3
  <2>5. Scale[u + 1] = v + 1
    <3>1. Scale[u + 1] \in Nat
      BY <2>4, Scales
    <3> QED BY <1>2, <2>3, <3>1
  <2>6. Stops(v + 1, u + 1)
    <3>1. CASE u + 1 = UnitsLen
      BY <3>1 DEF Stops
    <3>2. CASE u + 1 # UnitsLen
      <4>1. u + 2 \in 1..UnitsLen /\ (u + 2) - 1 = u + 1 /\ (u + 1) + 1 = u + 2
        BY <1>1, <1>2, <2>4, <3>2
      <4>2. Scale[u + 2] = Base * (v + 1)
        BY <2>5, <4>1, Scales
      <4>3. 2 * (v + 1) <= Base * (v + 1)
        BY <1>1, <1>3, TimesMonotone
      <4>4. ~(v + 1 >= Base * (v + 1))
        <5> DEFINE top == Base * (v + 1)
        <5>1. top \in Nat
          BY <1>1
        <5> HIDE DEF top
        <5>2. 2 * (v + 1) <= top
          BY <4>3 DEF top
        <5>3. ~(v + 1 >= top)
          BY <5>1, <5>2
        <5> QED BY <5>3 DEF top
      <4> QED BY <4>1, <4>2, <4>4 DEF Stops
    <3> QED BY <3>1, <3>2
  <2>7. w = u + 1
    <3>1. \A x \in 0..u : x \in 0..(u - 1) \/ x = u
      BY <1>1, <1>2
    <3>2. (u + 1) - 1 = u
      BY <1>2
    <3>3. FirstStop(v + 1, 0, u + 1)
      BY <2>1, <2>2, <2>4, <2>6, <3>1, <3>2 DEF FirstStop
    <3>4. 0 \in 0..UnitsLen
      BY <1>1
    <3> QED BY <1>5, <3>3, <3>4, FirstStopUnique
  <2>8. k >= 100
    BY <1>2, <1>4, <2>7
  <2>9. Scale[w] = Base * Scale[u]
    <3>1. (u + 1) - 1 = u
      BY <1>2
    <3> QED BY <2>4, <2>7, <3>1, Scales
  <2>10. read <= (100 * Base) * Scale[u]
    BY <1>1, <1>2, <2>3, TimesMonotone DEF read
  <2>11. 100 * Scale[w] <= next
    BY <1>4, <2>8, TimesMonotone DEF next
  <2>12. (100 * Base) * Scale[u] = 100 * (Base * Scale[u])
    BY <1>1, <1>2
  <2>13. /\ read <= 100 * Scale[w] /\ 100 * Scale[w] <= next
         /\ read \in Nat /\ next \in Nat /\ 100 * Scale[w] \in Nat
    BY <1>2, <1>4, <2>9, <2>10, <2>11, <2>12
  <2>14. read <= next
    BY <2>13
  <2> QED BY <2>14 DEF u, w, h, k, read, next
<1> QED BY <1>6, <1>7

\* A printed amount is the reported one to half a hundredth of its unit, of which
\* there is no more than one Base, and amounts print in their order: for any base,
\* any number of prefixes and any amount (the formatters of CommonUtil).
THEOREM AmountsRead == AnswersSpec => []AmountsReadTrue
<1>1. ASSUME NEW v \in Nat
      PROVE  LET p == Printed(v)
                 q == Printed(v + 1)
                 exact == 100 * v
                 read == p.hundredths * Scale[p.unit]
             IN /\ 2 * read <= 2 * exact + Scale[p.unit] /\ 2 * exact <= 2 * read + Scale[p.unit]
                /\ p.unit = UnitsLen \/ p.hundredths <= 100 * Base
                /\ p.unit = 0 \/ p.hundredths >= 100
                /\ read <= q.hundredths * Scale[q.unit]
  <2> DEFINE u == Unit(v)
             h == Printed(v).hundredths
             read == h * Scale[u]
  <2>1. /\ Printed(v).unit = u /\ Scale[u] \in Nat \ {0} /\ read \in Nat
        /\ 2 * read <= 200 * v + Scale[u] /\ 200 * v < 2 * read + Scale[u]
        /\ u # UnitsLen => h <= 100 * Base
        /\ u # 0 => h >= 100
    BY PrintedAmount
  <2>2. v + 1 \in Nat
    OBVIOUS
  <2>3. Printed(v + 1).unit = Unit(v + 1)
    BY <2>2, PrintedAmount
  <2>4. read <= Printed(v + 1).hundredths * Scale[Unit(v + 1)]
    BY PrintedMonotone
  <2>5. 2 * read <= 2 * (100 * v) + Scale[u] /\ 2 * (100 * v) <= 2 * read + Scale[u]
    <3> HIDE DEF read, h, u
    <3> QED BY <2>1
  <2> HIDE DEF h, u
  <2> QED BY <2>1, <2>3, <2>4, <2>5 DEF h
<1>2. ReportedTyped => AmountsReadTrue
  BY <1>1 DEF ReportedTyped, AmountsReadTrue
<1> QED BY <1>2, ReportedInvariant, PTL
-----------------------------------------------------------------------------
(* Rows of the tables *)

\* What setLastStateChangeTime takes out of the log.
Newest(log) == FoldLeft(LAMBDA time, entry : IF entry > time THEN entry ELSE time, 0, log)

LEMMA GreatestIndex ==
  ASSUME NEW n \in Nat, NEW s \in SUBSET (1..n), s # {}
  PROVE  Max(s) \in s
<1> DEFINE Gaps == {n - i : i \in s}
<1>1. Gaps \subseteq Nat /\ Gaps # {}
  <2>1. \A i \in 1..n : n - i \in Nat
    OBVIOUS
  <2> QED BY <2>1
<1>2. PICK g \in Gaps : \A h \in Gaps : g <= h
  <2> HIDE DEF Gaps
  <2> QED BY <1>1, LeastNumber
<1>3. PICK i \in s : g = n - i
  BY <1>2
<1>4. \A j \in s : n - i <= n - j
  BY <1>2, <1>3
<1>5. \A j \in s : i >= j
  BY <1>4
<1> QED BY <1>5 DEF Max

\* The newest time of a log is in it, or 0, and none is newer.
LEMMA NewestIsNewest ==
  ASSUME NEW n \in Nat, NEW log \in [1..n -> Nat]
  PROVE  /\ Newest(log) \in {log[i] : i \in 1..n} \cup {0}
         /\ \A i \in 1..n : log[i] <= Newest(log)
<1> DEFINE Later(entry, time) == IF entry > time THEN entry ELSE time
           Eq(iter) == iter = [s \in SUBSET (1..n) |-> IF s = {} THEN 0
                                 ELSE Later(log[Max(s)], iter[s \ {Max(s)}])]
           iter == CHOOSE g : Eq(g)
           pick == [s \in SUBSET (1..n) |-> Max(s)]
           add == [p \in (1..n) \X Nat |-> Later(log[p[1]], p[2])]
<1>1. Newest(log) = iter[1..n]
  BY DEF Newest, FoldLeft, MapThenFoldSet
<1>2. \A s \in SUBSET (1..n) : s # {} => Max(s) \in s
  BY GreatestIndex
<1>3. IsFiniteSet(1..n)
  BY FS_Interval
<1>4. PICK g \in [SUBSET (1..n) -> Nat] : FoldEq(g, 1..n, 0, pick, add)
  <2>1. add \in [(1..n) \X Nat -> Nat]
    OBVIOUS
  <2>2. \A s \in SUBSET (1..n) : s # {} => pick[s] \in s
    BY <1>2
  <2> HIDE DEF pick, add
  <2> QED BY <1>3, <2>1, <2>2, FoldExists
<1>5. Eq(g)
  <2>1. ASSUME NEW s \in SUBSET (1..n), s # {}
        PROVE  add[<<pick[s], g[s \ {pick[s]}]>>] = Later(log[Max(s)], g[s \ {Max(s)}])
    <3>1. Max(s) \in 1..n /\ s \ {Max(s)} \in SUBSET (1..n) /\ pick[s] = Max(s)
      BY <1>2, <2>1
    <3>2. g[s \ {Max(s)}] \in Nat
      BY <3>1
    <3>3. add[<<Max(s), g[s \ {Max(s)}]>>] = Later(log[Max(s)], g[s \ {Max(s)}])
      BY <3>1, <3>2
    <3> HIDE DEF pick, add, Later
    <3> QED BY <3>1, <3>3
  <2> HIDE DEF pick, add, Later
  <2> QED BY <1>4, <2>1 DEF FoldEq
<1>6. Eq(iter)
  <2> HIDE DEF Eq
  <2> QED BY <1>5
<1> DEFINE Good == {s \in SUBSET (1..n) : /\ iter[s] \in {log[i] : i \in s} \cup {0}
                                          /\ \A i \in s : log[i] <= iter[s]}
<1>7. {} \in Good
  <2> HIDE DEF iter
  <2> QED BY <1>6
<1>8. ASSUME NEW s \in SUBSET (1..n), s # {} PROVE \E x \in s : s \ {x} \in Good => s \in Good
  <2> DEFINE last == Max(s)
             rest == s \ {last}
  <2>1. last \in s /\ log[last] \in Nat /\ s = rest \cup {last}
    BY <1>2, <1>8
  <2>2. iter[s] = Later(log[last], iter[rest])
    <3> HIDE DEF iter
    <3> QED BY <1>6, <1>8
  <2> HIDE DEF last, iter
  <2>3. ASSUME rest \in Good PROVE s \in Good
    <3>1. /\ iter[rest] \in {log[i] : i \in rest} \cup {0}
          /\ \A i \in rest : log[i] <= iter[rest]
      BY <2>3
    <3>2. iter[rest] \in Nat /\ \A i \in rest : log[i] \in Nat
      <4>1. \A i \in rest : log[i] \in Nat
        OBVIOUS
      <4> HIDE DEF rest
      <4> QED BY <3>1, <4>1
    <3> HIDE DEF rest
    <3>3. CASE log[last] > iter[rest]
      <4>1. iter[s] = log[last] /\ iter[s] \in {log[i] : i \in s}
        BY <2>1, <2>2, <3>3
      <4>2. \A i \in rest : log[i] <= log[last]
        BY <2>1, <3>1, <3>2, <3>3
      <4>3. \A i \in s : log[i] <= iter[s]
        BY <2>1, <4>1, <4>2
      <4> QED BY <4>1, <4>3
    <3>4. CASE ~(log[last] > iter[rest])
      <4>1. iter[s] = iter[rest] /\ log[last] <= iter[rest]
        BY <2>1, <2>2, <3>2, <3>4
      <4>2. iter[s] \in {log[i] : i \in s} \cup {0}
        BY <2>1, <3>1, <4>1
      <4>3. \A i \in s : log[i] <= iter[s]
        BY <2>1, <3>1, <4>1
      <4> QED BY <4>2, <4>3
    <3> QED BY <3>3, <3>4
  <2> QED BY <2>1, <2>3
<1>9. SUBSET (1..n) \subseteq Good
  <2> HIDE DEF Good
  <2>1. Inductive(Good, 1..n)
    BY <1>7, <1>8 DEF Inductive
  <2> QED BY <1>3, <2>1, FiniteInduction
<1>10. 1..n \in Good
  BY <1>9
<1> HIDE DEF iter
<1> QED BY <1>1, <1>10

\* An answer has the shape of what it is about.
AnswerTyped ==
  /\ answer.of = "queues" => \E n \in Nat \ {0} : answer.data \in Trees(n)
  /\ answer.of = "application" => answer.data \in AppAnswers
  /\ answer.of = "node" => answer.data \in NodeAnswers

LEMMA AnswerStep ==
  ASSUME AnswerTyped, [AnswersNext]_<<answer, reported>>
  PROVE  AnswerTyped'
<1>1. CASE UNCHANGED answer
  BY <1>1 DEF AnswerTyped
<1>2. CASE FetchAgain
  BY <1>2 DEF FetchAgain, NoAnswer, AnswerTyped
<1>3. CASE FetchSchedulerQueues
  <2>1. PICK n \in 1..MaxQueues : \E t \in Trees(n) : answer' = [of |-> "queues", data |-> t]
    BY <1>3 DEF FetchSchedulerQueues
  <2>2. n \in Nat \ {0}
    BY AnswersAssumption DEF AnswersAssumption
  <2> QED BY <2>1, <2>2 DEF AnswerTyped
<1>4. CASE FetchAppList
  BY <1>4 DEF FetchAppList, AnswerTyped
<1>5. CASE FetchNodeList
  BY <1>5 DEF FetchNodeList, AnswerTyped
<1> QED BY <1>1, <1>2, <1>3, <1>4, <1>5 DEF AnswersNext

LEMMA AnswerInvariant == AnswersSpec => []AnswerTyped
<1>1. AnswersInit => AnswerTyped
  BY DEF AnswersInit, NoAnswer, AnswerTyped
<1> QED BY <1>1, AnswerStep, PTL DEF AnswersSpec

LEMMA LogShown ==
  ASSUME NEW a \in AppAnswers
  PROVE  LET shown == AppInfo(a).lastStateChangeTime IN
         /\ shown \in ToSet(a.stateLog) \cup {0}
         /\ \A time \in ToSet(a.stateLog) : time <= shown
<1>1. a.stateLog \in Logs
  BY DEF AppAnswers
<1>2. PICK n \in Nat : a.stateLog \in [1..n -> Times]
  BY <1>1, AnswersAssumption DEF Logs, BoundedSeq, SeqOf, AnswersAssumption
<1>3. a.stateLog \in [1..n -> Nat]
  BY <1>2, AnswersAssumption DEF AnswersAssumption
<1>4. AppInfo(a).lastStateChangeTime = Newest(a.stateLog)
  BY DEF AppInfo, SetLastStateChangeTime, Newest
<1>5. ToSet(a.stateLog) = {a.stateLog[i] : i \in 1..n}
  BY <1>2 DEF ToSet
<1>6. /\ Newest(a.stateLog) \in {a.stateLog[i] : i \in 1..n} \cup {0}
      /\ \A i \in 1..n : a.stateLog[i] <= Newest(a.stateLog)
  BY <1>3, NewestIsNewest
<1> QED BY <1>4, <1>5, <1>6

\* Rows of one kind are numbered.
LEMMA ListedRows ==
  ASSUME NEW n \in Nat, NEW list, DOMAIN list = 1..n, NEW kind, NEW queueName
  PROVE  LET rows == Listed(list, kind, queueName) IN
         /\ rows \in Seq(Range(rows)) /\ Len(rows) = n
         /\ \A i \in 1..n : rows[i].key = <<kind, i>> /\ rows[i].queueName = queueName
<1> DEFINE rows == Listed(list, kind, queueName)
<1>1. DOMAIN rows = 1..n /\ rows \in [1..n -> Range(rows)]
  BY DEF Listed, Range
<1>2. \A i \in 1..n : rows[i].key = <<kind, i>> /\ rows[i].queueName = queueName
  BY DEF Listed
<1> HIDE DEF rows
<1>3. rows \in Seq(Range(rows))
  BY <1>1
<1>4. Len(rows) = n
  BY <1>1, <1>3
<1> QED BY <1>2, <1>3, <1>4 DEF rows

LEMMA AllocationsListed ==
  ASSUME NEW a \in NodeAnswers
  PROVE  LET rows == NodeAllocations(a) IN
         /\ Len(rows) = Len(a.allocations) + Len(a.foreignAllocations)
         /\ \A i, j \in DOMAIN rows : i # j => rows[i].key # rows[j].key
         /\ \A i \in DOMAIN rows : (rows[i].queueName = "n/a") = (rows[i].key[1] = "foreign")
<1>1. /\ a.allocations \in BoundedSeq(Tags, MaxAllocs)
      /\ a.foreignAllocations \in BoundedSeq(Tags, MaxAllocs)
  BY DEF NodeAnswers
<1>2. PICK m \in Nat : a.allocations \in [1..m -> Tags]
  BY <1>1, AnswersAssumption DEF BoundedSeq, SeqOf, AnswersAssumption
<1>3. PICK n \in Nat : a.foreignAllocations \in [1..n -> Tags]
  BY <1>1, AnswersAssumption DEF BoundedSeq, SeqOf, AnswersAssumption
<1>4. Len(a.allocations) = m /\ Len(a.foreignAllocations) = n
  <2>1. a.allocations \in Seq(Tags) /\ a.foreignAllocations \in Seq(Tags)
    BY <1>2, <1>3
  <2> QED BY <1>2, <1>3, <2>1
<1> DEFINE own == Listed(a.allocations, "own", "queue")
           foreign == Listed(a.foreignAllocations, "foreign", "n/a")
           rows == own \o foreign
<1>5. /\ own \in Seq(Range(own)) /\ Len(own) = m
      /\ \A i \in 1..m : own[i].key = <<"own", i>> /\ own[i].queueName = "queue"
  BY <1>2, ListedRows
<1>6. /\ foreign \in Seq(Range(foreign)) /\ Len(foreign) = n
      /\ \A i \in 1..n : foreign[i].key = <<"foreign", i>> /\ foreign[i].queueName = "n/a"
  BY <1>3, ListedRows
<1>7. NodeAllocations(a) = rows
  BY DEF NodeAllocations
<1> HIDE DEF own, foreign
<1>8. PICK S : own \in Seq(S) /\ foreign \in Seq(S)
  <2>1. /\ own \in Seq(Range(own) \cup Range(foreign))
        /\ foreign \in Seq(Range(own) \cup Range(foreign))
    BY <1>5, <1>6
  <2> QED BY <2>1
<1>9. /\ Len(rows) = m + n /\ DOMAIN rows = 1..(m + n)
      /\ \A i \in 1..(m + n) : rows[i] = IF i <= m THEN own[i] ELSE foreign[i - m]
  <2>1. /\ rows \in Seq(S) /\ Len(rows) = Len(own) + Len(foreign)
        /\ \A i \in 1..(Len(own) + Len(foreign)) :
             rows[i] = IF i <= Len(own) THEN own[i] ELSE foreign[i - Len(own)]
    BY <1>8, ConcatProperties
  <2> HIDE DEF rows
  <2>2. DOMAIN rows = 1..Len(rows)
    BY <2>1
  <2> QED BY <1>5, <1>6, <2>1, <2>2
<1> HIDE DEF rows
<1>10. \A i \in 1..(m + n) : \/ i \in 1..m /\ rows[i] = own[i]
                             \/ i > m /\ i - m \in 1..n /\ rows[i] = foreign[i - m]
  BY <1>9
<1>11. \A i \in 1..(m + n) :
         \/ i \in 1..m /\ rows[i].key = <<"own", i>> /\ rows[i].queueName = "queue"
         \/ i > m /\ rows[i].key = <<"foreign", i - m>> /\ rows[i].queueName = "n/a"
  BY <1>5, <1>6, <1>10
<1>12. \A i, j \in 1..(m + n) : i # j => rows[i].key # rows[j].key
  BY <1>11
<1>13. \A i \in 1..(m + n) : (rows[i].queueName = "n/a") = (rows[i].key[1] = "foreign")
  <2> SUFFICES ASSUME NEW i \in 1..(m + n)
               PROVE  (rows[i].queueName = "n/a") = (rows[i].key[1] = "foreign")
    OBVIOUS
  <2>1. CASE rows[i].key = <<"own", i>> /\ rows[i].queueName = "queue"
    BY <2>1
  <2>2. CASE rows[i].key = <<"foreign", i - m>> /\ rows[i].queueName = "n/a"
    BY <2>2
  <2> QED BY <1>11, <2>1, <2>2
<1> QED BY <1>4, <1>7, <1>9, <1>12, <1>13

\* Both tables tell what was answered, for a log and allocations of any length
\* (setLastStateChangeTime; fetchNodeList).
THEOREM TablesTellAll == AnswersSpec => []RowsTellAll
<1>1. AnswerTyped => LastChangeIsNewest
  BY LogShown DEF AnswerTyped, LastChangeIsNewest
<1>2. AnswerTyped => EveryAllocationListedOnce
  BY AllocationsListed DEF AnswerTyped, EveryAllocationListedOnce
<1>3. AnswerTyped => RowsTellAll
  BY <1>1, <1>2 DEF RowsTellAll
<1> QED BY <1>3, AnswerInvariant, PTL
-----------------------------------------------------------------------------
(* Lists of lists *)

\* A list whose elements come in the order of R.
Ordered(s, R) == \A i, j \in 1..Len(s) : i < j => <<s[i], s[j]>> \in R

LEMMA ConcatOrdered ==
  ASSUME NEW S, NEW s \in Seq(S), NEW u \in Seq(S)
  PROVE  /\ s \o u \in Seq(S) /\ ToSet(s \o u) = ToSet(s) \cup ToSet(u)
         /\ \A R : /\ Ordered(s, R) /\ Ordered(u, R)
                   /\ \A x \in ToSet(s), y \in ToSet(u) : <<x, y>> \in R
                   => Ordered(s \o u, R)
<1> DEFINE su == s \o u
<1>1. /\ su \in Seq(S) /\ Len(su) = Len(s) + Len(u)
      /\ \A i \in 1..(Len(s) + Len(u)) : su[i] = IF i <= Len(s) THEN s[i] ELSE u[i - Len(s)]
  BY ConcatProperties
<1> HIDE DEF su
<1>2. DOMAIN s = 1..Len(s) /\ DOMAIN u = 1..Len(u) /\ DOMAIN su = 1..Len(su)
      /\ Len(s) \in Nat /\ Len(u) \in Nat
  BY <1>1
<1>3. \A i \in 1..Len(su) : \/ i \in 1..Len(s) /\ su[i] = s[i]
                            \/ i > Len(s) /\ i - Len(s) \in 1..Len(u) /\ su[i] = u[i - Len(s)]
  BY <1>1, <1>2
<1>4. ToSet(su) = ToSet(s) \cup ToSet(u)
  <2>1. ToSet(su) \subseteq ToSet(s) \cup ToSet(u)
    BY <1>2, <1>3 DEF ToSet
  <2>2. \A i \in 1..Len(s) : i \in 1..Len(su) /\ su[i] = s[i]
    BY <1>1, <1>2
  <2>3. \A i \in 1..Len(u) : i + Len(s) \in 1..Len(su) /\ su[i + Len(s)] = u[i]
    BY <1>1, <1>2
  <2>4. \A x \in ToSet(s) : x \in ToSet(su)
    BY <1>2, <2>2 DEF ToSet
  <2>5. \A x \in ToSet(u) : x \in ToSet(su)
    BY <1>2, <2>3 DEF ToSet
  <2> QED BY <2>1, <2>4, <2>5
<1>5. ASSUME NEW R, Ordered(s, R), Ordered(u, R),
             \A x \in ToSet(s), y \in ToSet(u) : <<x, y>> \in R
      PROVE  Ordered(su, R)
  <2> SUFFICES ASSUME NEW i \in 1..Len(su), NEW j \in 1..Len(su), i < j
               PROVE  <<su[i], su[j]>> \in R
    BY DEF Ordered
  <2>1. CASE i \in 1..Len(s) /\ j \in 1..Len(s)
    <3>1. su[i] = s[i] /\ su[j] = s[j]
      BY <1>1, <1>2, <2>1
    <3> QED BY <1>5, <2>1, <3>1 DEF Ordered
  <2>2. CASE i \in 1..Len(s) /\ j > Len(s)
    <3>1. su[i] = s[i] /\ j - Len(s) \in 1..Len(u) /\ su[j] = u[j - Len(s)]
      BY <1>1, <1>2, <2>2
    <3>2. su[i] \in ToSet(s) /\ su[j] \in ToSet(u)
      BY <1>2, <2>2, <3>1 DEF ToSet
    <3> QED BY <1>5, <3>2
  <2>3. CASE i > Len(s) /\ j > Len(s)
    <3>1. /\ i - Len(s) \in 1..Len(u) /\ su[i] = u[i - Len(s)]
          /\ j - Len(s) \in 1..Len(u) /\ su[j] = u[j - Len(s)]
          /\ i - Len(s) < j - Len(s)
      BY <1>1, <1>2, <2>3
    <3> QED BY <1>5, <3>1 DEF Ordered
  <2> QED BY <1>1, <1>2, <2>1, <2>2, <2>3
<1> QED BY <1>1, <1>4, <1>5 DEF su

\* The lists one after the other.
Flattening(seqs, flat) ==
  \A i \in 1..Len(seqs) : flat[i] = IF i = 1 THEN seqs[i] ELSE flat[i - 1] \o seqs[i]

LEMMA FlattenExists ==
  ASSUME NEW S, NEW seqs \in Seq(Seq(S)), Len(seqs) # 0
  PROVE  \E flat \in [1..Len(seqs) -> Seq(S)] :
           Flattening(seqs, flat) /\ FlattenSeq(seqs) = flat[Len(seqs)]
<1> DEFINE n == Len(seqs)
           D == 1..n
           F == [D -> Seq(S)]
           height == [i \in D |-> i]
           step == [p \in D \X F |-> IF p[1] = 1 THEN seqs[p[1]] ELSE p[2][p[1] - 1] \o seqs[p[1]]]
           next(flat, i) == IF i = 1 THEN seqs[i] ELSE flat[i - 1] \o seqs[i]
           Eq(flat) == flat = [i \in D |-> next(flat, i)]
           flat == CHOOSE f : Eq(f)
<1>1. n \in Nat /\ n # 0 /\ \A i \in D : seqs[i] \in Seq(S)
  OBVIOUS
<1> HIDE DEF n
<1>2. \A i \in D, f \in F :
        step[<<i, f>>] = IF i = 1 THEN seqs[i] ELSE f[i - 1] \o seqs[i]
  OBVIOUS
<1>3. \A i \in D, f \in F :
        (IF i = 1 THEN seqs[i] ELSE f[i - 1] \o seqs[i]) \in Seq(S)
  <2> SUFFICES ASSUME NEW i \in D, NEW f \in F, i # 1 PROVE f[i - 1] \o seqs[i] \in Seq(S)
    BY <1>1
  <2>1. i - 1 \in D
    BY <1>1
  <2>2. f[i - 1] \in Seq(S) /\ seqs[i] \in Seq(S)
    BY <1>1, <2>1
  <2> QED BY <2>2, ConcatProperties
<1>4. step \in [D \X F -> Seq(S)]
  <2>1. \A p \in D \X F : step[p] \in Seq(S)
    <3> SUFFICES ASSUME NEW i \in D, NEW f \in F PROVE step[<<i, f>>] \in Seq(S)
      OBVIOUS
    <3> HIDE DEF step, D, F
    <3> QED BY <1>2, <1>3
  <2>2. step = [p \in D \X F |-> step[p]]
    OBVIOUS
  <2> HIDE DEF step
  <2> QED BY <2>1, <2>2
<1>5. height \in [D -> 0..n] /\ \A i \in D : height[i] = i
  BY <1>1
<1>6. ASSUME NEW i \in D, NEW f \in F, NEW g \in F,
             \A r \in D : height[r] < height[i] => f[r] = g[r]
      PROVE  step[<<i, f>>] = step[<<i, g>>]
  <2>1. i = 1 \/ (i - 1 \in D /\ i - 1 < i)
    BY <1>1
  <2>2. i = 1 \/ f[i - 1] = g[i - 1]
    <3> HIDE DEF height
    <3> QED BY <1>5, <1>6, <2>1
  <2>3. /\ step[<<i, f>>] = IF i = 1 THEN seqs[i] ELSE f[i - 1] \o seqs[i]
        /\ step[<<i, g>>] = IF i = 1 THEN seqs[i] ELSE g[i - 1] \o seqs[i]
    <3> HIDE DEF step, D, F
    <3> QED BY <1>2
  <2> HIDE DEF step, D, F
  <2> QED BY <2>2, <2>3
<1>7. PICK f \in F : \A i \in D : f[i] = step[<<i, f>>]
  <2>1. <<>> \in Seq(S)
    OBVIOUS
  <2>2. \A i \in D : \A g, h \in [D -> Seq(S)] :
          (\A r \in D : height[r] < height[i] => g[r] = h[r]) => step[<<i, g>>] = step[<<i, h>>]
    <3> HIDE DEF step, height, D
    <3> QED BY <1>6
  <2>3. height \in [D -> 0..n]
    BY <1>5
  <2>4. LooksBelow(D, Seq(S), height, step)
    <3> HIDE DEF step, height, D
    <3> QED BY <1>1, <1>4, <2>1, <2>2, <2>3 DEF LooksBelow
  <2> HIDE DEF step, height, D
  <2> QED BY <2>4, RecursionExists
<1>8. Eq(f)
  <2>1. \A i \in D : f[i] = next(f, i)
    <3> HIDE DEF step, D, F
    <3> QED BY <1>2, <1>7
  <2>2. f = [i \in D |-> f[i]]
    OBVIOUS
  <2> HIDE DEF next, D
  <2> QED BY <2>1, <2>2
<1>9. Eq(flat)
  <2> HIDE DEF Eq
  <2> QED BY <1>8
<1>10. FlattenSeq(seqs) = flat[n]
  BY <1>1 DEF FlattenSeq, n
<1>11. \A i \in D : flat[i] = f[i]
  <2> DEFINE Bad == {i \in D : flat[i] # f[i]}
  <2>1. ASSUME Bad # {} PROVE FALSE
    <3>1. PICK m \in Bad : \A i \in Bad : m <= i
      <4>1. Bad \subseteq Nat
        <5>1. D \subseteq Nat
          BY <1>1
        <5> HIDE DEF flat, D
        <5>2. Bad \subseteq D
          OBVIOUS
        <5> QED BY <5>1, <5>2
      <4> HIDE DEF Bad
      <4> QED BY <2>1, <4>1, LeastNumber
    <3>2. m \in D /\ flat[m] # f[m]
      BY <3>1
    <3>3. m # 1 => m - 1 \in D /\ ~(m <= m - 1)
      BY <1>1, <3>2
    <3>4. m # 1 => flat[m - 1] = f[m - 1]
      <4>1. m # 1 => m - 1 \notin Bad
        <5> HIDE DEF Bad
        <5> QED BY <3>1, <3>3
      <4> QED BY <3>3, <4>1
    <3> HIDE DEF flat, Bad
    <3>5. /\ flat[m] = IF m = 1 THEN seqs[m] ELSE flat[m - 1] \o seqs[m]
          /\ f[m] = IF m = 1 THEN seqs[m] ELSE f[m - 1] \o seqs[m]
      BY <1>8, <1>9, <3>2
    <3> QED BY <3>2, <3>4, <3>5
  <2> QED BY <2>1
<1>12. Flattening(seqs, f)
  <2> HIDE DEF step
  <2> QED BY <1>2, <1>7 DEF Flattening, n
<1>13. n \in D
  BY <1>1
<1> HIDE DEF step, flat
<1> QED BY <1>7, <1>10, <1>11, <1>12, <1>13 DEF n

\* All lists in one have the elements of each, in order if they are and what is
\* in an earlier one comes before what is in a later one.
LEMMA Flattened ==
  ASSUME NEW S, NEW seqs \in Seq(Seq(S))
  PROVE  /\ FlattenSeq(seqs) \in Seq(S)
         /\ ToSet(FlattenSeq(seqs)) = UNION {ToSet(seqs[i]) : i \in 1..Len(seqs)}
         /\ \A R : /\ \A i \in 1..Len(seqs) : Ordered(seqs[i], R)
                   /\ \A i, j \in 1..Len(seqs) : i < j =>
                        \A x \in ToSet(seqs[i]), y \in ToSet(seqs[j]) : <<x, y>> \in R
                   => Ordered(FlattenSeq(seqs), R)
<1>1. CASE Len(seqs) = 0
  <2>1. FlattenSeq(seqs) = <<>>
    BY <1>1, EmptySeq DEF FlattenSeq
  <2>2. ToSet(<<>>) = {} /\ 1..Len(seqs) = {} /\ Len(<<>>) = 0
    BY <1>1 DEF ToSet
  <2> QED BY <2>1, <2>2 DEF Ordered
<1>2. CASE Len(seqs) # 0
  <2> DEFINE n == Len(seqs)
             Sets(k) == {ToSet(seqs[i]) : i \in 1..k}
  <2>1. PICK flat \in [1..n -> Seq(S)] : Flattening(seqs, flat) /\ FlattenSeq(seqs) = flat[n]
    BY <1>2, FlattenExists
  <2>2. n \in Nat /\ n \in 1..n /\ \A i \in 1..n : seqs[i] \in Seq(S)
    BY <1>2
  <2>3. \A i \in 1..n : flat[i] = IF i = 1 THEN seqs[i] ELSE flat[i - 1] \o seqs[i]
    BY <2>1 DEF Flattening
  <2> HIDE DEF n
  <2>4. \A k \in 1..n : k # 1 => k - 1 \in 1..n /\ ~(k <= k - 1)
    BY <2>2
  <2>5. \A k \in 1..n : ToSet(flat[k]) = UNION Sets(k)
    <3> DEFINE Bad == {k \in 1..n : ToSet(flat[k]) # UNION Sets(k)}
    <3>1. ASSUME Bad # {} PROVE FALSE
      <4>1. PICK m \in Bad : \A k \in Bad : m <= k
        <5>1. Bad \subseteq Nat
          BY <2>2
        <5> HIDE DEF Bad
        <5> QED BY <3>1, <5>1, LeastNumber
      <4>2. m \in 1..n /\ ToSet(flat[m]) # UNION Sets(m)
        BY <4>1
      <4>3. CASE m = 1
        <5>1. flat[m] = seqs[m]
          <6> HIDE DEF Bad, Sets
          <6> QED BY <2>3, <4>2, <4>3
        <5>2. \A i \in 1..m : i = m
          BY <4>3
        <5>3. m \in 1..m
          BY <4>3
        <5> QED BY <4>2, <5>1, <5>2, <5>3, <5>1
      <4>4. CASE m # 1
        <5>1. m - 1 \in 1..n /\ m - 1 \notin Bad
          <6> HIDE DEF Bad
          <6> QED BY <2>4, <4>1, <4>2, <4>4
        <5>2. ToSet(flat[m - 1]) = UNION Sets(m - 1)
          BY <5>1
        <5>3. ToSet(flat[m]) = ToSet(flat[m - 1]) \cup ToSet(seqs[m])
          <6>1. flat[m - 1] \in Seq(S) /\ seqs[m] \in Seq(S) /\ flat[m] = flat[m - 1] \o seqs[m]
            BY <2>2, <2>3, <4>2, <4>4, <5>1
          <6> QED BY <6>1, ConcatOrdered
        <5>4. 1..m = 1..(m - 1) \cup {m}
          BY <2>2, <4>2
        <5>5. UNION Sets(m) = (UNION Sets(m - 1)) \cup ToSet(seqs[m])
          BY <5>4
        <5> QED BY <4>2, <5>2, <5>3, <5>5
      <4> QED BY <4>3, <4>4
    <3> QED BY <3>1
  <2>6. ASSUME NEW R, \A i \in 1..n : Ordered(seqs[i], R),
               \A i, j \in 1..n : i < j =>
                 \A x \in ToSet(seqs[i]), y \in ToSet(seqs[j]) : <<x, y>> \in R
        PROVE  \A k \in 1..n : Ordered(flat[k], R)
    <3> DEFINE Bad == {k \in 1..n : ~Ordered(flat[k], R)}
    <3>1. ASSUME Bad # {} PROVE FALSE
      <4>1. PICK m \in Bad : \A k \in Bad : m <= k
        <5>1. Bad \subseteq Nat
          BY <2>2
        <5> HIDE DEF Bad
        <5> QED BY <3>1, <5>1, LeastNumber
      <4>2. m \in 1..n /\ ~Ordered(flat[m], R)
        BY <4>1
      <4>3. CASE m = 1
        BY <2>3, <2>6, <4>2, <4>3
      <4>4. CASE m # 1
        <5>1. m - 1 \in 1..n /\ m - 1 \notin Bad
          <6> HIDE DEF Bad
          <6> QED BY <2>4, <4>1, <4>2, <4>4
        <5>2. flat[m - 1] \in Seq(S) /\ seqs[m] \in Seq(S) /\ flat[m] = flat[m - 1] \o seqs[m]
          BY <2>2, <2>3, <4>2, <4>4, <5>1
        <5>3. Ordered(flat[m - 1], R) /\ Ordered(seqs[m], R)
          BY <2>6, <4>2, <5>1
        <5>4. ASSUME NEW x \in ToSet(flat[m - 1]), NEW y \in ToSet(seqs[m]) PROVE <<x, y>> \in R
          <6>1. PICK i \in 1..(m - 1) : x \in ToSet(seqs[i])
            BY <2>5, <5>1, <5>4
          <6>2. i \in 1..n /\ i < m
            BY <2>2, <4>2, <6>1
          <6> QED BY <2>6, <4>2, <5>4, <6>1, <6>2
        <5> QED BY <4>2, <5>2, <5>3, <5>4, ConcatOrdered
      <4> QED BY <4>3, <4>4
    <3> QED BY <3>1
  <2>7. flat[n] \in Seq(S)
    BY <2>1, <2>2 DEF n
  <2>8. ToSet(FlattenSeq(seqs)) = UNION {ToSet(seqs[i]) : i \in 1..n}
    BY <2>1, <2>2, <2>5 DEF n
  <2> QED BY <2>1, <2>2, <2>6, <2>7, <2>8 DEF n
<1> QED BY <1>1, <1>2
-----------------------------------------------------------------------------
(* The drop-down and the tree of queues *)

\* Every queue but the root is below one of a lower number, which is no leaf.
LEMMA TreeShape ==
  ASSUME NEW n \in Nat \ {0}, NEW t \in Trees(n)
  PROVE  /\ DOMAIN t.above = 2..n /\ Queues(t) = 1..n /\ t.leaf \subseteq 1..n
         /\ \A q \in 2..n : /\ q \in 1..n /\ t.above[q] \in 1..n
                            /\ t.above[q] < q /\ t.above[q] \notin t.leaf
<1>1. /\ t.above \in [2..n -> 1..n] /\ t.leaf \subseteq 1..n
      /\ \A q \in 2..n : t.above[q] < q /\ t.above[q] \notin t.leaf
  BY DEF Trees
<1>2. {1} \cup 2..n = 1..n
  OBVIOUS
<1>3. DOMAIN t.above = 2..n
  BY <1>1
<1>4. Queues(t) = 1..n
  BY <1>2, <1>3 DEF Queues
<1> QED BY <1>1, <1>3, <1>4

\* The children of a queue, each once and in the order of their numbers.
LEMMA ChildrenInOrder ==
  ASSUME NEW n \in Nat \ {0}, NEW t \in Trees(n), NEW q \in 1..n
  PROVE  /\ Below(t, q) \in Seq(2..n)
         /\ ToSet(Below(t, q)) = {c \in 2..n : t.above[c] = q}
         /\ \A i, j \in 1..Len(Below(t, q)) : i < j => Below(t, q)[i] < Below(t, q)[j]
<1> DEFINE C == {c \in 2..n : t.above[c] = q}
           R == {pair \in C \X C : pair[1] < pair[2]}
           list == Sorted(C, R)
<1>1. Below(t, q) = list
  BY TreeShape DEF Below
<1>2. IsFiniteSet(C) /\ C \subseteq 2..n
  <2>1. IsFiniteSet(2..n)
    BY FS_Interval
  <2>2. C \subseteq 2..n
    OBVIOUS
  <2> HIDE DEF C
  <2> QED BY <2>1, <2>2, FS_Subset
<1> HIDE DEF C
<1>3. \A a, b \in C : <<a, b>> \in R <=> a < b
  OBVIOUS
<1>4. StrictOrder(C, R)
  <2> HIDE DEF R
  <2>1. C \subseteq Int
    BY <1>2
  <2> QED BY <1>3, <2>1 DEF StrictOrder
<1> HIDE DEF R
<1>5. /\ Cardinality(C) \in Nat /\ list \in Seq(C) /\ Len(list) = Cardinality(C)
      /\ \A x \in C : \E i \in 1..Cardinality(C) : list[i] = x
      /\ \A i, j \in 1..Cardinality(C) : i < j => <<list[i], list[j]>> \in R
  BY <1>2, <1>4, SortedInOrder
<1> HIDE DEF list
<1>6. \A i \in 1..Len(list) : list[i] \in C
  BY <1>5
<1>7. ToSet(list) = C
  BY <1>5, <1>6 DEF ToSet
<1>8. list \in Seq(2..n)
  <2>1. list \in Seq(C) /\ \A i \in 1..Len(list) : list[i] \in 2..n
    BY <1>2, <1>5, <1>6
  <2>2. Len(list) \in Nat /\ list = [i \in 1..Len(list) |-> list[i]]
    BY <2>1
  <2> QED BY <2>1, <2>2
<1>9. \A i, j \in 1..Len(list) : i < j => list[i] < list[j]
  BY <1>3, <1>5, <1>6
<1> QED BY <1>1, <1>7, <1>8, <1>9 DEF C

\* The links to the children and to the parent are two directions of one.
LEMMA LinksAgree ==
  ASSUME NEW n \in Nat \ {0}, NEW t \in Trees(n)
  PROVE  /\ DOMAIN GenerateQueuesTree(t) = 1..n
         /\ \A q \in 1..n : GenerateQueuesTree(t)[q].children = Below(t, q)
         /\ GenerateQueuesTree(t)[1].parentQueue = Absent
         /\ \A q \in 2..n : GenerateQueuesTree(t)[q].parentQueue = t.above[q]
<1>1. /\ Queues(t) = 1..n
      /\ \A q \in 2..n : q \in 1..n /\ q # 1 /\ t.above[q] \in 1..n
  BY TreeShape
<1>2. ASSUME NEW q \in 2..n
      PROVE  (CHOOSE p \in Queues(t) : Contains(Below(t, p), q)) = t.above[q]
  <2>1. ASSUME NEW p \in 1..n PROVE Contains(Below(t, p), q) <=> t.above[q] = p
    <3>1. /\ Below(t, p) \in Seq(2..n)
          /\ ToSet(Below(t, p)) = {c \in 2..n : t.above[c] = p}
      BY ChildrenInOrder
    <3>2. Contains(Below(t, p), q) <=> q \in ToSet(Below(t, p))
      BY <3>1 DEF Contains, ToSet
    <3> QED BY <3>1, <3>2
  <2>2. \E p \in Queues(t) : Contains(Below(t, p), q)
    BY <1>1, <2>1
  <2> QED BY <1>1, <2>1, <2>2
<1> DEFINE parent(q) == IF q = 1 THEN Absent
                        ELSE CHOOSE p \in Queues(t) : Contains(Below(t, p), q)
<1>3. GenerateQueuesTree(t) =
        [q \in 1..n |-> [children |-> Below(t, q), parentQueue |-> parent(q)]]
  BY <1>1 DEF GenerateQueuesTree
<1>4. \A q \in 1..n : /\ GenerateQueuesTree(t)[q].children = Below(t, q)
                      /\ GenerateQueuesTree(t)[q].parentQueue = parent(q)
  <2> HIDE DEF parent
  <2> QED BY <1>3
<1>5. DOMAIN GenerateQueuesTree(t) = 1..n /\ 1 \in 1..n
  BY <1>3
<1> QED BY <1>1, <1>2, <1>4, <1>5

\* The way from the root to a queue.
Way(t, q) == Path(GenerateQueuesTree(t), q)

LEMMA WayGrows ==
  ASSUME NEW n \in Nat \ {0}, NEW t \in Trees(n)
  PROVE  /\ Way(t, 1) = <<1>>
         /\ \A q \in 2..n : Way(t, q) = Append(Way(t, t.above[q]), q)
         /\ \A q \in 1..n : Way(t, q) \in Seq(1..n)
<1> DEFINE tree == GenerateQueuesTree(t)
           D == 1..n
           V == Seq(1..n)
           F == [D -> V]
           height == [q \in D |-> q]
           step == [p \in D \X F |-> IF p[1] = 1 THEN <<1>> ELSE Append(p[2][t.above[p[1]]], p[1])]
           next(path, r) == IF tree[r].parentQueue = Absent THEN <<r>>
                            ELSE Append(path[tree[r].parentQueue], r)
           Eq(path) == path = [r \in DOMAIN tree |-> next(path, r)]
           path == CHOOSE f : Eq(f)
<1>1. /\ n \in Nat /\ 1 \in D
      /\ \A q \in D : q # 1 => q \in 2..n /\ t.above[q] \in D /\ t.above[q] < q
      /\ \A q \in 2..n : q \in D /\ q # 1
  BY TreeShape
<1>2. /\ DOMAIN tree = D
      /\ \A r \in D : tree[r].parentQueue = IF r = 1 THEN Absent ELSE t.above[r]
  BY <1>1, LinksAgree
<1>3. \A r \in D : tree[r].parentQueue = Absent <=> r = 1
  BY <1>1, <1>2 DEF Absent
<1>4. \A q \in D, f \in F : step[<<q, f>>] = IF q = 1 THEN <<1>> ELSE Append(f[t.above[q]], q)
  OBVIOUS
<1>5. LooksBelow(D, V, height, step)
  <2>1. step \in [D \X F -> V]
    <3>1. ASSUME NEW q \in D, NEW f \in F
          PROVE  (IF q = 1 THEN <<1>> ELSE Append(f[t.above[q]], q)) \in V
      <4>1. CASE q = 1
        BY <1>1, <4>1
      <4>2. CASE q # 1
        <5>1. f[t.above[q]] \in V
          BY <1>1, <4>2
        <5> QED BY <4>2, <5>1, AppendProperties
      <4> QED BY <4>1, <4>2
    <3>2. \A p \in D \X F : step[p] \in V
      <4> SUFFICES ASSUME NEW q \in D, NEW f \in F PROVE step[<<q, f>>] \in V
        OBVIOUS
      <4> HIDE DEF step, D, F, V
      <4> QED BY <1>4, <3>1
    <3>3. step = [p \in D \X F |-> step[p]]
      OBVIOUS
    <3> HIDE DEF step
    <3> QED BY <3>2, <3>3
  <2>2. ASSUME NEW q \in D, NEW f \in F, NEW g \in F,
               \A r \in D : height[r] < height[q] => f[r] = g[r]
        PROVE  step[<<q, f>>] = step[<<q, g>>]
    <3>1. q # 1 => f[t.above[q]] = g[t.above[q]]
      BY <1>1, <2>2
    <3> HIDE DEF step, D, F
    <3> QED BY <1>4, <3>1
  <2>3. height \in [D -> 0..n]
    BY <1>1
  <2>4. V # {}
    <3>1. <<>> \in V
      OBVIOUS
    <3> QED BY <3>1
  <2> HIDE DEF step, height, D, V
  <2> QED BY <1>1, <2>1, <2>2, <2>3, <2>4 DEF LooksBelow
<1>6. PICK f \in F : \A q \in D : f[q] = step[<<q, f>>]
  <2> HIDE DEF step, height, D, V
  <2> QED BY <1>5, RecursionExists
<1>7. Eq(f)
  <2>1. \A r \in D : f[r] = next(f, r)
    <3> SUFFICES ASSUME NEW r \in D PROVE f[r] = next(f, r)
      OBVIOUS
    <3>1. f[r] = IF r = 1 THEN <<1>> ELSE Append(f[t.above[r]], r)
      <4> HIDE DEF step, D, F
      <4> QED BY <1>4, <1>6
    <3> HIDE DEF tree, D
    <3>2. CASE r = 1
      BY <1>3, <3>1, <3>2
    <3>3. CASE r # 1
      BY <1>2, <1>3, <3>1, <3>3
    <3> QED BY <3>2, <3>3
  <2>2. f = [r \in D |-> f[r]]
    OBVIOUS
  <2>3. DOMAIN tree = D
    BY <1>2
  <2> HIDE DEF step, tree, D, next
  <2> QED BY <2>1, <2>2, <2>3
<1>8. Eq(path)
  <2> HIDE DEF Eq
  <2> QED BY <1>7
<1>9. \A q : Way(t, q) = path[q]
  BY DEF Way, Path
<1>10. path[1] = <<1>> /\ \A q \in 2..n : path[q] = Append(path[t.above[q]], q)
  <2> HIDE DEF path, tree, D
  <2>1. \A r \in D : path[r] = next(path, r)
    <3> HIDE DEF next
    <3> QED BY <1>2, <1>8
  <2>2. path[1] = <<1>>
    BY <1>1, <1>3, <2>1
  <2>3. ASSUME NEW q \in 2..n PROVE path[q] = Append(path[t.above[q]], q)
    BY <1>1, <1>2, <1>3, <2>1
  <2> QED BY <2>2, <2>3
<1> HIDE DEF path
<1>11. \A q \in 1..n : path[q] \in V
  <2> DEFINE Bad == {q \in D : path[q] \notin V}
  <2>1. ASSUME Bad # {} PROVE FALSE
    <3>1. PICK m \in Bad : \A q \in Bad : m <= q
      <4>1. Bad \subseteq Nat
        OBVIOUS
      <4> HIDE DEF Bad
      <4> QED BY <2>1, <4>1, LeastNumber
    <3>2. m \in D /\ path[m] \notin V
      BY <3>1
    <3>3. CASE m = 1
      <4>1. <<1>> \in V
        BY <1>1
      <4> HIDE DEF V, D, Bad
      <4> QED BY <1>10, <3>2, <3>3, <4>1
    <3>4. CASE m # 1
      <4>1. t.above[m] \in D /\ ~(m <= t.above[m])
        BY <1>1, <3>2, <3>4
      <4>2. t.above[m] \notin Bad
        <5> HIDE DEF Bad
        <5> QED BY <3>1, <4>1
      <4>3. path[t.above[m]] \in V
        BY <4>1, <4>2
      <4>4. path[m] = Append(path[t.above[m]], m) /\ m \in 1..n
        BY <1>1, <1>10, <3>2, <3>4
      <4>5. Append(path[t.above[m]], m) \in V
        BY <4>3, <4>4, AppendProperties
      <4> QED BY <3>2, <4>4, <4>5
    <3> QED BY <3>3, <3>4
  <2> QED BY <2>1
<1> QED BY <1>9, <1>10, <1>11

-----------------------------------------------------------------------------
\* The queues below one, and that one: the way to it is the start of theirs.
Under(t, q) ==
  {r \in Queues(t) : /\ Len(Way(t, q)) <= Len(Way(t, r))
                     /\ \A i \in 1..Len(Way(t, q)) : Way(t, r)[i] = Way(t, q)[i]}

\* The outline of the tree.
Outline(t) ==
  {pair \in Queues(t) \X Queues(t) : Earlier(Way(t, pair[1]), Way(t, pair[2]))}

\* What is below a child is below its parent, and what is below a child comes
\* before what is below a later one.
LEMMA ChildrenApart ==
  ASSUME NEW n \in Nat \ {0}, NEW t \in Trees(n), NEW q \in 1..n, NEW c \in 2..n, t.above[c] = q
  PROVE  /\ Under(t, c) \subseteq Under(t, q)
         /\ \A d \in 2..n : t.above[d] = q /\ c < d =>
              \A x \in Under(t, c), y \in Under(t, d) : <<x, y>> \in Outline(t)
<1> DEFINE k == Len(Way(t, q))
<1>1. Queues(t) = 1..n /\ c \in 1..n
  BY TreeShape
<1>2. \A r \in 1..n : Way(t, r) \in Seq(1..n) /\ Len(Way(t, r)) \in Nat
  BY WayGrows
<1>3. ASSUME NEW d \in 2..n, t.above[d] = q, NEW x \in Under(t, d)
      PROVE  /\ x \in 1..n /\ k + 1 <= Len(Way(t, x)) /\ Way(t, x)[k + 1] = d
             /\ \A i \in 1..k : Way(t, x)[i] = Way(t, q)[i]
  <2>1. Way(t, d) = Append(Way(t, t.above[d]), d) /\ d \in 1..n
    BY WayGrows, TreeShape
  <2>2. /\ Len(Way(t, d)) = k + 1 /\ Way(t, d)[k + 1] = d
        /\ \A i \in 1..k : Way(t, d)[i] = Way(t, q)[i]
    BY <1>2, <1>3, <2>1, AppendProperties
  <2>3. x \in 1..n /\ k + 1 <= Len(Way(t, x)) /\ \A i \in 1..(k + 1) : Way(t, x)[i] = Way(t, d)[i]
    BY <1>1, <1>3, <2>2 DEF Under
  <2>4. k \in Nat /\ k + 1 \in 1..(k + 1) /\ \A i \in 1..k : i \in 1..(k + 1)
    BY <1>2
  <2> QED BY <2>2, <2>3, <2>4
<1>4. k \in Nat
  BY <1>2
<1>5. Under(t, c) \subseteq Under(t, q)
  <2> SUFFICES ASSUME NEW x \in Under(t, c) PROVE x \in Under(t, q)
    OBVIOUS
  <2>1. /\ x \in 1..n /\ k + 1 <= Len(Way(t, x))
        /\ \A i \in 1..k : Way(t, x)[i] = Way(t, q)[i]
    BY <1>3
  <2>2. k <= Len(Way(t, x))
    BY <1>2, <1>4, <2>1
  <2> QED BY <1>1, <2>1, <2>2 DEF Under
<1>6. ASSUME NEW d \in 2..n, t.above[d] = q, c < d, NEW x \in Under(t, c), NEW y \in Under(t, d)
      PROVE  <<x, y>> \in Outline(t)
  <2>1. /\ x \in 1..n /\ k + 1 <= Len(Way(t, x)) /\ Way(t, x)[k + 1] = c
        /\ \A i \in 1..k : Way(t, x)[i] = Way(t, q)[i]
    BY <1>3
  <2>2. /\ y \in 1..n /\ k + 1 <= Len(Way(t, y)) /\ Way(t, y)[k + 1] = d
        /\ \A i \in 1..k : Way(t, y)[i] = Way(t, q)[i]
    BY <1>3, <1>6
  <2>3. Len(Way(t, x)) \in Nat /\ Len(Way(t, y)) \in Nat
    BY <1>2, <2>1, <2>2
  <2> HIDE DEF k
  <2>4. k + 1 \in 1..Len(Way(t, y))
    BY <1>4, <2>2, <2>3
  <2>5. \A j \in 1..((k + 1) - 1) : j <= Len(Way(t, x)) /\ Way(t, x)[j] = Way(t, y)[j]
    <3> SUFFICES ASSUME NEW j \in 1..((k + 1) - 1)
                 PROVE  j <= Len(Way(t, x)) /\ Way(t, x)[j] = Way(t, y)[j]
      OBVIOUS
    <3>1. j \in 1..k /\ j <= k + 1 /\ j \in Nat
      BY <1>4
    <3>2. j <= Len(Way(t, x))
      BY <1>4, <2>1, <2>3, <3>1
    <3>3. Way(t, x)[j] = Way(t, y)[j]
      BY <2>1, <2>2, <3>1
    <3> QED BY <3>2, <3>3
  <2>6. Earlier(Way(t, x), Way(t, y))
    BY <1>6, <2>1, <2>2, <2>4, <2>5 DEF Earlier
  <2> QED BY <1>1, <2>1, <2>2, <2>6 DEF Outline
<1> QED BY <1>5, <1>6

-----------------------------------------------------------------------------
\* The lists generateLeafQueueList makes, of a queue and of its children.
OwnList(t, q) == IF q \in t.leaf THEN <<q>> ELSE <<>>
ListsOfChildren(t, q, list) == [i \in DOMAIN Below(t, q) |-> list[Below(t, q)[i]]]

LeafLists(t, list) ==
  \A q \in Queues(t) : list[q] = OwnList(t, q) \o FlattenSeq(ListsOfChildren(t, q, list))

LEMMA ChildLists ==
  ASSUME NEW n \in Nat \ {0}, NEW t \in Trees(n), NEW q \in 1..n, NEW list,
         \A c \in 2..n : t.above[c] = q => list[c] \in Seq(1..n)
  PROVE  LET lists == ListsOfChildren(t, q, list) IN
         /\ lists \in Seq(Seq(1..n)) /\ Len(lists) = Len(Below(t, q))
         /\ \A i \in 1..Len(lists) : lists[i] = list[Below(t, q)[i]]
         /\ OwnList(t, q) \in Seq(1..n)
<1> DEFINE kids == Below(t, q)
           lists == ListsOfChildren(t, q, list)
<1>1. /\ kids \in Seq(2..n) /\ ToSet(kids) = {c \in 2..n : t.above[c] = q}
  BY ChildrenInOrder
<1> HIDE DEF kids
<1>2. DOMAIN kids = 1..Len(kids) /\ Len(kids) \in Nat
  BY <1>1
<1>3. \A i \in 1..Len(kids) : kids[i] \in 2..n /\ t.above[kids[i]] = q
  BY <1>1, <1>2 DEF ToSet
<1>4. lists = [i \in 1..Len(kids) |-> list[kids[i]]]
  BY <1>2 DEF ListsOfChildren, kids
<1> HIDE DEF lists
<1>5. lists \in [1..Len(kids) -> Seq(1..n)]
  BY <1>3, <1>4
<1>6. lists \in Seq(Seq(1..n))
  BY <1>2, <1>5
<1>7. Len(lists) = Len(kids)
  BY <1>2, <1>5, <1>6
<1>8. OwnList(t, q) \in Seq(1..n)
  <2>1. <<q>> \in Seq(1..n) /\ <<>> \in Seq(1..n)
    OBVIOUS
  <2> QED BY <2>1 DEF OwnList
<1> QED BY <1>4, <1>6, <1>7, <1>8 DEF lists, kids

LEMMA LeafListsExist ==
  ASSUME NEW n \in Nat \ {0}, NEW t \in Trees(n)
  PROVE  \E list : LeafLists(t, list) /\ GenerateLeafQueueList(t) = list[1]
<1> DEFINE tree == GenerateQueuesTree(t)
           D == 1..n
           V == Seq(1..n)
           F == [D -> V]
           height == [q \in D |-> n - q]
           Joined(q, f) == OwnList(t, q) \o FlattenSeq(ListsOfChildren(t, q, f))
           step == [p \in D \X F |-> Joined(p[1], p[2])]
           Eq(list) == list = [q \in Queues(t) |->
                         (IF q \in t.leaf THEN <<q>> ELSE <<>>)
                           \o FlattenSeq([i \in DOMAIN tree[q].children |-> list[tree[q].children[i]]])]
           list == CHOOSE f : Eq(f)
<1>1. /\ n \in Nat /\ Queues(t) = D
      /\ \A q \in 2..n : q \in D /\ t.above[q] \in D /\ t.above[q] < q
  BY TreeShape
<1>2. \A f : Eq(f) <=> f = [q \in D |-> Joined(q, f)]
  <2> SUFFICES ASSUME NEW f PROVE Eq(f) <=> f = [q \in D |-> Joined(q, f)]
    OBVIOUS
  <2>1. \A q \in D : tree[q].children = Below(t, q)
    BY LinksAgree
  <2>2. \A q \in D : (IF q \in t.leaf THEN <<q>> ELSE <<>>)
                       \o FlattenSeq([i \in DOMAIN tree[q].children |-> f[tree[q].children[i]]])
                     = Joined(q, f)
    <3> HIDE DEF tree
    <3> QED BY <2>1 DEF OwnList, ListsOfChildren
  <2> HIDE DEF tree, Joined
  <2> QED BY <1>1, <2>2
<1>3. \A q \in D, f \in F : step[<<q, f>>] = Joined(q, f)
  <2> HIDE DEF Joined
  <2> QED OBVIOUS
<1>4. LooksBelow(D, V, height, step)
  <2>1. \A q \in D, f \in F : Joined(q, f) \in V
    <3> SUFFICES ASSUME NEW q \in D, NEW f \in F PROVE Joined(q, f) \in V
      OBVIOUS
    <3>1. \A c \in 2..n : t.above[c] = q => f[c] \in Seq(1..n)
      BY <1>1
    <3>2. ListsOfChildren(t, q, f) \in Seq(Seq(1..n)) /\ OwnList(t, q) \in Seq(1..n)
      BY <3>1, ChildLists
    <3>3. FlattenSeq(ListsOfChildren(t, q, f)) \in Seq(1..n)
      BY <3>2, Flattened
    <3> QED BY <3>2, <3>3, ConcatProperties
  <2>2. step \in [D \X F -> V]
    <3>1. \A p \in D \X F : step[p] \in V
      <4> SUFFICES ASSUME NEW q \in D, NEW f \in F PROVE step[<<q, f>>] \in V
        OBVIOUS
      <4> HIDE DEF step, D, F, V, Joined
      <4> QED BY <1>3, <2>1
    <3>2. step = [p \in D \X F |-> step[p]]
      OBVIOUS
    <3> HIDE DEF step
    <3> QED BY <3>1, <3>2
  <2>3. ASSUME NEW q \in D, NEW f \in F, NEW g \in F,
               \A r \in D : height[r] < height[q] => f[r] = g[r]
        PROVE  step[<<q, f>>] = step[<<q, g>>]
    <3>1. \A c \in 2..n : t.above[c] = q => f[c] = g[c]
      BY <1>1, <2>3
    <3>2. Below(t, q) \in Seq(2..n) /\ ToSet(Below(t, q)) = {c \in 2..n : t.above[c] = q}
      BY ChildrenInOrder
    <3>3. \A i \in DOMAIN Below(t, q) : f[Below(t, q)[i]] = g[Below(t, q)[i]]
      BY <3>1, <3>2 DEF ToSet
    <3>4. ListsOfChildren(t, q, f) = ListsOfChildren(t, q, g)
      BY <3>3 DEF ListsOfChildren
    <3> HIDE DEF step, D, F
    <3> QED BY <1>3, <3>4
  <2>4. height \in [D -> 0..n]
    BY <1>1
  <2>5. V # {}
    <3>1. <<>> \in V
      OBVIOUS
    <3> QED BY <3>1
  <2> HIDE DEF step, height, D, V
  <2> QED BY <1>1, <2>2, <2>3, <2>4, <2>5 DEF LooksBelow
<1>5. PICK f \in F : \A q \in D : f[q] = step[<<q, f>>]
  <2> HIDE DEF step, height, D, V
  <2> QED BY <1>4, RecursionExists
<1>6. Eq(f)
  <2>1. \A q \in D : f[q] = Joined(q, f)
    <3> HIDE DEF step, Joined, D, F
    <3> QED BY <1>3, <1>5
  <2>2. f = [q \in D |-> f[q]]
    OBVIOUS
  <2> HIDE DEF Eq, Joined, D
  <2> QED BY <1>2, <2>1, <2>2
<1>7. Eq(list)
  <2> HIDE DEF Eq
  <2> QED BY <1>6
<1>8. GenerateLeafQueueList(t) = list[1]
  BY DEF GenerateLeafQueueList
<1> HIDE DEF list, Eq
<1>9. LeafLists(t, list)
  <2>1. list = [q \in D |-> Joined(q, list)]
    BY <1>2, <1>7
  <2> HIDE DEF D
  <2>2. \A q \in D : list[q] = Joined(q, list)
    <3> HIDE DEF Joined
    <3> QED BY <2>1
  <2> QED BY <1>1, <2>2 DEF LeafLists
<1> QED BY <1>8, <1>9

-----------------------------------------------------------------------------
\* The list of a queue: leaves below it, in the order of the outline.
ListOf(t, list, q) ==
  /\ list[q] \in Seq(Queues(t)) /\ ToSet(list[q]) \subseteq t.leaf \cap Under(t, q)
  /\ Ordered(list[q], Outline(t))

\* It has what the lists of its children have, and itself if it is a leaf.
LEMMA ListOfChildren ==
  ASSUME NEW n \in Nat \ {0}, NEW t \in Trees(n), NEW q \in 1..n, NEW list, LeafLists(t, list),
         \A c \in 2..n : t.above[c] = q => ListOf(t, list, c)
  PROVE  /\ ListOf(t, list, q)
         /\ \A c \in 2..n : t.above[c] = q => ToSet(list[c]) \subseteq ToSet(list[q])
         /\ q \in t.leaf => q \in ToSet(list[q])
<1> DEFINE kids == Below(t, q)
           lists == ListsOfChildren(t, q, list)
           own == OwnList(t, q)
           below == FlattenSeq(lists)
<1>1. /\ Queues(t) = 1..n
      /\ \A c \in 2..n : c \in 1..n /\ t.above[c] \notin t.leaf
  BY TreeShape
<1>2. /\ kids \in Seq(2..n) /\ ToSet(kids) = {c \in 2..n : t.above[c] = q}
      /\ \A i, j \in 1..Len(kids) : i < j => kids[i] < kids[j]
  BY ChildrenInOrder
<1>3. /\ lists \in Seq(Seq(1..n)) /\ Len(lists) = Len(kids)
      /\ \A i \in 1..Len(kids) : lists[i] = list[kids[i]]
      /\ own \in Seq(1..n)
  <2>1. \A c \in 2..n : t.above[c] = q => list[c] \in Seq(1..n)
    BY <1>1 DEF ListOf
  <2> QED BY <2>1, ChildLists
<1>4. list[q] = own \o below
  BY <1>1 DEF LeafLists
<1> HIDE DEF kids, lists
<1>5. DOMAIN kids = 1..Len(kids)
  BY <1>2
<1>6. \A i \in 1..Len(kids) : kids[i] \in 2..n /\ t.above[kids[i]] = q /\ ListOf(t, list, kids[i])
  BY <1>2, <1>5 DEF ToSet
<1>7. \A c \in 2..n : t.above[c] = q => \E i \in 1..Len(kids) : c = kids[i]
  BY <1>2, <1>5 DEF ToSet
<1>8. \A i \in 1..Len(kids) : /\ ToSet(lists[i]) \subseteq t.leaf \cap Under(t, kids[i])
                              /\ Ordered(lists[i], Outline(t))
  BY <1>3, <1>6 DEF ListOf
<1>9. \A i, j \in 1..Len(kids) : i < j =>
        \A x \in ToSet(lists[i]), y \in ToSet(lists[j]) : <<x, y>> \in Outline(t)
  <2> SUFFICES ASSUME NEW i \in 1..Len(kids), NEW j \in 1..Len(kids), i < j,
                      NEW x \in ToSet(lists[i]), NEW y \in ToSet(lists[j])
               PROVE  <<x, y>> \in Outline(t)
    OBVIOUS
  <2>1. x \in Under(t, kids[i]) /\ y \in Under(t, kids[j])
    BY <1>8
  <2>2. kids[i] < kids[j]
    BY <1>2
  <2> QED BY <1>6, <2>1, <2>2, ChildrenApart
<1>10. /\ below \in Seq(1..n) /\ Ordered(below, Outline(t))
       /\ ToSet(below) = UNION {ToSet(lists[i]) : i \in 1..Len(kids)}
  BY <1>3, <1>8, <1>9, Flattened
<1> HIDE DEF own, below
<1>11. ToSet(below) \subseteq t.leaf \cap Under(t, q)
  <2> SUFFICES ASSUME NEW i \in 1..Len(kids), NEW x \in ToSet(lists[i])
               PROVE  x \in t.leaf \cap Under(t, q)
    BY <1>10
  <2>1. x \in t.leaf /\ x \in Under(t, kids[i])
    BY <1>8
  <2>2. Under(t, kids[i]) \subseteq Under(t, q)
    BY <1>6, ChildrenApart
  <2> QED BY <2>1, <2>2
<1>12. \A c \in 2..n : t.above[c] = q => ToSet(list[c]) \subseteq ToSet(below)
  BY <1>3, <1>7, <1>10
<1>13. /\ list[q] \in Seq(1..n) /\ ToSet(list[q]) = ToSet(own) \cup ToSet(below)
       /\ /\ Ordered(own, Outline(t))
          /\ \A x \in ToSet(own), y \in ToSet(below) : <<x, y>> \in Outline(t)
          => Ordered(list[q], Outline(t))
  <2>1. /\ own \o below \in Seq(1..n) /\ ToSet(own \o below) = ToSet(own) \cup ToSet(below)
        /\ \A R : /\ Ordered(own, R) /\ Ordered(below, R)
                  /\ \A x \in ToSet(own), y \in ToSet(below) : <<x, y>> \in R
                  => Ordered(own \o below, R)
    BY <1>3, <1>10, ConcatOrdered
  <2> QED BY <1>4, <1>10, <2>1
<1>14. CASE q \in t.leaf
  <2>1. own = <<q>>
    BY <1>14 DEF own, OwnList
  <2>2. ToSet(<<q>>) = {q} /\ Len(<<q>>) = 1
    BY DEF ToSet
  <2>3. Ordered(<<q>>, Outline(t))
    BY <2>2 DEF Ordered
  <2>4. ToSet(below) = {}
    <3>1. \A i \in 1..Len(kids) : FALSE
      BY <1>1, <1>6, <1>14
    <3> QED BY <1>10, <3>1
  <2>5. q \in Under(t, q)
    <3>1. Len(Way(t, q)) <= Len(Way(t, q))
      BY WayGrows
    <3> QED BY <1>1, <3>1 DEF Under
  <2>6. ToSet(list[q]) = {q} /\ Ordered(list[q], Outline(t))
    BY <1>13, <2>1, <2>2, <2>3, <2>4
  <2> QED BY <1>1, <1>12, <1>13, <1>14, <2>4, <2>5, <2>6 DEF ListOf
<1>15. CASE q \notin t.leaf
  <2>1. own = <<>>
    BY <1>15 DEF own, OwnList
  <2>2. ToSet(<<>>) = {} /\ Len(<<>>) = 0
    BY DEF ToSet
  <2>3. Ordered(<<>>, Outline(t))
    BY <2>2 DEF Ordered
  <2>4. ToSet(list[q]) = ToSet(below) /\ Ordered(list[q], Outline(t))
    BY <1>13, <2>1, <2>2, <2>3
  <2> QED BY <1>1, <1>11, <1>12, <1>13, <1>15, <2>4 DEF ListOf
<1> QED BY <1>14, <1>15

\* From the last queue to the root.
LEMMA EveryList ==
  ASSUME NEW n \in Nat \ {0}, NEW t \in Trees(n), NEW list, LeafLists(t, list)
  PROVE  \A q \in 1..n : ListOf(t, list, q)
<1> DEFINE Bad == {q \in 1..n : ~ListOf(t, list, q)}
           Gaps == {n - q : q \in Bad}
<1>1. ASSUME Bad # {} PROVE FALSE
  <2>1. Gaps \subseteq Nat /\ Gaps # {}
    <3>1. \A q \in Bad : n - q \in Nat
      OBVIOUS
    <3> HIDE DEF Bad
    <3> QED BY <1>1, <3>1
  <2>2. PICK g \in Gaps : \A h \in Gaps : g <= h
    <3> HIDE DEF Gaps
    <3> QED BY <2>1, LeastNumber
  <2>3. PICK q \in Bad : g = n - q
    BY <2>2
  <2>4. q \in 1..n /\ ~ListOf(t, list, q)
    BY <2>3
  <2>5. ASSUME NEW c \in 2..n, t.above[c] = q PROVE ListOf(t, list, c)
    <3>1. c \in 1..n /\ ~(n - q <= n - c)
      BY <2>4, <2>5, TreeShape
    <3>2. c \notin Bad
      <4>1. c \in Bad => n - c \in Gaps
        OBVIOUS
      <4> HIDE DEF Bad, Gaps
      <4> QED BY <2>2, <2>3, <3>1, <4>1
    <3> QED BY <3>1, <3>2
  <2> HIDE DEF Bad, Gaps
  <2>6. ListOf(t, list, q)
    BY <2>4, <2>5, ListOfChildren
  <2> QED BY <2>4, <2>6
<1> QED BY <1>1

\* A leaf is in the lists of all queues it is below, up to that of the root.
LEMMA LeavesListed ==
  ASSUME NEW n \in Nat \ {0}, NEW t \in Trees(n), NEW list, LeafLists(t, list)
  PROVE  ToSet(list[1]) = t.leaf
<1>1. \A q \in 1..n : ListOf(t, list, q)
  BY EveryList
<1>2. \A q \in 1..n : /\ \A c \in 2..n : t.above[c] = q => ToSet(list[c]) \subseteq ToSet(list[q])
                      /\ q \in t.leaf => q \in ToSet(list[q])
  <2>1. \A c \in 2..n : ListOf(t, list, c)
    BY <1>1
  <2> QED BY <2>1, ListOfChildren
<1>3. 1 \in 1..n /\ t.leaf \subseteq 1..n
  BY TreeShape
<1>4. ASSUME NEW q \in t.leaf PROVE q \in ToSet(list[1])
  <2> DEFINE Has == {r \in 1..n : q \in ToSet(list[r])}
  <2>1. Has \subseteq Nat /\ Has # {}
    BY <1>2, <1>3
  <2>2. PICK m \in Has : \A r \in Has : m <= r
    <3> HIDE DEF Has
    <3> QED BY <2>1, LeastNumber
  <2>3. m \in 1..n /\ q \in ToSet(list[m])
    BY <2>2
  <2>4. ASSUME m # 1 PROVE FALSE
    <3>1. m \in 2..n
      BY <2>3, <2>4
    <3>2. t.above[m] \in 1..n /\ t.above[m] < m
      BY <3>1, TreeShape
    <3>3. q \in ToSet(list[t.above[m]])
      BY <1>2, <2>3, <3>1, <3>2
    <3>4. t.above[m] \in Has
      BY <3>2, <3>3
    <3> HIDE DEF Has
    <3> QED BY <2>2, <2>3, <3>2, <3>4
  <2> QED BY <2>3, <2>4
<1>5. ToSet(list[1]) \subseteq t.leaf
  BY <1>1, <1>3 DEF ListOf
<1> QED BY <1>4, <1>5

LEMMA TreeListed ==
  ASSUME NEW n \in Nat \ {0}, NEW t \in Trees(n)
  PROVE  LET tree == GenerateQueuesTree(t)
             list == GenerateLeafQueueList(t)
         IN /\ ToSet(list) = t.leaf
            /\ \A i, j \in DOMAIN list :
                 i < j => Earlier(Path(tree, list[i]), Path(tree, list[j]))
            /\ \A q \in DOMAIN tree : \A i \in DOMAIN tree[q].children :
                 Path(tree, tree[q].children[i]) = Append(Path(tree, q), tree[q].children[i])
<1> DEFINE tree == GenerateQueuesTree(t)
           shown == GenerateLeafQueueList(t)
<1>1. PICK list : LeafLists(t, list) /\ shown = list[1]
  BY LeafListsExist
<1>2. Queues(t) = 1..n /\ 1 \in 1..n
  BY TreeShape
<1>3. ToSet(shown) = t.leaf
  BY <1>1, LeavesListed
<1>4. shown \in Seq(1..n) /\ Ordered(shown, Outline(t))
  BY <1>1, <1>2, EveryList DEF ListOf
<1> HIDE DEF shown
<1>5. ASSUME NEW i \in DOMAIN shown, NEW j \in DOMAIN shown, i < j
      PROVE  Earlier(Way(t, shown[i]), Way(t, shown[j]))
  <2>1. <<shown[i], shown[j]>> \in Outline(t)
    <3>1. DOMAIN shown = 1..Len(shown)
      BY <1>4
    <3> QED BY <1>4, <1>5, <3>1 DEF Ordered
  <2> QED BY <2>1 DEF Outline
<1>6. DOMAIN tree = 1..n /\ \A q \in 1..n : tree[q].children = Below(t, q)
  BY LinksAgree
<1>7. ASSUME NEW q \in 1..n, NEW i \in DOMAIN Below(t, q)
      PROVE  Way(t, Below(t, q)[i]) = Append(Way(t, q), Below(t, q)[i])
  <2>1. Below(t, q)[i] \in 2..n /\ t.above[Below(t, q)[i]] = q
    BY ChildrenInOrder DEF ToSet
  <2> QED BY <2>1, WayGrows
<1>8. \A q \in DOMAIN tree : \A i \in DOMAIN tree[q].children :
        Way(t, tree[q].children[i]) = Append(Way(t, q), tree[q].children[i])
  <2> HIDE DEF tree
  <2> QED BY <1>6, <1>7
<1> QED BY <1>3, <1>5, <1>8 DEF Way, shown

\* The drop-down offers the leaves of every tree, each once and in the order of
\* its outline, and the links up and down agree (generateQueuesTree,
\* generateLeafQueueList).
THEOREM DropdownShowsTree == AnswersSpec => []DropdownFollowsTree
<1>1. AnswerTyped => DropdownFollowsTree
  BY TreeListed DEF AnswerTyped, DropdownFollowsTree
<1> QED BY <1>1, AnswerInvariant, PTL
=============================================================================
