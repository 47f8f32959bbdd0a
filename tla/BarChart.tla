------------------------------ MODULE BarChart ------------------------------
(***************************************************************************)
(* VerticalBarChartComponent: a Chart.js chart made anew from its input,   *)
(* and the handlers that dim all series but the one pointed at.  They give *)
(* series i of the chart the colour of series i of the input.              *)
(*                                                                         *)
(* Chart.js calls the handlers; the pointer goes from one of the legend and*)
(* the chart area to the other through the space around them.              *)
(***************************************************************************)
EXTENDS Naturals, Sequences

VARIABLES
  barChartDataSets,  \* the input: a sequence of records with a "color"
  barChart,          \* the series drawn: their data set, colour, and whether dimmed
  pointed            \* where the last mouse event on this chart took place

chartVars == <<barChart, pointed>>

Outside == <<"outside", 0>>
Area == <<"area", 0>>
Bars(chart) == {<<"bar", i>> : i \in DOMAIN chart}
LegendItems(chart) == {<<"legend", i>> : i \in DOMAIN chart}

\* A new chart, which no mouse event has reached.
RenderChart(sets) ==
  /\ barChart' = [i \in DOMAIN sets |->
                    [set |-> sets[i], color |-> sets[i].color, dim |-> FALSE]]
  /\ pointed' = Outside

(* mutant: no chart for an empty list, as in the other charts *)
OnChangesUnlessEmpty ==
  IF barChartDataSets' = <<>> THEN UNCHANGED chartVars ELSE RenderChart(barChartDataSets')

\* ngOnChanges: any new list is drawn.
OnChanges == RenderChart(barChartDataSets')

WindowResized == RenderChart(barChartDataSets) /\ UNCHANGED barChartDataSets

\* The colours of the input, dimmed in the series "dimmed".
Recolor(dimmed) ==
  barChart' = [i \in DOMAIN barChart |->
    [barChart[i] EXCEPT !.color = barChartDataSets[i].color, !.dim = i \in dimmed]]

MoveTo(p) == p # pointed /\ pointed' = p /\ UNCHANGED barChartDataSets

\* legend.onHover leaves the series pointed at as it is.
LegendHover(i) ==
  /\ pointed[1] = "outside" /\ MoveTo(<<"legend", i>>)
  /\ barChart' = [j \in DOMAIN barChart |->
       IF j = i THEN barChart[j]
       ELSE [barChart[j] EXCEPT !.color = barChartDataSets[j].color, !.dim = TRUE]]

LegendLeave ==
  /\ pointed[1] = "legend" /\ MoveTo(Outside)
  /\ Recolor({})

\* From one legend item to the next: onLeave, then onHover.
LegendNext(i) ==
  /\ pointed[1] = "legend" /\ MoveTo(<<"legend", i>>)
  /\ Recolor(DOMAIN barChart \ {i})

\* options.onHover, over a bar and beside all bars.
BarHover(i) ==
  /\ pointed[1] # "legend" /\ MoveTo(<<"bar", i>>)
  /\ Recolor(DOMAIN barChart \ {i})

(* mutant: nothing is restored beside the bars *)
AreaHoverKeeps ==
  pointed[1] # "legend" /\ MoveTo(Area) /\ UNCHANGED barChart

AreaHover ==
  /\ pointed[1] # "legend" /\ MoveTo(Area)
  /\ Recolor({})

\* No handler hears that the pointer leaves the chart area.
AreaLeave ==
  /\ pointed[1] \in {"bar", "area"} /\ MoveTo(Outside)
  /\ UNCHANGED barChart

Pointer ==
  \/ \E i \in DOMAIN barChart : LegendHover(i) \/ LegendNext(i) \/ BarHover(i)
  \/ LegendLeave \/ AreaHover \/ AreaLeave

Init == barChart = <<>> /\ pointed = Outside

-----------------------------------------------------------------------------
(* Properties *)

\* Series i of the chart is series i of the input, in its colour, dimmed or not:
\* the handlers, which look up one by the index of the other, never find a
\* series missing or of an older input.
SeriesAreOfTheInput ==
  /\ DOMAIN barChart = DOMAIN barChartDataSets
  /\ \A i \in DOMAIN barChart :
       barChart[i].set = barChartDataSets[i] /\ barChart[i].color = barChartDataSets[i].color

\* Beside the bars nothing is dimmed, and over a bar everything else is, in
\* whatever order legend, bars, resizes and new data came.
DimmingFollowsPointer ==
  /\ pointed = Area => \A i \in DOMAIN barChart : ~barChart[i].dim
  /\ pointed[1] = "bar" => \A i \in DOMAIN barChart : barChart[i].dim <=> i # pointed[2]
=============================================================================
