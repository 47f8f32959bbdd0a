--------------------------- MODULE UtilizationTile ---------------------------
(* The tile of the node utilizations: the component that asks for figures   *)
(* and the chart it hands the series to.                                    *)
EXTENDS NodeUtilizations

VARIABLES barChart, pointed

Chart == INSTANCE BarChart

tileVars == <<figuresVars, barChart, pointed>>

\* An assignment of barChartDataSets reaches the chart before anything else runs.
FiguresShown(report) ==
  /\ UtilizationsAnswered(report)
  /\ IF partitionSelected \in DOMAIN report
     THEN Chart!OnChanges ELSE UNCHANGED <<barChart, pointed>>

ChartUntouched ==
  /\ \/ PartitionListAnswered \/ PartitionListFailed \/ UtilizationsFailed
     \/ \E p \in Partitions : OnPartitionSelectionChanged(p)
  /\ UNCHANGED <<barChart, pointed>>

ChartAlone ==
  /\ Chart!Pointer \/ Chart!WindowResized
  /\ UNCHANGED <<partitionsCall, figureCalls, choiceVars, lastReport>>

TileInit == FiguresInit /\ Chart!Init

TileNext ==
  \/ \E report \in Reports : FiguresShown(report)
  \/ ChartUntouched \/ ChartAlone

TileSpec == TileInit /\ [][TileNext]_tileVars

-----------------------------------------------------------------------------
(* Properties *)

\* The component keeps its types; the chart draws its input and nothing older,
\* and beside the bars no series stays dimmed.
ChartInv == FiguresTypeOK /\ Chart!SeriesAreOfTheInput /\ Chart!DimmingFollowsPointer

\* Once nothing is in flight the canvas shows the series of the partition
\* selected, in the colours they have there, whatever the pointer did to the
\* chart and however late the answers came (partitionSelected, fetchBarChartData
\* and the chart's ngOnChanges together).
CanvasFollowsSelection ==
  figureCalls = 0 /\ partitionSelected \in DOMAIN lastReport =>
    LET sets == DataSets(lastReport[partitionSelected])
    IN [i \in DOMAIN barChart |-> <<barChart[i].set.type, barChart[i].color>>]
         = [i \in DOMAIN sets |-> <<sets[i].type, sets[i].color>>]
=============================================================================
