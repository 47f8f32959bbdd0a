-------------------------- MODULE NodeUtilizations --------------------------
(***************************************************************************)
(* The utilization chart of the dashboard (AppNodeUtilizationsComponent):  *)
(* every change of the partition asks for the figures of the whole cluster *)
(* again, and an answer draws those of the partition selected when it      *)
(* arrives: the most used resources, MaxShown of them.                     *)
(*                                                                         *)
(* Figures are counts of nodes per bucket.  Labels, tooltips and node names*)
(* are left out; a colour is a position in the palette.                    *)
(***************************************************************************)
EXTENDS Integers, Sequences, SequencesExt, Functions, ArraySort

CONSTANTS
  Partitions, FirstPartition,
  TypeOrder,  \* the resource types in the order of resourcesCompareFn
  NameOrder,  \* the same types in the order of their names
  Buckets,    \* buckets of a resource type
  MaxShown,   \* series the chart draws at most
  Palette,    \* colours
  Reports,    \* answers: [partitions listed -> [types reported -> counts]]
  MaxCalls    \* bound: requests in flight

None == "none"
Types == ToSet(TypeOrder)

ASSUME ConstantsAssumption ==
  /\ FirstPartition \in Partitions /\ None \notin Partitions
  /\ ToSet(NameOrder) = Types
  /\ {Buckets, MaxShown, Palette} \subseteq Nat \ {0}
  /\ MaxCalls \in Nat \ {0, 1}  \* ngOnInit's and the one of the first partition
  /\ TypeOrder \in Seq(Types)
  /\ \A report \in Reports :
       /\ DOMAIN report \subseteq Partitions
       /\ \A p \in DOMAIN report :
            DOMAIN report[p] \subseteq Types /\ \A t \in DOMAIN report[p] :
                                               report[p][t] \in [1..Buckets -> Nat]

VARIABLES
  partitionsCall,
  figureCalls,       \* requests for the figures in flight: they name no partition
  partitionList, partitionSelected, stored,
  barChartDataSets,  \* the series drawn
  lastReport         \* the last answer, None after a failure: no code reads it

choiceVars == <<partitionList, partitionSelected, stored>>
figuresVars == <<partitionsCall, figureCalls, choiceVars, barChartDataSets, lastReport>>

-----------------------------------------------------------------------------
(* fetchBarChartData *)

\* calculateAvgUtilization, as a fraction: bucket i counts for its middle.
AvgUtilization(counts) ==
  LET total == SumFunction(counts)
      weighted == SumFunction([i \in 1..Buckets |-> counts[i] * (2 * i - 1)])
  IN IF total = 0 THEN <<0, 1>> ELSE <<weighted, total>>

Exceeds(a, b) == a[1] * b[2] > b[1] * a[2]

Position(order, t) == CHOOSE i \in DOMAIN order : order[i] = t

\* generateColorMapping: by name, among the types of this answer.
Color(t, types) ==
  Cardinality({u \in types : Position(NameOrder, u) < Position(NameOrder, t)}) % Palette

Before(t, u) == Position(TypeOrder, t) < Position(TypeOrder, u)

(* mutant: the resource type decides alone *)
InOrderByType(figures) ==
  Sorted(DOMAIN figures,
         {pair \in (DOMAIN figures) \X (DOMAIN figures) : Before(pair[1], pair[2])})

\* Two stable sorts: the mean utilization decides, then the resource type.
Precedes(figures, t, u) ==
  LET a == AvgUtilization(figures[t])
      b == AvgUtilization(figures[u])
  IN Exceeds(a, b) \/ (~Exceeds(b, a) /\ Before(t, u))

InOrder(figures) ==
  Sorted(DOMAIN figures,
         {pair \in (DOMAIN figures) \X (DOMAIN figures) : Precedes(figures, pair[1], pair[2])})

DataSets(figures) ==
  LET shown == InOrder(figures)
  IN [i \in 1..(IF Len(shown) < MaxShown THEN Len(shown) ELSE MaxShown) |->
        [type |-> shown[i], avg |-> AvgUtilization(figures[shown[i]]),
         color |-> Color(shown[i], DOMAIN figures)]]

-----------------------------------------------------------------------------
\* The setter of partitionSelected: every assignment reloads.
Reload(p) == partitionSelected' = p /\ figureCalls' = figureCalls + 1

PartitionListAnswered ==
  /\ partitionsCall /\ partitionsCall' = FALSE
  /\ \/ /\ partitionList' = Partitions
        /\ Reload(IF stored = None THEN FirstPartition ELSE stored)
        /\ UNCHANGED stored
     \/ /\ partitionList' = {}
        /\ Reload(None)
        /\ stored' = None
  /\ UNCHANGED <<barChartDataSets, lastReport>>

PartitionListFailed ==
  /\ partitionsCall /\ partitionsCall' = FALSE
  /\ UNCHANGED <<figureCalls, choiceVars, barChartDataSets, lastReport>>

(* mutant: the figures are only fetched once *)
SelectWithoutReload(p) ==
  /\ p \in partitionList \ {partitionSelected}
  /\ partitionSelected' = p
  /\ UNCHANGED <<partitionsCall, figureCalls, partitionList, stored, barChartDataSets, lastReport>>

\* The two-way binding and onPartitionSelectionChanged both assign.
OnPartitionSelectionChanged(p) ==
  /\ p \in partitionList \ {partitionSelected}
  /\ figureCalls + 2 <= MaxCalls
  /\ partitionSelected' = p
  /\ figureCalls' = figureCalls + 2
  /\ UNCHANGED <<partitionsCall, partitionList, stored, barChartDataSets, lastReport>>

Answer(report) == figureCalls > 0 /\ figureCalls' = figureCalls - 1 /\ lastReport' = report

\* An answer that does not list the partition leaves the chart as it was.
UtilizationsAnswered(report) ==
  /\ Answer(report)
  /\ IF partitionSelected \in DOMAIN report
     THEN barChartDataSets' = DataSets(report[partitionSelected])
     ELSE UNCHANGED barChartDataSets
  /\ UNCHANGED <<partitionsCall, choiceVars>>

UtilizationsFailed ==
  /\ Answer(<<>>)
  /\ UNCHANGED <<partitionsCall, choiceVars, barChartDataSets>>

FiguresInit ==
  /\ partitionsCall = TRUE
  /\ figureCalls = 1  \* ngOnInit reloads before it knows any partition
  /\ partitionList = {} /\ partitionSelected = None
  /\ stored \in Partitions \cup {None}
  /\ barChartDataSets = <<>> /\ lastReport = <<>>

-----------------------------------------------------------------------------
(* Properties *)

\* Every variable keeps the shape its declaration gives it; MostUsedShown has
\* that of the series.
FiguresTypeOK ==
  /\ partitionsCall \in BOOLEAN /\ figureCalls \in 0..MaxCalls
  /\ partitionList \subseteq Partitions
  /\ {partitionSelected, stored} \subseteq Partitions \cup {None}
  /\ lastReport \in Reports \cup {<<>>}

\* The chart draws MaxShown series at most, in colours there are. It leaves out
\* no resource type that is used more than one it draws, and draws the most used
\* one first.
MostUsedShown ==
  /\ Len(barChartDataSets) <= MaxShown
  /\ \A i \in DOMAIN barChartDataSets :
       barChartDataSets[i].type \in Types /\ barChartDataSets[i].color \in 0..Palette - 1
  /\ figureCalls = 0 /\ partitionSelected \in DOMAIN lastReport =>
       LET figures == lastReport[partitionSelected]
           drawn == {barChartDataSets[i].type : i \in DOMAIN barChartDataSets}
       IN /\ \A t \in drawn, u \in DOMAIN figures \ drawn :
               ~Exceeds(AvgUtilization(figures[u]), AvgUtilization(figures[t]))
          /\ \A i, j \in DOMAIN barChartDataSets :
               i < j => ~Exceeds(barChartDataSets[j].avg, barChartDataSets[i].avg)
=============================================================================
