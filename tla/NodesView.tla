------------------------------ MODULE NodesView ------------------------------
(***************************************************************************)
(* The nodes view (NodesViewComponent): partition selection, node lists    *)
(* answered in any order, row selection under a filter, and the columns of *)
(* the node table, which are taken away while the application runs.        *)
(*                                                                         *)
(* An answer brings fresh row objects: an earlier answer's object that the *)
(* component still holds in selectedRow is marked by selectedIsStale.      *)
(***************************************************************************)
EXTENDS Naturals, Sequences, SequencesExt

CONSTANTS
  Partitions, FirstPartition, Nodes,
  NodesOf,          \* NodesOf[p]: the nodes of partition p
  ColumnIds,        \* nodeColumnDef without attributes, in its order
  Filled,           \* Filled[<<p, n>>]: columns with a value for node n of p
  MaxCalls          \* bound: node lists in flight

None == "none"
Attributes == "attributes"
IndicatorIcon == "indicatorIcon"
Row == [partition : Partitions, node : Nodes]
NoRow == [partition |-> None, node |-> None]
Columns == ToSet(ColumnIds) \cup {Attributes, IndicatorIcon}

ASSUME ConstantsAssumption ==
  /\ FirstPartition \in Partitions
  /\ None \notin Partitions \cup Nodes
  /\ NodesOf \in [Partitions -> SUBSET Nodes]
  /\ ColumnIds \in Seq(STRING) /\ IsInjective(ColumnIds)
  /\ ToSet(ColumnIds) \cap {Attributes, IndicatorIcon} = {}
  /\ Filled \in [Partitions \X Nodes -> SUBSET ToSet(ColumnIds)]

VARIABLES
  reliable,                   \* this time answers come in order, none fails
  partitionsCall, nodeCalls,  \* requests in flight, nodeCalls oldest first
  partitionList, partitionSelected, stored,
  nodeData,                   \* the rows of the table
  isSelected,                 \* those whose flag is up
  selectedRow, selectedIsStale,
  allocOwner,                 \* the row whose allocations the second table lists
  filterValue,                \* None, or the node it lets through
  nodeColumnIds, detailToggle

choiceVars == <<reliable, partitionList, partitionSelected, stored>>
rowVars == <<isSelected, selectedRow, selectedIsStale, allocOwner>>
columnVars == <<nodeColumnIds, detailToggle>>
callVars == <<partitionsCall, nodeCalls>>
vars == <<choiceVars, nodeData, rowVars, filterValue, columnVars, callVars>>

Rows(p) == {r \in Row : r.partition = p /\ r.node \in NodesOf[p]}

-----------------------------------------------------------------------------
(* Selection *)

\* A stale row's flag is on an object the table no longer shows.
Unflag(flags) == IF selectedIsStale THEN flags ELSE flags \ {selectedRow}

ClearRowSelection ==
  /\ isSelected' = Unflag(isSelected)
  /\ selectedRow' = NoRow /\ selectedIsStale' = FALSE
  /\ allocOwner' = NoRow

(* mutant: only the rows the filter lets through are unselected *)
UnselectVisibleButOne(r) ==
  isSelected \cap ({r} \cup {o \in nodeData : filterValue \notin {None, o.node}})

\* All rows, those the filter hides included.
UnselectAllRowsButOne(r) == isSelected \ (nodeData \ {r})

ToggleRowSelection(r) ==
  /\ r \in nodeData /\ filterValue \in {None, r.node}
  /\ IF r \in isSelected
     THEN /\ selectedRow' = NoRow
          /\ isSelected' = UnselectAllRowsButOne(r) \ {r}
          /\ allocOwner' = NoRow
     ELSE /\ selectedRow' = r
          /\ isSelected' = UnselectAllRowsButOne(r) \cup {r}
          /\ allocOwner' = r
  /\ selectedIsStale' = FALSE
  /\ UNCHANGED <<choiceVars, nodeData, filterValue, columnVars, callVars>>

OnPaginatorChanged ==
  /\ selectedRow # NoRow
  /\ ClearRowSelection
  /\ UNCHANGED <<choiceVars, nodeData, filterValue, columnVars, callVars>>

ApplyFilter(text) ==
  /\ filterValue' = text
  /\ UNCHANGED <<choiceVars, nodeData, rowVars, columnVars, callVars>>

-----------------------------------------------------------------------------
(* Columns *)

\* Attributes are an object and never count as blank.
Blank(c, rows) ==
  /\ c \notin {Attributes, IndicatorIcon}
  /\ \A r \in rows : c \notin Filled[<<r.partition, r.node>>]

\* Array.filter. A recursive function: the proof system does not know SelectSeq.
Without(ids, gone) ==
  LET kept[i \in 0..Len(ids)] ==
        IF i = 0 THEN <<>>
        ELSE IF ids[i] \in gone THEN kept[i - 1] ELSE Append(kept[i - 1], ids[i])
  IN kept[Len(ids)]

\* formatColumn: a blank column goes, and the attributes with it.
FormatColumn(rows) ==
  LET blank == {c \in ToSet(nodeColumnIds) : rows # {} /\ Blank(c, rows)}
      gone == IF blank = {} THEN {} ELSE blank \cup {Attributes}
  IN nodeColumnIds' = Without(nodeColumnIds, gone)

(* mutant: a column is added for every click *)
DisplayAttributeAlways(toggle) ==
  nodeColumnIds' = <<nodeColumnIds[1], Attributes>> \o Tail(nodeColumnIds)

DisplayAttribute(toggle) ==
  nodeColumnIds' = IF toggle
                   THEN <<nodeColumnIds[1], Attributes>> \o Tail(nodeColumnIds)
                   ELSE Without(nodeColumnIds, {Attributes})

Toggle ==
  /\ detailToggle' = ~detailToggle
  /\ DisplayAttribute(~detailToggle)
  /\ UNCHANGED <<choiceVars, nodeData, rowVars, filterValue, callVars>>

-----------------------------------------------------------------------------
(* Requests and answers, in any order *)

\* fetchNodeListForPartition empties the table; the selected row object is
\* no longer one of the table's.
FetchNodeList(p, selected) ==
  /\ nodeCalls' = Append(nodeCalls, p)
  /\ nodeData' = {}
  /\ selectedIsStale' = (selected # NoRow)

PartitionsAnswered ==
  /\ partitionsCall /\ partitionsCall' = FALSE
  /\ \/ /\ partitionList' = Partitions
        /\ partitionSelected' = IF stored = None THEN FirstPartition ELSE stored
        /\ FetchNodeList(partitionSelected', selectedRow)
        /\ UNCHANGED stored
     \/ /\ partitionList' = {} /\ partitionSelected' = None
        /\ nodeData' = {} /\ stored' = None
        /\ UNCHANGED <<nodeCalls, selectedIsStale>>
  /\ UNCHANGED <<reliable, isSelected, selectedRow, allocOwner, filterValue, columnVars>>

PartitionsFailed ==
  /\ ~reliable
  /\ partitionsCall /\ partitionsCall' = FALSE
  /\ UNCHANGED <<choiceVars, nodeData, rowVars, filterValue, columnVars, nodeCalls>>

\* Fresh rows of the partition the request named; a row selected in a list
\* that came before stays in the allocations table.
NodesAnswered(i) ==
  /\ reliable => i = 1
  /\ nodeCalls' = RemoveAt(nodeCalls, i)
  /\ nodeData' = Rows(nodeCalls[i])
  /\ isSelected' = {}
  /\ selectedIsStale' = (selectedRow # NoRow)
  /\ FormatColumn(Rows(nodeCalls[i]))
  /\ UNCHANGED <<choiceVars, selectedRow, allocOwner, filterValue, detailToggle, partitionsCall>>

NodesFailed(i) ==
  /\ ~reliable
  /\ nodeCalls' = RemoveAt(nodeCalls, i)
  /\ UNCHANGED <<choiceVars, nodeData, rowVars, filterValue, columnVars, partitionsCall>>

(* mutant: the nodes are fetched before the partition is set *)
FetchBeforeSelection(p) ==
  /\ p \in partitionList \ {partitionSelected}
  /\ Len(nodeCalls) < MaxCalls
  /\ partitionSelected' = p
  /\ ClearRowSelection
  /\ FetchNodeList(partitionSelected, NoRow)
  /\ stored' = p
  /\ UNCHANGED <<reliable, partitionList, filterValue, columnVars, partitionsCall>>

OnPartitionSelectionChanged(p) ==
  /\ p \in partitionList \ {partitionSelected}
  /\ Len(nodeCalls) < MaxCalls
  /\ partitionSelected' = p
  /\ ClearRowSelection
  /\ FetchNodeList(p, NoRow)
  /\ stored' = p
  /\ UNCHANGED <<reliable, partitionList, filterValue, columnVars, partitionsCall>>

-----------------------------------------------------------------------------
Init ==
  /\ reliable \in BOOLEAN
  /\ partitionsCall = TRUE /\ nodeCalls = <<>>
  /\ partitionList = {} /\ partitionSelected = None
  /\ stored \in Partitions \cup {None}
  /\ nodeData = {} /\ isSelected = {}
  /\ selectedRow = NoRow /\ selectedIsStale = FALSE /\ allocOwner = NoRow
  /\ filterValue = None
  /\ nodeColumnIds = Append(ColumnIds, IndicatorIcon) /\ detailToggle = FALSE

Clicks ==
  \/ \E p \in Partitions : OnPartitionSelectionChanged(p)
  \/ \E r \in nodeData : ToggleRowSelection(r)
  \/ \E text \in Nodes \cup {None} : ApplyFilter(text)
  \/ OnPaginatorChanged \/ Toggle

Next ==
  \/ PartitionsAnswered \/ PartitionsFailed
  \/ \E i \in DOMAIN nodeCalls : NodesAnswered(i) \/ NodesFailed(i)
  \/ Clicks

Spec == Init /\ [][Next]_vars

-----------------------------------------------------------------------------
(* Properties *)

\* Every variable keeps the shape its declaration gives it; AttributesWithDetails
\* has that of the columns.
TypeOK ==
  /\ reliable \in BOOLEAN
  /\ partitionsCall \in BOOLEAN /\ nodeCalls \in Seq(Partitions)
  /\ partitionList \subseteq Partitions
  /\ {partitionSelected, stored} \subseteq Partitions \cup {None}
  /\ nodeData \subseteq Row /\ isSelected \subseteq nodeData
  /\ selectedRow \in Row \cup {NoRow} /\ selectedIsStale \in BOOLEAN
  /\ allocOwner \in Row \cup {NoRow} /\ filterValue \in Nodes \cup {None}
  /\ detailToggle \in BOOLEAN

\* At most one node is flagged, it is the selected one, a selected node of the
\* table is flagged, also when a filter hides it while another is chosen, and
\* the allocations listed are those of the selected node.
OneNodeSelected ==
  /\ isSelected \subseteq {selectedRow}
  /\ selectedRow # NoRow /\ ~selectedIsStale => selectedRow \in isSelected
  /\ allocOwner = selectedRow

\* What is highlighted, what is selected and what the second table lists agree.
SelectionInv == TypeOK /\ OneNodeSelected

\* The table draws no column twice, and the attributes only while the details
\* show, second in the table: answers that take columns away never leave them
\* out of step with the button the other way round.
AttributesWithDetails ==
  /\ ToSet(nodeColumnIds) \subseteq Columns /\ IsInjective(nodeColumnIds)
  /\ \A i \in DOMAIN nodeColumnIds :
       nodeColumnIds[i] = Attributes => detailToggle /\ i = 2

\* Of answers in order, the last one leaves the nodes of the partition selected
\* in the table, with a partition remembered from an earlier visit too. The
\* component neither cancels nor checks a superseded request: the order is all
\* that keeps the table right (fetchNodeListForPartition).
LastAnswerIsSelection ==
  reliable /\ nodeCalls = <<>> /\ partitionSelected # None => nodeData = Rows(partitionSelected)
=============================================================================
