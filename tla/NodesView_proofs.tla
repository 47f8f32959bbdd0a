-------------------------- MODULE NodesView_proofs --------------------------
(***************************************************************************)
(* Theorems of NodesView, for any partitions, nodes and columns, and any   *)
(* number of node lists in flight.                                         *)
(***************************************************************************)
EXTENDS NodesView, SequenceTheorems, WellFoundedInduction, TLAPS

\* Before the partitions are there the table is empty and no list under way;
\* a node of an earlier list has no flag in this one.
NodesInv ==
  /\ SelectionInv
  /\ partitionsCall => nodeCalls = <<>> /\ nodeData = {} /\ partitionList = {}
  /\ selectedIsStale => isSelected = {}

\* With answers in order the newest request is for the partition selected.
AnswersInv ==
  reliable =>
  /\ partitionsCall => partitionSelected = None
  /\ nodeCalls # <<>> => nodeCalls[Len(nodeCalls)] = partitionSelected
  /\ LastAnswerIsSelection

\* The icon's column never goes, so that there is a column to put attributes after.
ColumnsInv ==
  /\ AttributesWithDetails
  /\ nodeColumnIds \in Seq(Columns) /\ IndicatorIcon \in ToSet(nodeColumnIds)

-----------------------------------------------------------------------------
(* Facts about the operators *)

LEMMA RemoveAtTyped ==
  ASSUME NEW S, NEW s \in Seq(S), NEW i \in DOMAIN s
  PROVE  /\ RemoveAt(s, i) \in Seq(S) /\ Len(RemoveAt(s, i)) = Len(s) - 1
         /\ RemoveAt(s, i) # s
<1>1. i \in 1..Len(s) /\ Len(s) \in Nat
  BY LenProperties
<1> DEFINE before == SubSeq(s, 1, i - 1)  after == SubSeq(s, i + 1, Len(s))
<1>2. before \in Seq(S) /\ Len(before) = i - 1
  BY <1>1, SubSeqProperties
<1>3. after \in Seq(S) /\ Len(after) = Len(s) - i
  BY <1>1, SubSeqProperties
<1> HIDE DEF before, after
<1>4. before \o after \in Seq(S) /\ Len(before \o after) = Len(before) + Len(after)
  BY <1>2, <1>3, ConcatProperties
<1>5. RemoveAt(s, i) = before \o after
  BY DEF RemoveAt, before, after
<1>6. Len(before \o after) = Len(s) - 1
  BY <1>1, <1>2, <1>3, <1>4
<1> QED BY <1>1, <1>4, <1>5, <1>6

\* An answer in order leaves the newest request the newest.
LEMMA OldestAnswered ==
  ASSUME NEW S, NEW s \in Seq(S), s # <<>>
  PROVE  /\ RemoveAt(s, 1) = <<>> => Len(s) = 1
         /\ RemoveAt(s, 1) # <<>> => RemoveAt(s, 1)[Len(RemoveAt(s, 1))] = s[Len(s)]
<1>1. Len(s) \in Nat \ {0} /\ s \in [1..Len(s) -> S]
  BY LenProperties, EmptySeq
<1> DEFINE rest == SubSeq(s, 2, Len(s))
<1>2. /\ rest \in Seq(S) /\ Len(rest) = Len(s) - 1
      /\ \A k \in 1..(Len(s) - 1) : rest[k] = s[k + 1]
  <2>1. \A k \in 2..Len(s) : s[k] \in S
    BY <1>1
  <2> QED BY <1>1, <2>1, SubSeqProperties
<1>3. SubSeq(s, 1, 0) = <<>>
  BY SubSeqEmpty
<1>4. RemoveAt(s, 1) = rest
  <2>1. RemoveAt(s, 1) = <<>> \o rest
    BY <1>3 DEF RemoveAt
  <2> HIDE DEF rest
  <2> QED BY <1>2, <2>1, ConcatEmptySeq
<1> HIDE DEF rest
<1>5. rest = <<>> => Len(s) = 1
  <2>1. Len(<<>>) = 0
    BY EmptySeq
  <2>2. Len(s) \in Nat /\ Len(rest) = Len(s) - 1
    BY <1>1, <1>2
  <2> QED BY <2>1, <2>2
<1>6. rest # <<>> => rest[Len(rest)] = s[Len(s)]
  <2> SUFFICES ASSUME rest # <<>> PROVE rest[Len(rest)] = s[Len(s)]
    OBVIOUS
  <2>1. Len(rest) \in Nat \ {0}
    BY <1>2, EmptySeq
  <2> QED BY <1>1, <1>2, <2>1
<1> QED BY <1>4, <1>5, <1>6

LEMMA AppendedLast ==
  ASSUME NEW S, NEW s \in Seq(S), NEW e \in S
  PROVE  /\ Append(s, e) \in Seq(S) /\ Append(s, e) # <<>>
         /\ Append(s, e)[Len(Append(s, e))] = e
BY AppendProperties, LenProperties

LEMMA RowsTyped == NoRow \notin Row /\ \A p : Rows(p) \subseteq Row
BY ConstantsAssumption DEF NoRow, Row, Rows, ConstantsAssumption

-----------------------------------------------------------------------------
(* Rows *)

\* What the rows keep between them, apart from the rest of the view.
RowsPart ==
  /\ nodeData \subseteq Row /\ isSelected \subseteq nodeData
  /\ selectedRow \in Row \cup {NoRow} /\ selectedIsStale \in BOOLEAN
  /\ allocOwner \in Row \cup {NoRow}
  /\ OneNodeSelected
  /\ selectedIsStale => isSelected = {}

\* And the choices.
ChoicesPart ==
  /\ reliable \in BOOLEAN
  /\ partitionsCall \in BOOLEAN /\ nodeCalls \in Seq(Partitions)
  /\ partitionList \subseteq Partitions
  /\ partitionSelected \in Partitions \cup {None} /\ stored \in Partitions \cup {None}
  /\ filterValue \in Nodes \cup {None} /\ detailToggle \in BOOLEAN

StartPart == partitionsCall => nodeCalls = <<>> /\ nodeData = {} /\ partitionList = {}

LEMMA InvSplits == NodesInv <=> RowsPart /\ ChoicesPart /\ StartPart
BY DEF NodesInv, RowsPart, ChoicesPart, StartPart, SelectionInv, TypeOK

LEMMA RowsKept ==
  ASSUME RowsPart, UNCHANGED <<nodeData, rowVars>>
  PROVE  RowsPart'
BY DEF RowsPart, rowVars, OneNodeSelected

LEMMA ClearedRows ==
  ASSUME RowsPart, isSelected' = Unflag(isSelected), selectedRow' = NoRow,
         selectedIsStale' = FALSE, allocOwner' = NoRow, nodeData' \in {nodeData, {}}
  PROVE  RowsPart'
<1>1. isSelected' = {}
  BY DEF RowsPart, OneNodeSelected, Unflag
<1> QED BY <1>1 DEF RowsPart, OneNodeSelected

LEMMA ToggledRows ==
  ASSUME RowsPart, NEW r \in nodeData, ToggleRowSelection(r)
  PROVE  RowsPart'
<1>1. r \in Row /\ r # NoRow /\ UNCHANGED nodeData
  BY RowsTyped DEF RowsPart, ToggleRowSelection
<1>2. CASE r \in isSelected
  <2>1. isSelected' = {} /\ selectedRow' = NoRow /\ selectedIsStale' = FALSE /\ allocOwner' = NoRow
    BY <1>2 DEF ToggleRowSelection, UnselectAllRowsButOne, RowsPart
  <2> QED BY <1>1, <2>1 DEF RowsPart, OneNodeSelected
<1>3. CASE r \notin isSelected
  <2>1. isSelected' = {r} /\ selectedRow' = r /\ selectedIsStale' = FALSE /\ allocOwner' = r
    BY <1>3 DEF ToggleRowSelection, UnselectAllRowsButOne, RowsPart
  <2> QED BY <1>1, <2>1 DEF RowsPart, OneNodeSelected
<1> QED BY <1>2, <1>3

\* Fresh rows, or none: no flag is up, and the row selected is an old one.
LEMMA FreshRows ==
  ASSUME RowsPart, nodeData' \subseteq Row, isSelected' = {},
         selectedIsStale' = (selectedRow # NoRow), UNCHANGED <<selectedRow, allocOwner>>
  PROVE  RowsPart'
BY DEF RowsPart, OneNodeSelected

-----------------------------------------------------------------------------
(* Selection *)

LEMMA NodesInvInit == Init => NodesInv
<1> SUFFICES ASSUME Init PROVE NodesInv
  OBVIOUS
<1>1. RowsPart
  BY DEF Init, RowsPart, OneNodeSelected
<1>2. ChoicesPart
  BY EmptySeq DEF Init, ChoicesPart
<1>3. StartPart
  BY DEF Init, StartPart
<1> QED BY <1>1, <1>2, <1>3, InvSplits

LEMMA PartitionsAnsweredStep ==
  ASSUME RowsPart, ChoicesPart, StartPart, PartitionsAnswered
  PROVE  RowsPart' /\ ChoicesPart' /\ StartPart'
<1>1. /\ partitionsCall' = FALSE
      /\ UNCHANGED <<reliable, isSelected, selectedRow, allocOwner, filterValue, columnVars>>
      /\ nodeData = {} /\ isSelected = {}
  BY DEF PartitionsAnswered, StartPart, RowsPart
<1>2. CASE /\ partitionList' = Partitions
           /\ partitionSelected' = IF stored = None THEN FirstPartition ELSE stored
           /\ FetchNodeList(partitionSelected', selectedRow)
           /\ UNCHANGED stored
  <2>1. partitionSelected' \in Partitions
    BY <1>2, ConstantsAssumption DEF ChoicesPart, ConstantsAssumption
  <2>2. nodeCalls' \in Seq(Partitions)
    BY <1>2, <2>1, AppendedLast DEF ChoicesPart, FetchNodeList
  <2>3. RowsPart'
    BY <1>1, <1>2, FreshRows DEF FetchNodeList
  <2> QED BY <1>1, <1>2, <2>1, <2>2, <2>3 DEF ChoicesPart, StartPart, columnVars
<1>3. CASE /\ partitionList' = {} /\ partitionSelected' = None
           /\ nodeData' = {} /\ stored' = None
           /\ UNCHANGED <<nodeCalls, selectedIsStale>>
  <2>1. RowsPart'
    BY <1>1, <1>3, RowsKept DEF rowVars
  <2> QED BY <1>1, <1>3, <2>1 DEF ChoicesPart, StartPart, columnVars
<1> QED BY <1>2, <1>3 DEF PartitionsAnswered

LEMMA NodesInvStep ==
  ASSUME NodesInv, [Next]_vars
  PROVE  NodesInv'
<1> SUFFICES RowsPart' /\ ChoicesPart' /\ StartPart'
  BY DEF NodesInv, RowsPart, ChoicesPart, StartPart, SelectionInv, TypeOK, OneNodeSelected
<1>0. RowsPart /\ ChoicesPart /\ StartPart
  BY InvSplits
<1>1. CASE PartitionsAnswered
  BY <1>0, <1>1, PartitionsAnsweredStep
<1>2. CASE PartitionsFailed
  <2>1. RowsPart'
    BY <1>0, <1>2, RowsKept DEF PartitionsFailed
  <2> QED BY <1>0, <1>2, <2>1 DEF PartitionsFailed, ChoicesPart, StartPart, choiceVars, columnVars
<1>3. ASSUME NEW i \in DOMAIN nodeCalls, NodesAnswered(i) \/ NodesFailed(i)
      PROVE  RowsPart' /\ ChoicesPart' /\ StartPart'
  <2>1. nodeCalls' \in Seq(Partitions)
    BY <1>0, <1>3, RemoveAtTyped DEF NodesAnswered, NodesFailed, ChoicesPart
  <2>2. ~partitionsCall
    BY <1>0, EmptySeq DEF StartPart
  <2>3. CASE NodesAnswered(i)
    <3>1. RowsPart'
      BY <1>0, <2>3, FreshRows, RowsTyped DEF NodesAnswered
    <3> QED BY <1>0, <2>1, <2>2, <2>3, <3>1 DEF NodesAnswered, ChoicesPart, StartPart, choiceVars
  <2>4. CASE NodesFailed(i)
    <3>1. RowsPart'
      BY <1>0, <2>4, RowsKept DEF NodesFailed
    <3> QED BY <1>0, <2>1, <2>2, <2>4, <3>1 DEF NodesFailed, ChoicesPart, StartPart, choiceVars, columnVars
  <2> QED BY <1>3, <2>3, <2>4
<1>4. ASSUME NEW p \in Partitions, OnPartitionSelectionChanged(p)
      PROVE  RowsPart' /\ ChoicesPart' /\ StartPart'
  <2>1. nodeCalls' \in Seq(Partitions)
    BY <1>0, <1>4, AppendedLast DEF OnPartitionSelectionChanged, FetchNodeList, ChoicesPart
  <2>2. RowsPart'
    BY <1>0, <1>4, ClearedRows DEF OnPartitionSelectionChanged, FetchNodeList, ClearRowSelection
  <2>3. ~partitionsCall
    BY <1>0, <1>4 DEF StartPart, OnPartitionSelectionChanged
  <2> QED BY <1>0, <1>4, <2>1, <2>2, <2>3 DEF OnPartitionSelectionChanged, ChoicesPart, StartPart, columnVars
<1>5. ASSUME NEW r \in nodeData, ToggleRowSelection(r)
      PROVE  RowsPart' /\ ChoicesPart' /\ StartPart'
  <2>1. RowsPart'
    BY <1>0, <1>5, ToggledRows
  <2> QED BY <1>0, <1>5, <2>1 DEF ToggleRowSelection, ChoicesPart, StartPart, choiceVars, columnVars, callVars
<1>6. ASSUME NEW text \in Nodes \cup {None}, ApplyFilter(text)
      PROVE  RowsPart' /\ ChoicesPart' /\ StartPart'
  <2>1. RowsPart'
    BY <1>0, <1>6, RowsKept DEF ApplyFilter
  <2> QED BY <1>0, <1>6, <2>1 DEF ApplyFilter, ChoicesPart, StartPart, choiceVars, columnVars, callVars
<1>7. CASE OnPaginatorChanged
  <2>1. RowsPart'
    BY <1>0, <1>7, ClearedRows DEF OnPaginatorChanged, ClearRowSelection
  <2> QED BY <1>0, <1>7, <2>1 DEF OnPaginatorChanged, ChoicesPart, StartPart, choiceVars, columnVars, callVars
<1>8. CASE Toggle
  <2>1. RowsPart'
    BY <1>0, <1>8, RowsKept DEF Toggle
  <2> QED BY <1>0, <1>8, <2>1 DEF Toggle, ChoicesPart, StartPart, choiceVars, callVars
<1>9. CASE UNCHANGED vars
  <2>1. RowsPart'
    BY <1>0, <1>9, RowsKept DEF vars
  <2> QED BY <1>0, <1>9, <2>1 DEF vars, ChoicesPart, StartPart, choiceVars, columnVars, callVars
<1> QED BY <1>1, <1>2, <1>3, <1>4, <1>5, <1>6, <1>7, <1>8, <1>9 DEF Next, Clicks

\* Nothing is in the table before the partitions are known, and a node of an
\* earlier list carries no flag in this one, next to what SelectionInv says.
THEOREM NodesInvariant == Spec => []NodesInv
<1>1. Init => NodesInv
  BY NodesInvInit
<1>2. NodesInv /\ [Next]_vars => NodesInv'
  BY NodesInvStep
<1> QED BY <1>1, <1>2, PTL DEF Spec

\* At most one node is highlighted, it is the one selected, and the allocations
\* listed are its own, whatever the filter hides and whichever list arrives.
THEOREM SelectionCorrect == Spec => []SelectionInv
<1>1. NodesInv => SelectionInv
  BY DEF NodesInv
<1> QED BY <1>1, NodesInvariant, PTL

-----------------------------------------------------------------------------
(* Answers *)

LEMMA AnswersKept ==
  ASSUME AnswersInv, UNCHANGED <<choiceVars, callVars, nodeData>>
  PROVE  AnswersInv'
BY DEF AnswersInv, LastAnswerIsSelection, choiceVars, callVars

LEMMA AnswersInvStep ==
  ASSUME NodesInv, AnswersInv, [Next]_vars
  PROVE  AnswersInv'
<1>0. ChoicesPart /\ StartPart
  BY InvSplits
<1>1. CASE PartitionsAnswered
  <2>1. UNCHANGED reliable /\ partitionsCall' = FALSE /\ nodeCalls = <<>>
    BY <1>0, <1>1 DEF PartitionsAnswered, StartPart
  <2>2. CASE partitionSelected' = None /\ UNCHANGED nodeCalls
    BY <2>1, <2>2 DEF AnswersInv, LastAnswerIsSelection
  <2>3. CASE /\ partitionSelected' = IF stored = None THEN FirstPartition ELSE stored
             /\ FetchNodeList(partitionSelected', selectedRow)
    <3>1. partitionSelected' \in Partitions
      BY <1>0, <2>3, ConstantsAssumption DEF ChoicesPart, ConstantsAssumption
    <3>2. nodeCalls' # <<>> /\ nodeCalls'[Len(nodeCalls')] = partitionSelected'
      BY <1>0, <2>3, <3>1, AppendedLast DEF ChoicesPart, FetchNodeList
    <3> QED BY <2>1, <3>2 DEF AnswersInv, LastAnswerIsSelection
  <2> QED BY <1>1, <2>2, <2>3 DEF PartitionsAnswered
<1>2. CASE PartitionsFailed
  BY <1>2 DEF PartitionsFailed, AnswersInv, choiceVars
<1>3. ASSUME NEW i \in DOMAIN nodeCalls, NodesAnswered(i) \/ NodesFailed(i)
      PROVE  AnswersInv'
  <2> SUFFICES ASSUME reliable PROVE AnswersInv'
    BY <1>3 DEF AnswersInv, NodesAnswered, NodesFailed, choiceVars
  <2>1. NodesAnswered(i) /\ i = 1
    BY <1>3 DEF NodesAnswered, NodesFailed
  <2>2. nodeCalls \in Seq(Partitions) /\ nodeCalls # <<>>
    <3>1. nodeCalls \in Seq(Partitions) /\ DOMAIN nodeCalls = 1..Len(nodeCalls)
      BY <1>0, LenProperties DEF ChoicesPart
    <3> QED BY <3>1, EmptySeq
  <2>3. /\ nodeCalls' = RemoveAt(nodeCalls, 1) /\ nodeData' = Rows(nodeCalls[1])
        /\ UNCHANGED <<choiceVars, partitionsCall>>
    BY <2>1 DEF NodesAnswered
  <2>4. nodeCalls[Len(nodeCalls)] = partitionSelected /\ ~partitionsCall
    BY <1>0, <2>2 DEF AnswersInv, StartPart
  <2>5. nodeCalls' # <<>> => nodeCalls'[Len(nodeCalls')] = partitionSelected
    BY <2>2, <2>3, <2>4, OldestAnswered
  <2>6. nodeCalls' = <<>> => nodeData' = Rows(partitionSelected)
    BY <2>2, <2>3, <2>4, OldestAnswered
  <2> QED BY <2>3, <2>4, <2>5, <2>6 DEF AnswersInv, LastAnswerIsSelection, choiceVars
<1>4. ASSUME NEW p \in Partitions, OnPartitionSelectionChanged(p)
      PROVE  AnswersInv'
  <2>1. nodeCalls' # <<>> /\ nodeCalls'[Len(nodeCalls')] = p
    BY <1>0, <1>4, AppendedLast DEF ChoicesPart, OnPartitionSelectionChanged, FetchNodeList
  <2>2. ~partitionsCall /\ UNCHANGED <<reliable, partitionsCall>> /\ partitionSelected' = p
    BY <1>0, <1>4 DEF StartPart, OnPartitionSelectionChanged
  <2> QED BY <2>1, <2>2 DEF AnswersInv, LastAnswerIsSelection
<1>5. ASSUME NEW r \in nodeData, ToggleRowSelection(r) PROVE AnswersInv'
  BY <1>5, AnswersKept DEF ToggleRowSelection
<1>6. ASSUME NEW text \in Nodes \cup {None}, ApplyFilter(text) PROVE AnswersInv'
  BY <1>6, AnswersKept DEF ApplyFilter
<1>7. CASE OnPaginatorChanged \/ Toggle \/ UNCHANGED vars
  BY <1>7, AnswersKept DEF OnPaginatorChanged, Toggle, vars
<1> QED BY <1>1, <1>2, <1>3, <1>4, <1>5, <1>6, <1>7 DEF Next, Clicks

\* Of answers in order, the last one leaves the nodes of the partition selected
\* in the table.
THEOREM TableIsOfSelection == Spec => []LastAnswerIsSelection
<1>1. Init => AnswersInv
  BY DEF Init, AnswersInv, LastAnswerIsSelection
<1>2. NodesInv /\ AnswersInv /\ [Next]_vars => AnswersInv'
  BY AnswersInvStep
<1>3. AnswersInv => LastAnswerIsSelection
  BY DEF AnswersInv, LastAnswerIsSelection
<1> QED BY <1>1, <1>2, <1>3, NodesInvariant, PTL DEF Spec
-----------------------------------------------------------------------------
(* Columns. A recursive function is reasoned about through the least number *)
(* for which a claim about it would fail.                                   *)

LEMMA LeastNumber ==
  ASSUME NEW T, T \subseteq Nat, T # {}
  PROVE \E m \in T : \A n \in T : m <= n
<1>1. PICK x \in T : \A y \in T : <<y, x>> \notin OpToRel(<, Nat)
  BY NatLessThanWellFounded, WFMin
<1>2. \A y \in T : ~(y < x)
  BY <1>1 DEF OpToRel
<1> QED BY <1>2

\* What is kept of the first i columns.
KeptOf(f, ids, gone, n) ==
  /\ f[0] = <<>>
  /\ \A i \in 1..n : f[i] = IF ids[i] \in gone THEN f[i - 1] ELSE Append(f[i - 1], ids[i])

KeptEq(f, ids, gone) ==
  f = [i \in 0..Len(ids) |-> IF i = 0 THEN <<>>
                           ELSE IF ids[i] \in gone THEN f[i - 1] ELSE Append(f[i - 1], ids[i])]

LEMMA KeptExists ==
  ASSUME NEW ids, Len(ids) \in Nat, NEW gone
  PROVE  \E f : KeptEq(f, ids, gone)
<1> DEFINE Short == {n \in Nat : ~\E f : KeptOf(f, ids, gone, n)}
<1>1. ASSUME Short # {} PROVE FALSE
  <2>1. PICK m \in Short : \A n \in Short : m <= n
    <3> HIDE DEF Short
    <3> QED BY <1>1, LeastNumber DEF Short
  <2>2. m # 0
    <3> DEFINE g == [i \in {0} |-> <<>>]
    <3>1. KeptOf(g, ids, gone, 0)
      BY DEF KeptOf
    <3> HIDE DEF g
    <3> QED BY <2>1, <3>1
  <2>3. m - 1 \in Nat /\ m - 1 \notin Short
    BY <2>1, <2>2
  <2>4. PICK f : KeptOf(f, ids, gone, m - 1)
    BY <2>3
  <2> DEFINE last == IF ids[m] \in gone THEN f[m - 1] ELSE Append(f[m - 1], ids[m])
             g == [i \in 0..m |-> IF i = m THEN last ELSE f[i]]
  <2>5. KeptOf(g, ids, gone, m)
    <3>1. g[0] = <<>> /\ g[m] = last /\ \A i \in 0..(m - 1) : g[i] = f[i]
      <4> HIDE DEF last
      <4> QED BY <2>2, <2>1, <2>4 DEF KeptOf
    <3> HIDE DEF g
    <3>2. \A i \in 1..(m - 1) : i - 1 \in 0..(m - 1) /\ i \in 0..(m - 1)
      BY <2>1
    <3>3. m - 1 \in 0..(m - 1)
      BY <2>3
    <3>4. \A i \in 1..m : i = m \/ i \in 1..(m - 1)
      BY <2>1
    <3> QED BY <2>4, <3>1, <3>2, <3>3, <3>4 DEF KeptOf
  <2> HIDE DEF g
  <2> QED BY <2>1, <2>5
<1>2. PICK g : KeptOf(g, ids, gone, Len(ids))
  BY <1>1
<1> DEFINE f == [i \in 0..Len(ids) |-> g[i]]
<1>3. f = [i \in 0..Len(ids) |->
             IF i = 0 THEN <<>>
             ELSE IF ids[i] \in gone THEN f[i - 1] ELSE Append(f[i - 1], ids[i])]
  <2>1. ASSUME NEW i \in 0..Len(ids), i # 0
        PROVE  i \in 1..Len(ids) /\ f[i] = g[i] /\ f[i - 1] = g[i - 1]
    BY <2>1
  <2>2. f[0] = <<>>
    BY <1>2 DEF KeptOf
  <2>3. \A i \in 0..Len(ids) : f[i] = IF i = 0 THEN <<>>
             ELSE IF ids[i] \in gone THEN f[i - 1] ELSE Append(f[i - 1], ids[i])
    <3> HIDE DEF f
    <3> QED BY <1>2, <2>1, <2>2 DEF KeptOf
  <2>4. f = [i \in 0..Len(ids) |-> f[i]]
    OBVIOUS
  <2> HIDE DEF f
  <2> QED BY <2>3, <2>4
<1> HIDE DEF f
<1> QED BY <1>3 DEF KeptEq

LEMMA WithoutIsKept ==
  ASSUME NEW ids, Len(ids) \in Nat, NEW gone
  PROVE  \E f : KeptOf(f, ids, gone, Len(ids)) /\ Without(ids, gone) = f[Len(ids)]
<1> DEFINE kept == CHOOSE kept : KeptEq(kept, ids, gone)
<1>1. Without(ids, gone) = kept[Len(ids)]
  BY DEF Without, KeptEq
<1> HIDE DEF kept
<1>2. KeptEq(kept, ids, gone)
  BY KeptExists DEF kept
<1>3. KeptOf(kept, ids, gone, Len(ids))
  <2>1. \A i \in 0..Len(ids) : kept[i] = IF i = 0 THEN <<>>
                       ELSE IF ids[i] \in gone THEN kept[i - 1] ELSE Append(kept[i - 1], ids[i])
    BY <1>2 DEF KeptEq
  <2> QED BY <2>1 DEF KeptOf
<1> QED BY <1>1, <1>3

\* One more column.
LEMMA AppendedColumn ==
  ASSUME NEW S, NEW t \in Seq(S), IsInjective(t), NEW e \in S, e \notin ToSet(t)
  PROVE  /\ Append(t, e) \in Seq(S) /\ IsInjective(Append(t, e))
         /\ ToSet(Append(t, e)) = ToSet(t) \cup {e}
<1>1. /\ Append(t, e) \in Seq(S) /\ Len(Append(t, e)) = Len(t) + 1 /\ Len(t) \in Nat
      /\ \A k \in 1..Len(t) : Append(t, e)[k] = t[k]
      /\ Append(t, e)[Len(t) + 1] = e
      /\ DOMAIN t = 1..Len(t) /\ DOMAIN Append(t, e) = 1..(Len(t) + 1)
  BY AppendProperties, LenProperties
<1> DEFINE a == Append(t, e)
<1> HIDE DEF a
<1>2. \A k \in 1..(Len(t) + 1) : k \in 1..Len(t) \/ k = Len(t) + 1
  BY <1>1
<1>3. IsInjective(a)
  BY <1>1, <1>2 DEF IsInjective, ToSet, a
<1>4. ToSet(a) = ToSet(t) \cup {e}
  BY <1>1, <1>2 DEF ToSet, a
<1> QED BY <1>1, <1>3, <1>4 DEF a

\* Of the first n columns those that are not gone are kept, each once.
KeptWell(f, ids, gone, S, n) ==
  /\ f[n] \in Seq(S) /\ IsInjective(f[n])
  /\ ToSet(f[n]) = {ids[k] : k \in 1..n} \ gone
  /\ gone = {} => Len(f[n]) = n /\ \A k \in 1..n : f[n][k] = ids[k]

LEMMA KeptWellAll ==
  ASSUME NEW S, NEW ids \in Seq(S), IsInjective(ids), NEW gone, NEW f, KeptOf(f, ids, gone, Len(ids))
  PROVE  KeptWell(f, ids, gone, S, Len(ids))
<1> DEFINE Bad == {n \in 0..Len(ids) : ~KeptWell(f, ids, gone, S, n)}
<1>0. Len(ids) \in Nat /\ DOMAIN ids = 1..Len(ids) /\ \A k \in 1..Len(ids) : ids[k] \in S
  BY LenProperties, ElementOfSeq
<1>1. ASSUME Bad # {} PROVE FALSE
  <2>1. PICK m \in Bad : \A n \in Bad : m <= n
    <3>1. Bad \subseteq Nat
      BY <1>0
    <3> HIDE DEF Bad
    <3> QED BY <1>1, <3>1, LeastNumber
  <2>2. m # 0
    <3>1. f[0] = <<>>
      BY DEF KeptOf
    <3>2. <<>> \in Seq(S) /\ Len(<<>>) = 0 /\ DOMAIN <<>> = {}
      BY EmptySeq
    <3>3. KeptWell(f, ids, gone, S, 0)
      BY <3>1, <3>2 DEF KeptWell, IsInjective, ToSet
    <3> QED BY <2>1, <3>3
  <2>3. m \in 1..Len(ids) /\ m - 1 \in 0..Len(ids) /\ m - 1 \notin Bad
    BY <1>0, <2>1, <2>2
  <2>4. KeptWell(f, ids, gone, S, m - 1)
    BY <2>3
  <2>5. f[m] = IF ids[m] \in gone THEN f[m - 1] ELSE Append(f[m - 1], ids[m])
    BY <2>3 DEF KeptOf
  <2>6. {ids[k] : k \in 1..m} = {ids[k] : k \in 1..(m - 1)} \cup {ids[m]}
    <3>1. \A k \in 1..m : k \in 1..(m - 1) \/ k = m
      BY <2>3
    <3> QED BY <2>3, <3>1
  <2>7. ids[m] \in S /\ ids[m] \notin {ids[k] : k \in 1..(m - 1)}
    BY <1>0, <2>3 DEF IsInjective
  <2>8. CASE ids[m] \in gone
    BY <2>4, <2>5, <2>6, <2>8 DEF KeptWell
  <2>9. CASE ids[m] \notin gone
    <3> DEFINE t == f[m - 1]
    <3>1. t \in Seq(S) /\ IsInjective(t) /\ ids[m] \notin ToSet(t)
      BY <2>4, <2>7 DEF KeptWell
    <3> HIDE DEF t
    <3>2. /\ Append(t, ids[m]) \in Seq(S) /\ IsInjective(Append(t, ids[m]))
          /\ ToSet(Append(t, ids[m])) = ToSet(t) \cup {ids[m]}
      BY <2>7, <3>1, AppendedColumn
    <3>3. f[m] = Append(t, ids[m]) /\ ToSet(t) = {ids[k] : k \in 1..(m - 1)} \ gone
      BY <2>4, <2>5, <2>9 DEF t, KeptWell
    <3>4. gone = {} => Len(f[m]) = m /\ \A k \in 1..m : f[m][k] = ids[k]
      <4> SUFFICES ASSUME gone = {} PROVE Len(f[m]) = m /\ \A k \in 1..m : f[m][k] = ids[k]
        OBVIOUS
      <4>1. Len(t) = m - 1 /\ \A k \in 1..(m - 1) : t[k] = ids[k]
        BY <2>4 DEF t, KeptWell
      <4>2. /\ Len(Append(t, ids[m])) = m /\ Append(t, ids[m])[m] = ids[m]
            /\ \A k \in 1..(m - 1) : Append(t, ids[m])[k] = t[k]
        BY <2>3, <2>7, <3>1, <4>1, AppendProperties
      <4>3. \A k \in 1..m : k \in 1..(m - 1) \/ k = m
        BY <2>3
      <4> QED BY <3>3, <4>1, <4>2, <4>3
    <3> QED BY <2>6, <2>9, <3>2, <3>3, <3>4 DEF KeptWell
  <2> QED BY <2>1, <2>8, <2>9
<1> QED BY <1>0, <1>1

\* Taking columns away keeps the others, each once, and their order where none
\* goes.
LEMMA WithoutKeeps ==
  ASSUME NEW S, NEW ids \in Seq(S), IsInjective(ids), NEW gone
  PROVE  /\ Without(ids, gone) \in Seq(S) /\ IsInjective(Without(ids, gone))
         /\ ToSet(Without(ids, gone)) = ToSet(ids) \ gone
         /\ gone = {} => Without(ids, gone) = ids
<1>1. Len(ids) \in Nat /\ DOMAIN ids = 1..Len(ids)
  BY LenProperties
<1>2. PICK f : KeptOf(f, ids, gone, Len(ids)) /\ Without(ids, gone) = f[Len(ids)]
  BY <1>1, WithoutIsKept
<1>3. KeptWell(f, ids, gone, S, Len(ids))
  BY <1>2, KeptWellAll
<1>4. ToSet(ids) = {ids[k] : k \in 1..Len(ids)}
  BY <1>1 DEF ToSet
<1>5. ASSUME gone = {} PROVE Without(ids, gone) = ids
  BY <1>2, <1>3, <1>5, SeqEqual DEF KeptWell
<1> QED BY <1>2, <1>3, <1>4, <1>5 DEF KeptWell
\* The attributes come second.
LEMMA AttributesInserted ==
  ASSUME NEW S, NEW ids \in Seq(S), ids # <<>>, IsInjective(ids),
         NEW e \in S, e \notin ToSet(ids)
  PROVE  LET more == <<ids[1], e>> \o Tail(ids)
         IN /\ more \in Seq(S) /\ IsInjective(more)
            /\ ToSet(ids) \subseteq ToSet(more)
            /\ \A k \in DOMAIN more : more[k] = e => k = 2
<1> DEFINE more == <<ids[1], e>> \o Tail(ids)
<1>1. /\ Len(ids) \in Nat \ {0} /\ DOMAIN ids = 1..Len(ids)
      /\ \A k \in 1..Len(ids) : ids[k] \in S
  BY LenProperties, EmptySeq, ElementOfSeq
<1>2. /\ Tail(ids) \in Seq(S) /\ Len(Tail(ids)) = Len(ids) - 1
      /\ \A k \in 1..(Len(ids) - 1) : Tail(ids)[k] = ids[k + 1]
  BY HeadTailProperties
<1>3. <<ids[1], e>> \in Seq(S) /\ Len(<<ids[1], e>>) = 2
      /\ <<ids[1], e>>[1] = ids[1] /\ <<ids[1], e>>[2] = e
  BY <1>1
<1>4. /\ more \in Seq(S) /\ Len(more) = Len(ids) + 1 /\ DOMAIN more = 1..(Len(ids) + 1)
      /\ more[1] = ids[1] /\ more[2] = e
      /\ \A k \in 3..(Len(ids) + 1) : more[k] = ids[k - 1]
  <2> DEFINE two == <<ids[1], e>>  rest == Tail(ids)
  <2> HIDE DEF two, rest
  <2>1. two \o rest \in Seq(S) /\ Len(two \o rest) = Len(two) + Len(rest)
        /\ \A k \in 1..(Len(two) + Len(rest)) :
             (two \o rest)[k] = IF k <= Len(two) THEN two[k] ELSE rest[k - Len(two)]
    BY <1>2, <1>3, ConcatProperties DEF two, rest
  <2>2. more = two \o rest
    BY DEF two, rest
  <2> HIDE DEF more
  <2>3. \A k \in 3..(Len(ids) + 1) : k - 2 \in 1..(Len(ids) - 1) /\ (k - 2) + 1 = k - 1
    BY <1>1
  <2>4. Len(two) = 2 /\ two[1] = ids[1] /\ two[2] = e /\ Len(rest) = Len(ids) - 1
    BY <1>2, <1>3 DEF two, rest
  <2>5. \A k \in 1..(Len(ids) - 1) : rest[k] = ids[k + 1]
    BY <1>2 DEF rest
  <2>6. DOMAIN more = 1..Len(more)
    BY <2>1, <2>2, LenProperties
  <2> QED BY <1>1, <2>1, <2>2, <2>3, <2>4, <2>5, <2>6
<1> HIDE DEF more
<1>5. \A k \in 1..(Len(ids) + 1) : k = 1 \/ k = 2 \/ (k \in 3..(Len(ids) + 1) /\ k - 1 \in 2..Len(ids))
  BY <1>1
<1>6. \A k \in 1..Len(ids) : ids[k] # e
  BY <1>1 DEF ToSet
<1>7. \A k \in DOMAIN more : more[k] = e => k = 2
  BY <1>1, <1>4, <1>5, <1>6
<1>8. IsInjective(more)
  <2> SUFFICES ASSUME NEW a \in 1..(Len(ids) + 1), NEW b \in 1..(Len(ids) + 1), more[a] = more[b]
               PROVE  a = b
    BY <1>4 DEF IsInjective
  <2>1. \A i, j \in 1..Len(ids) : ids[i] = ids[j] => i = j
    BY <1>1 DEF IsInjective
  <2>2. CASE a = 2 \/ b = 2
    BY <1>4, <1>7, <2>2
  <2>3. CASE a # 2 /\ b # 2
    <3> DEFINE place(k) == IF k = 1 THEN 1 ELSE k - 1
    <3>1. /\ place(a) \in 1..Len(ids) /\ more[a] = ids[place(a)]
          /\ place(b) \in 1..Len(ids) /\ more[b] = ids[place(b)]
      BY <1>1, <1>4, <1>5, <2>3
    <3>2. place(a) = place(b)
      BY <2>1, <3>1
    <3> QED BY <1>1, <1>5, <2>3, <3>2
  <2> QED BY <2>2, <2>3
<1>9. ToSet(ids) \subseteq ToSet(more)
  <2>1. \A k \in 1..Len(ids) : \E j \in 1..(Len(ids) + 1) : more[j] = ids[k]
    <3> TAKE k \in 1..Len(ids)
    <3>1. CASE k = 1
      BY <1>1, <1>4, <3>1
    <3>2. CASE k # 1
      <4>1. k + 1 \in 3..(Len(ids) + 1) /\ (k + 1) - 1 = k /\ k + 1 \in 1..(Len(ids) + 1)
        BY <1>1, <3>2
      <4> QED BY <1>4, <4>1
    <3> QED BY <3>1, <3>2
  <2> QED BY <1>1, <1>4, <2>1 DEF ToSet
<1> QED BY <1>4, <1>7, <1>8, <1>9 DEF more

LEMMA ColumnsKept == ASSUME ColumnsInv, UNCHANGED columnVars PROVE ColumnsInv'
BY DEF ColumnsInv, AttributesWithDetails, columnVars

\* An answer takes the attributes away with the first blank column, or nothing.
LEMMA FormatKeepsColumns ==
  ASSUME ColumnsInv, NEW rows, FormatColumn(rows), UNCHANGED detailToggle
  PROVE  ColumnsInv'
<1> DEFINE blank == {c \in ToSet(nodeColumnIds) : rows # {} /\ Blank(c, rows)}
           gone == IF blank = {} THEN {} ELSE blank \cup {Attributes}
<1>1. nodeColumnIds' = Without(nodeColumnIds, gone)
  BY DEF FormatColumn
<1>2. IndicatorIcon \notin gone
  BY DEF Blank, IndicatorIcon, Attributes
<1>3. gone = {} \/ Attributes \in gone
  OBVIOUS
<1> HIDE DEF gone
<1>4. nodeColumnIds \in Seq(Columns) /\ IsInjective(nodeColumnIds)
  BY DEF ColumnsInv, AttributesWithDetails
<1>5. /\ nodeColumnIds' \in Seq(Columns) /\ IsInjective(nodeColumnIds')
      /\ ToSet(nodeColumnIds') = ToSet(nodeColumnIds) \ gone
      /\ gone = {} => nodeColumnIds' = nodeColumnIds
  BY <1>1, <1>4, WithoutKeeps
<1>6. CASE gone = {}
  BY <1>5, <1>6 DEF ColumnsInv, AttributesWithDetails
<1>7. CASE Attributes \in gone
  <2>1. \A k \in DOMAIN nodeColumnIds' : nodeColumnIds'[k] # Attributes
    BY <1>5, <1>7 DEF ToSet
  <2> QED BY <1>2, <1>5, <2>1 DEF ColumnsInv, AttributesWithDetails
<1> QED BY <1>3, <1>6, <1>7

LEMMA ToggleKeepsColumns ==
  ASSUME ColumnsInv, detailToggle \in BOOLEAN, Toggle
  PROVE  ColumnsInv'
<1>1. nodeColumnIds \in Seq(Columns) /\ IsInjective(nodeColumnIds)
      /\ IndicatorIcon \in ToSet(nodeColumnIds) /\ ToSet(nodeColumnIds) \subseteq Columns
  BY DEF ColumnsInv, AttributesWithDetails
<1>2. CASE detailToggle
  <2>1. nodeColumnIds' = Without(nodeColumnIds, {Attributes})
    BY <1>2 DEF Toggle, DisplayAttribute
  <2>2. /\ nodeColumnIds' \in Seq(Columns) /\ IsInjective(nodeColumnIds')
        /\ ToSet(nodeColumnIds') = ToSet(nodeColumnIds) \ {Attributes}
    BY <1>1, <2>1, WithoutKeeps
  <2>3. \A k \in DOMAIN nodeColumnIds' : nodeColumnIds'[k] # Attributes
    BY <2>2 DEF ToSet
  <2>4. IndicatorIcon # Attributes
    BY DEF IndicatorIcon, Attributes
  <2> QED BY <1>1, <2>2, <2>3, <2>4 DEF ColumnsInv, AttributesWithDetails
<1>3. CASE ~detailToggle
  <2>1. nodeColumnIds' = <<nodeColumnIds[1], Attributes>> \o Tail(nodeColumnIds) /\ detailToggle'
    BY <1>3 DEF Toggle, DisplayAttribute
  <2>2. Attributes \notin ToSet(nodeColumnIds) /\ Attributes \in Columns
    BY <1>3 DEF ColumnsInv, AttributesWithDetails, ToSet, Columns
  <2>3. nodeColumnIds # <<>>
    <3>1. DOMAIN <<>> = {}
      OBVIOUS
    <3> QED BY <1>1, <3>1 DEF ToSet
  <2>4. /\ nodeColumnIds' \in Seq(Columns) /\ IsInjective(nodeColumnIds')
        /\ ToSet(nodeColumnIds) \subseteq ToSet(nodeColumnIds')
        /\ \A k \in DOMAIN nodeColumnIds' : nodeColumnIds'[k] = Attributes => k = 2
    BY <1>1, <2>1, <2>2, <2>3, AttributesInserted
  <2>5. ToSet(nodeColumnIds') \subseteq Columns
    BY <2>4, LenProperties, ElementOfSeq DEF ToSet
  <2> QED BY <1>1, <2>1, <2>4, <2>5 DEF ColumnsInv, AttributesWithDetails
<1> QED BY <1>2, <1>3

LEMMA ColumnsInit == Init => ColumnsInv
<1> SUFFICES ASSUME Init PROVE ColumnsInv
  OBVIOUS
<1>1. nodeColumnIds = Append(ColumnIds, IndicatorIcon)
  BY DEF Init
<1>2. ColumnIds \in Seq(ToSet(ColumnIds)) /\ IsInjective(ColumnIds)
  <2>1. ColumnIds \in Seq(STRING) /\ IsInjective(ColumnIds)
    BY ConstantsAssumption DEF ConstantsAssumption
  <2>2. \A k \in 1..Len(ColumnIds) : ColumnIds[k] \in ToSet(ColumnIds)
    BY <2>1, LenProperties DEF ToSet
  <2>3. ColumnIds \in Seq(ToSet(ColumnIds))
    BY <2>1, <2>2, LenProperties, SeqDef
  <2> QED BY <2>1, <2>3
<1>3. IndicatorIcon \in Columns /\ IndicatorIcon \notin ToSet(ColumnIds)
      /\ Attributes \notin ToSet(ColumnIds) /\ IndicatorIcon # Attributes
  BY ConstantsAssumption DEF ConstantsAssumption, Columns, IndicatorIcon, Attributes
<1>4. ColumnIds \in Seq(Columns)
  BY <1>2, SeqMonotonic DEF Columns
<1>5. /\ nodeColumnIds \in Seq(Columns) /\ IsInjective(nodeColumnIds)
      /\ ToSet(nodeColumnIds) = ToSet(ColumnIds) \cup {IndicatorIcon}
  BY <1>1, <1>2, <1>3, <1>4, AppendedColumn
<1>6. \A k \in DOMAIN nodeColumnIds : nodeColumnIds[k] # Attributes
  BY <1>3, <1>5 DEF ToSet
<1> QED BY <1>5, <1>6 DEF ColumnsInv, AttributesWithDetails, Columns

\* No column is drawn twice and the attributes show only with the details, in
\* the second place, for any columns and any answers that take some away
\* (formatColumn, displayAttribute).
THEOREM ColumnsCorrect == Spec => []AttributesWithDetails
<1>1. NodesInv /\ ColumnsInv /\ [Next]_vars => ColumnsInv'
  <2> SUFFICES ASSUME NodesInv, ColumnsInv, [Next]_vars PROVE ColumnsInv'
    OBVIOUS
  <2>1. ASSUME NEW i, NodesAnswered(i) PROVE ColumnsInv'
    BY <2>1, FormatKeepsColumns DEF NodesAnswered
  <2>2. CASE Toggle
    BY <2>2, ToggleKeepsColumns DEF NodesInv, SelectionInv, TypeOK
  <2>3. CASE \/ PartitionsAnswered \/ PartitionsFailed
             \/ \E i \in DOMAIN nodeCalls : NodesFailed(i)
             \/ \E p \in Partitions : OnPartitionSelectionChanged(p)
    BY <2>3, ColumnsKept
       DEF PartitionsAnswered, PartitionsFailed, NodesFailed, OnPartitionSelectionChanged
  <2>4. CASE \/ \E r \in nodeData : ToggleRowSelection(r)
             \/ \E text \in Nodes \cup {None} : ApplyFilter(text)
             \/ OnPaginatorChanged \/ UNCHANGED vars
    BY <2>4, ColumnsKept DEF ToggleRowSelection, ApplyFilter, OnPaginatorChanged, vars
  <2> QED BY <2>1, <2>2, <2>3, <2>4 DEF Next, Clicks
<1>2. ColumnsInv => AttributesWithDetails
  BY DEF ColumnsInv
<1> QED BY <1>1, <1>2, ColumnsInit, NodesInvariant, PTL DEF Spec
=============================================================================
