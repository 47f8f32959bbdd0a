--------------------------- MODULE AppsView_proofs ---------------------------
(***************************************************************************)
(* Theorems of AppsView, for any partitions, queues and applications, any  *)
(* stored pair and query, and answers in any order.                        *)
(***************************************************************************)
EXTENDS AppsView, SequenceTheorems, TLAPS

\* The lists come before the choices: no queue is offered and no queue tree
\* under way without a partition, and nothing at all before the first answer.
PartitionsFirst ==
  /\ partitionsCall => partitionList = {} /\ leafQueueList = {} /\ queueCalls = <<>>
  /\ leafQueueList # {} \/ queueCalls # <<>> => partitionSelected # None

\* localStorage holds no queue without a partition.
StoredWithPartition == stored # NoPair => stored[1] # None

\* A flagged row is in the table, unless the table was emptied under it, and an
\* earlier answer's row that is still selected has no flag in this one.
FlagsInTable ==
  /\ appData # {} => isSelected \subseteq appData
  /\ selectedIsStale => isSelected = {}

\* With answers in order the newest request is for the queue selected, and with
\* none under way the last answer was.
NewestIsSelection ==
  /\ partitionsCall => leafQueueSelected = None
  /\ reliable /\ leafQueueSelected # None =>
       IF appCalls = <<>>
       THEN initialAppData = Rows(partitionSelected, leafQueueSelected)
       ELSE /\ appCalls[Len(appCalls)].partition = partitionSelected
            /\ appCalls[Len(appCalls)].queue = leafQueueSelected

\* The inductive invariant behind the safety properties.
AppsInv ==
  /\ TypeOK
  /\ OneRowSelected /\ AllocationsFollowSelection /\ FlagsInTable
  /\ StoredIsSelection /\ StoredWithPartition /\ PartitionsFirst

-----------------------------------------------------------------------------
(* Facts about the operators *)

\* An answer takes one request out of those in flight.
LEMMA RemoveAtTyped ==
  ASSUME NEW S, NEW s \in Seq(S), NEW i \in DOMAIN s
  PROVE  RemoveAt(s, i) \in Seq(S)
<1>1. i \in 1..Len(s) /\ Len(s) \in Nat
  BY LenProperties
<1>2. SubSeq(s, 1, i - 1) \in Seq(S)
  BY <1>1, SubSeqProperties
<1>3. SubSeq(s, i + 1, Len(s)) \in Seq(S)
  BY <1>1, SubSeqProperties
<1> QED BY <1>2, <1>3, ConcatProperties DEF RemoveAt

\* An answer in order leaves the newest request the newest.
LEMMA OldestAnswered ==
  ASSUME NEW S, NEW s \in Seq(S), s # <<>>
  PROVE  /\ RemoveAt(s, 1) = <<>> => Len(s) = 1
         /\ RemoveAt(s, 1) # <<>> => RemoveAt(s, 1)[Len(RemoveAt(s, 1))] = s[Len(s)]
<1>1. Len(s) \in Nat \ {0} /\ s \in [1..Len(s) -> S]
  BY LenProperties, EmptySeq
<1> DEFINE rest == SubSeq(s, 2, Len(s))
<1>2. /\ rest \in Seq(S) /\ Len(rest) = Len(s) - 1
      /\ \A k \in 1..(Len(s) - 1) : rest[k] = s[k + 1]
  <2>1. \A k \in 2..Len(s) : s[k] \in S
    BY <1>1
  <2> QED BY <1>1, <2>1, SubSeqProperties
<1>3. SubSeq(s, 1, 0) = <<>>
  BY SubSeqEmpty
<1>4. RemoveAt(s, 1) = rest
  <2>1. RemoveAt(s, 1) = <<>> \o rest
    BY <1>3 DEF RemoveAt
  <2> HIDE DEF rest
  <2> QED BY <1>2, <2>1, ConcatEmptySeq
<1> HIDE DEF rest
<1>5. rest = <<>> => Len(s) = 1
  <2>1. Len(<<>>) = 0
    BY EmptySeq
  <2>2. Len(s) \in Nat /\ Len(rest) = Len(s) - 1
    BY <1>1, <1>2
  <2> QED BY <2>1, <2>2
<1>6. rest # <<>> => rest[Len(rest)] = s[Len(s)]
  <2> SUFFICES ASSUME rest # <<>> PROVE rest[Len(rest)] = s[Len(s)]
    OBVIOUS
  <2>1. Len(rest) \in Nat \ {0}
    BY <1>2, EmptySeq
  <2> QED BY <1>1, <1>2, <2>1
<1> QED BY <1>4, <1>5, <1>6

LEMMA AppendedLast ==
  ASSUME NEW S, NEW s \in Seq(S), NEW e \in S
  PROVE  /\ Append(s, e) \in Seq(S) /\ Append(s, e) # <<>>
         /\ Append(s, e)[Len(Append(s, e))] = e
BY AppendProperties, LenProperties

LEMMA ValuesTyped ==
  /\ NoPair \in Pairs /\ NoQuery \in Query /\ NoRow \notin Row
  /\ \A p, q : Rows(p, q) \subseteq Row
BY ConstantsAssumption DEF NoPair, Pairs, NoQuery, Query, NoRow, Row, Rows, ConstantsAssumption

\* An answer names an application at most once.
LEMMA NamedOnce ==
  ASSUME NEW p, NEW q, NEW app, NEW r \in Rows(p, q), NEW s \in Rows(p, q),
         r.app = app, s.app = app
  PROVE  r = s
BY DEF Rows, Row

-----------------------------------------------------------------------------
(* Rows *)

\* What the rows keep between them, apart from the rest of the view.
RowsInv ==
  /\ initialAppData \subseteq Row /\ appData \subseteq initialAppData
  /\ isSelected \subseteq initialAppData
  /\ selectedRow \in Row \cup {NoRow} /\ selectedIsStale \in BOOLEAN
  /\ allocOwner \in Row \cup {NoRow}
  /\ OneRowSelected /\ AllocationsFollowSelection /\ FlagsInTable

\* And the choices.
ChoicesInv ==
  /\ reliable \in BOOLEAN
  /\ partitionsCall \in BOOLEAN /\ partitionList \subseteq Partitions
  /\ partitionSelected \in Partitions \cup {None}
  /\ leafQueueList \subseteq Queues /\ leafQueueSelected \in Queues \cup {None}
  /\ searchText \in Apps \cup {None} /\ searchPending \in BOOLEAN
  /\ queueCalls \in Seq(Partitions) /\ appCalls \in Seq(Query)
  /\ query \in Query /\ stored \in Pairs /\ spinner \in BOOLEAN
  /\ StoredIsSelection /\ StoredWithPartition /\ PartitionsFirst

LEMMA InvSplits == AppsInv <=> RowsInv /\ ChoicesInv
BY DEF AppsInv, RowsInv, ChoicesInv, TypeOK

\* removeRowSelection lowers the one flag, whatever becomes of the table.
LEMMA RemoveSelectionKeeps ==
  ASSUME RowsInv, RemoveRowSelection, UNCHANGED initialAppData, appData' \subseteq initialAppData
  PROVE  RowsInv'
<1>1. isSelected' = {}
  BY DEF RowsInv, OneRowSelected, FlagsInTable, RemoveRowSelection, Unflag
<1>2. selectedRow' = NoRow /\ allocOwner' = NoRow /\ selectedIsStale' = FALSE
  BY DEF RowsInv, AllocationsFollowSelection, RemoveRowSelection
<1> QED BY <1>1, <1>2 DEF RowsInv, OneRowSelected, AllocationsFollowSelection, FlagsInTable

\* A table emptied by an answer about partitions or queues keeps its flags.
LEMMA EmptiedKeeps ==
  ASSUME RowsInv, UNCHANGED <<initialAppData, isSelected, rowVars>>, appData' \in {appData, {}}
  PROVE  RowsInv'
BY DEF RowsInv, rowVars, OneRowSelected, AllocationsFollowSelection, FlagsInTable

LEMMA ToggleKeeps ==
  ASSUME RowsInv, NEW r, ToggleRowSelection(r)
  PROVE  RowsInv'
<1>1. r \in appData /\ r \in Row /\ UNCHANGED <<initialAppData, appData>>
      /\ isSelected \subseteq appData /\ isSelected \subseteq {selectedRow}
  BY DEF ToggleRowSelection, RowsInv, FlagsInTable, OneRowSelected
<1>2. r # NoRow
  BY <1>1, ValuesTyped
<1>3. CASE r \in isSelected
  <2>1. isSelected = {r} /\ selectedRow = r /\ ~selectedIsStale
    BY <1>1, <1>3 DEF RowsInv, FlagsInTable
  <2>2. isSelected' = {} /\ selectedRow' = NoRow /\ allocOwner' = NoRow /\ selectedIsStale' = FALSE
    BY <1>2, <1>3, <2>1 DEF ToggleRowSelection, Unflag
  <2> QED BY <1>1, <2>2 DEF RowsInv, OneRowSelected, AllocationsFollowSelection, FlagsInTable
<1>4. CASE r \notin isSelected
  <2>1. isSelected' = {r} /\ selectedRow' = r /\ allocOwner' = r /\ selectedIsStale' = FALSE
    BY <1>1, <1>4 DEF ToggleRowSelection
  <2> QED BY <1>1, <2>1 DEF RowsInv, OneRowSelected, AllocationsFollowSelection, FlagsInTable
<1> QED BY <1>3, <1>4

\* An answer flags the row its request named, or leaves the selected one behind.
LEMMA AnswerKeeps ==
  ASSUME RowsInv, NEW i, AppsAnswered(i)
  PROVE  RowsInv'
<1> DEFINE rows == Rows(appCalls[i].partition, appCalls[i].queue)
           named == {r \in rows : r.app = appCalls[i].app}
<1>1. initialAppData' = rows /\ appData' = rows /\ isSelected' = named
  BY DEF AppsAnswered, ShowAnswer
<1>2. rows \subseteq Row /\ named \subseteq rows
  BY ValuesTyped
<1>3. CASE named = {}
  <2>1. UNCHANGED <<selectedRow, allocOwner>> /\ selectedIsStale' = (selectedRow # NoRow)
    BY <1>3 DEF AppsAnswered
  <2> QED BY <1>1, <1>2, <1>3, <2>1
          DEF RowsInv, OneRowSelected, AllocationsFollowSelection, FlagsInTable
<1>4. CASE named # {}
  <2>1. selectedIsStale' = FALSE /\ selectedRow' \in named /\ allocOwner' = selectedRow'
    BY <1>4 DEF AppsAnswered
  <2>2. named \subseteq {selectedRow'}
    <3>1. \A r, s \in rows : r.app = appCalls[i].app /\ s.app = appCalls[i].app => r = s
      BY NamedOnce
    <3> QED BY <2>1, <3>1
  <2> QED BY <1>1, <1>2, <2>1, <2>2
          DEF RowsInv, OneRowSelected, AllocationsFollowSelection, FlagsInTable
<1> QED BY <1>3, <1>4

\* Steps that concern neither.
LEMMA RowsUntouched ==
  ASSUME RowsInv, UNCHANGED <<tableVars, rowVars>>
  PROVE  RowsInv'
BY DEF RowsInv, tableVars, rowVars, OneRowSelected, AllocationsFollowSelection, FlagsInTable

LEMMA RowsStep ==
  ASSUME AppsInv, [Next]_vars
  PROVE  RowsInv'
<1>0. RowsInv
  BY InvSplits
<1>1. CASE PartitionsAnswered
  BY <1>0, <1>1, EmptiedKeeps DEF PartitionsAnswered
<1>2. ASSUME NEW i, QueuesAnswered(i)
      PROVE  RowsInv'
  BY <1>0, <1>2, EmptiedKeeps DEF QueuesAnswered, UseQuery, SetDefaultQueue
<1>3. ASSUME NEW i, AppsAnswered(i)
      PROVE  RowsInv'
  BY <1>0, <1>3, AnswerKeeps
<1>4. ASSUME NEW r, ToggleRowSelection(r)
      PROVE  RowsInv'
  BY <1>0, <1>4, ToggleKeeps
<1>5. ASSUME \/ \E p \in Partitions : OnPartitionSelectionChanged(p)
             \/ \E q \in Queues : OnQueueSelectionChanged(q)
             \/ OnQueueDeselected \/ SearchFires \/ ClearSearch \/ Paginate
      PROVE  RowsInv'
  <2>1. RemoveRowSelection /\ UNCHANGED initialAppData
    BY <1>5 DEF OnPartitionSelectionChanged, OnQueueSelectionChanged, OnQueueDeselected,
                SearchFires, ClearSearch, Paginate
  <2>2. appData' \subseteq initialAppData
    BY <1>0, <1>5 DEF OnPartitionSelectionChanged, OnQueueSelectionChanged, OnQueueDeselected,
                SearchFires, ClearSearch, Paginate, RowsInv
  <2> QED BY <1>0, <2>1, <2>2, RemoveSelectionKeeps
<1>6. ASSUME \/ PartitionsFailed \/ UNCHANGED vars
             \/ \E i \in DOMAIN queueCalls : QueuesMissing(i)
             \/ \E i \in DOMAIN appCalls : AppsFailed(i)
             \/ \E text \in Apps \cup {None} : Type(text)
      PROVE  RowsInv'
  <2>1. UNCHANGED <<tableVars, rowVars>>
    BY <1>6 DEF PartitionsFailed, QueuesMissing, AppsFailed, Type, vars
  <2> QED BY <1>0, <2>1, RowsUntouched
<1> QED BY <1>1, <1>2, <1>3, <1>4, <1>5, <1>6 DEF Next

-----------------------------------------------------------------------------
(* Choices *)

\* The partition an answer with a list selects is one, and a queue selected
\* before is stored with it.
LEMMA FirstChoice ==
  ASSUME ChoicesInv, partitionSelected' = IF stored = NoPair THEN FirstPartition ELSE stored[1]
  PROVE  /\ partitionSelected' \in Partitions
         /\ leafQueueSelected # None => partitionSelected' = partitionSelected
<1>1. stored # NoPair => stored[1] \in Partitions
  BY DEF ChoicesInv, StoredWithPartition, Pairs
<1>2. leafQueueSelected # None => stored # NoPair /\ stored[1] = partitionSelected
  BY DEF ChoicesInv, StoredIsSelection, NoPair
<1> QED BY <1>1, <1>2, ConstantsAssumption DEF ConstantsAssumption

LEMMA PartitionsAnsweredStep ==
  ASSUME ChoicesInv, PartitionsAnswered
  PROVE  ChoicesInv'
<1>1. /\ partitionsCall' = FALSE /\ spinner' = FALSE
      /\ UNCHANGED <<reliable, searchText, searchPending, appCalls, query>>
  BY DEF PartitionsAnswered, searchVars
<1>2. CASE /\ partitionList' = Partitions
           /\ partitionSelected' = IF stored = NoPair THEN FirstPartition ELSE stored[1]
           /\ SendQueues(partitionSelected')
           /\ UNCHANGED <<leafQueueList, leafQueueSelected, stored>>
  <2>1. /\ partitionSelected' \in Partitions
        /\ leafQueueSelected # None => partitionSelected' = partitionSelected
    BY <1>2, FirstChoice
  <2>2. queueCalls' \in Seq(Partitions)
    BY <1>2, <2>1, AppendProperties DEF SendQueues, ChoicesInv
  <2> QED BY <1>1, <1>2, <2>1, <2>2, ConstantsAssumption
          DEF ChoicesInv, StoredIsSelection, StoredWithPartition, PartitionsFirst,
              ConstantsAssumption
<1>3. CASE /\ partitionList' = {} /\ partitionSelected' = None
           /\ leafQueueList' = {} /\ leafQueueSelected' = None /\ stored' = NoPair
           /\ UNCHANGED queueCalls
  <2>1. queueCalls = <<>>
    BY DEF PartitionsAnswered, ChoicesInv, PartitionsFirst
  <2> QED BY <1>1, <1>3, <2>1, ValuesTyped
          DEF ChoicesInv, StoredIsSelection, StoredWithPartition, PartitionsFirst
<1> QED BY <1>2, <1>3 DEF PartitionsAnswered

\* A queue tree comes for a partition, after the partitions, and a link or the
\* stored pair may choose the queue.
LEMMA QueuesAnsweredStep ==
  ASSUME ChoicesInv, NEW i, QueuesAnswered(i)
  PROVE  ChoicesInv'
<1>1. /\ i \in DOMAIN queueCalls /\ queueCalls' = RemoveAt(queueCalls, i)
      /\ leafQueueList' = Leaves[queueCalls[i]] /\ spinner' = FALSE
      /\ UNCHANGED <<reliable, partitionsCall, partitionList, searchText, searchPending>>
  BY DEF QueuesAnswered, Due, searchVars
<1>2. queueCalls' \in Seq(Partitions)
  BY <1>1, RemoveAtTyped DEF ChoicesInv
<1>3. queueCalls[i] \in Partitions /\ queueCalls # <<>>
  BY <1>1, ElementOfSeq, LenProperties, EmptySeq DEF ChoicesInv
<1>4. leafQueueList' \subseteq Queues
  BY <1>1, <1>3, ConstantsAssumption DEF ConstantsAssumption
<1>5. ~partitionsCall /\ partitionSelected # None /\ partitionSelected \in Partitions
  BY <1>3 DEF ChoicesInv, PartitionsFirst
<1>6. CASE UseQuery
  <2>1. /\ query.partition \in Partitions /\ query.queue \in Queues /\ query.app \in Apps \cup {None}
        /\ partitionSelected' = query.partition /\ leafQueueSelected' = query.queue
        /\ stored' = <<query.partition, query.queue>> /\ query' = NoQuery
    BY <1>6 DEF UseQuery, ChoicesInv, Query
  <2>2. appCalls' \in Seq(Query)
    <3>1. [partition |-> query.partition, queue |-> query.queue, app |-> query.app] \in Query
      BY <2>1 DEF Query
    <3> QED BY <1>6, <3>1, AppendProperties DEF UseQuery, SendApps, ChoicesInv
  <2>3. stored' \in Pairs /\ stored'[1] # None
    BY <2>1, ConstantsAssumption DEF Pairs, ConstantsAssumption
  <2> QED BY <1>1, <1>2, <1>4, <1>5, <2>1, <2>2, <2>3, ValuesTyped, ConstantsAssumption
          DEF ChoicesInv, StoredIsSelection, StoredWithPartition, PartitionsFirst,
              ConstantsAssumption
<1>7. CASE SetDefaultQueue(Leaves[queueCalls[i]])
  <2>1. UNCHANGED <<partitionSelected, query, stored>>
    BY <1>7 DEF SetDefaultQueue
  <2>2. /\ leafQueueSelected' \in Queues \cup {None}
        /\ leafQueueSelected' # None => stored = <<partitionSelected, leafQueueSelected'>>
    <3>1. CASE leafQueueSelected' = leafQueueSelected
      BY <3>1 DEF ChoicesInv, StoredIsSelection
    <3>2. CASE /\ stored[1] = partitionSelected /\ stored[2] \in Leaves[queueCalls[i]]
               /\ leafQueueSelected' = stored[2]
      BY <1>1, <1>4, <3>2 DEF ChoicesInv, Pairs
    <3>3. CASE leafQueueSelected' = None
      BY <3>3
    <3> QED BY <1>7, <3>1, <3>2, <3>3 DEF SetDefaultQueue
  <2>3. appCalls' \in Seq(Query)
    <3>1. CASE UNCHANGED appCalls
      BY <3>1 DEF ChoicesInv
    <3>2. CASE stored[2] \in Leaves[queueCalls[i]] /\ SendApps(partitionSelected, stored[2], None)
      <4>1. [partition |-> partitionSelected, queue |-> stored[2], app |-> None] \in Query
        BY <1>1, <1>4, <1>5, <3>2 DEF Query
      <4> QED BY <3>2, <4>1, AppendProperties DEF SendApps, ChoicesInv
    <3> QED BY <1>7, <3>1, <3>2 DEF SetDefaultQueue
  <2> QED BY <1>1, <1>2, <1>4, <1>5, <2>1, <2>2, <2>3
          DEF ChoicesInv, StoredIsSelection, StoredWithPartition, PartitionsFirst
<1> QED BY <1>6, <1>7 DEF QueuesAnswered

LEMMA QueuesMissingStep ==
  ASSUME ChoicesInv, NEW i, QueuesMissing(i)
  PROVE  ChoicesInv'
<1>1. /\ i \in DOMAIN queueCalls /\ queueCalls' = RemoveAt(queueCalls, i)
      /\ leafQueueList' \in {{}, leafQueueList} /\ spinner' = FALSE
      /\ UNCHANGED <<reliable, partitionsCall, partitionList, partitionSelected, leafQueueSelected,
                     searchText, searchPending, appCalls, query, stored>>
  BY DEF QueuesMissing, Due, searchVars
<1>2. queueCalls' \in Seq(Partitions)
  BY <1>1, RemoveAtTyped DEF ChoicesInv
<1>3. queueCalls # <<>>
  BY <1>1, ElementOfSeq, LenProperties, EmptySeq DEF ChoicesInv
<1> QED BY <1>1, <1>2, <1>3 DEF ChoicesInv, StoredIsSelection, StoredWithPartition, PartitionsFirst

\* The answers about applications concern none of the choices.
LEMMA AppsCallEnds ==
  ASSUME ChoicesInv, NEW i, AppsAnswered(i) \/ AppsFailed(i)
  PROVE  ChoicesInv'
<1>1. /\ i \in DOMAIN appCalls /\ appCalls' = RemoveAt(appCalls, i) /\ spinner' = FALSE
      /\ UNCHANGED <<choiceVars, searchVars, partitionsCall, queueCalls, query, stored>>
  BY DEF AppsAnswered, AppsFailed, Due
<1>2. appCalls' \in Seq(Query)
  BY <1>1, RemoveAtTyped DEF ChoicesInv
<1> QED BY <1>1, <1>2
        DEF ChoicesInv, choiceVars, searchVars, StoredIsSelection, StoredWithPartition, PartitionsFirst

LEMMA PartitionChosenStep ==
  ASSUME ChoicesInv, NEW p \in Partitions, OnPartitionSelectionChanged(p)
  PROVE  ChoicesInv'
<1>1. /\ p \in partitionList /\ searchText' = None /\ partitionSelected' = p
      /\ leafQueueSelected' = None /\ stored' = NoPair /\ SendQueues(p) /\ spinner' = TRUE
      /\ UNCHANGED <<reliable, partitionList, leafQueueList, searchPending, partitionsCall,
                     appCalls, query>>
  BY DEF OnPartitionSelectionChanged
<1>2. queueCalls' \in Seq(Partitions)
  BY <1>1, AppendProperties DEF SendQueues, ChoicesInv
<1>3. ~partitionsCall
  BY <1>1 DEF ChoicesInv, PartitionsFirst
<1> QED BY <1>1, <1>2, <1>3, ValuesTyped, ConstantsAssumption
        DEF ChoicesInv, StoredIsSelection, StoredWithPartition, PartitionsFirst, ConstantsAssumption

\* A queue is offered only with a partition, and is stored with it.
LEMMA QueueChosenStep ==
  ASSUME ChoicesInv, NEW q \in Queues, OnQueueSelectionChanged(q)
  PROVE  ChoicesInv'
<1>1. /\ q \in leafQueueList /\ searchText' = None /\ leafQueueSelected' = q
      /\ SendApps(partitionSelected, q, None) /\ spinner' = TRUE
      /\ stored' = <<partitionSelected, q>>
      /\ UNCHANGED <<reliable, partitionList, partitionSelected, leafQueueList, searchPending,
                     partitionsCall, queueCalls, query>>
  BY DEF OnQueueSelectionChanged
<1>2. partitionSelected \in Partitions
  BY <1>1 DEF ChoicesInv, PartitionsFirst
<1>3. appCalls' \in Seq(Query)
  <2>1. [partition |-> partitionSelected, queue |-> q, app |-> None] \in Query
    BY <1>2 DEF Query
  <2> QED BY <1>1, <2>1, AppendProperties DEF SendApps, ChoicesInv
<1>4. stored' \in Pairs /\ stored'[1] # None
  BY <1>1, <1>2, ConstantsAssumption DEF Pairs, ConstantsAssumption
<1> QED BY <1>1, <1>3, <1>4
        DEF ChoicesInv, StoredIsSelection, StoredWithPartition, PartitionsFirst

\* The other clicks, and the search.
LEMMA ClicksKeepChoices ==
  ASSUME ChoicesInv,
         \/ OnQueueDeselected \/ SearchFires \/ ClearSearch \/ Paginate
         \/ \E text \in Apps \cup {None} : Type(text)
         \/ \E r \in appData : ToggleRowSelection(r)
  PROVE  ChoicesInv'
<1>1. /\ UNCHANGED <<reliable, partitionList, partitionSelected, leafQueueList, callVars, query, spinner>>
      /\ searchText' \in Apps \cup {None} /\ searchPending' \in BOOLEAN
  BY DEF OnQueueDeselected, SearchFires, ClearSearch, Paginate, Type, ToggleRowSelection,
         choiceVars, searchVars, ChoicesInv
<1>2. \/ leafQueueSelected' = None /\ stored' = NoPair
      \/ UNCHANGED <<leafQueueSelected, stored>>
  BY DEF OnQueueDeselected, SearchFires, ClearSearch, Paginate, Type, ToggleRowSelection, choiceVars
<1> QED BY <1>1, <1>2, ValuesTyped
        DEF ChoicesInv, callVars, StoredIsSelection, StoredWithPartition, PartitionsFirst

LEMMA ChoicesStep ==
  ASSUME AppsInv, [Next]_vars
  PROVE  ChoicesInv'
<1>0. ChoicesInv
  BY InvSplits
<1>1. CASE PartitionsFailed \/ UNCHANGED vars
  <2>1. /\ UNCHANGED <<reliable, partitionList, partitionSelected, leafQueueList, leafQueueSelected,
                       searchText, searchPending, queueCalls, appCalls, query, stored>>
        /\ partitionsCall' \in BOOLEAN /\ spinner' \in BOOLEAN
        /\ partitionsCall' => partitionsCall
    <3>1. CASE PartitionsFailed
      BY <1>0, <3>1 DEF PartitionsFailed, choiceVars, searchVars, ChoicesInv
    <3>2. CASE UNCHANGED vars
      BY <1>0, <3>2 DEF vars, choiceVars, searchVars, callVars, ChoicesInv
    <3> QED BY <1>1, <3>1, <3>2
  <2> QED BY <1>0, <2>1 DEF ChoicesInv, StoredIsSelection, StoredWithPartition, PartitionsFirst
<1>2. ASSUME NEW i, QueuesAnswered(i) \/ QueuesMissing(i)
      PROVE  ChoicesInv'
  BY <1>0, <1>2, QueuesAnsweredStep, QueuesMissingStep
<1>3. ASSUME NEW i, AppsAnswered(i) \/ AppsFailed(i)
      PROVE  ChoicesInv'
  BY <1>0, <1>3, AppsCallEnds
<1>4. ASSUME NEW p \in Partitions, OnPartitionSelectionChanged(p)
      PROVE  ChoicesInv'
  BY <1>0, <1>4, PartitionChosenStep
<1>5. ASSUME NEW q \in Queues, OnQueueSelectionChanged(q)
      PROVE  ChoicesInv'
  BY <1>0, <1>5, QueueChosenStep
<1>6. CASE \/ OnQueueDeselected \/ SearchFires \/ ClearSearch \/ Paginate
           \/ \E text \in Apps \cup {None} : Type(text)
           \/ \E r \in appData : ToggleRowSelection(r)
  BY <1>0, <1>6, ClicksKeepChoices
<1>7. CASE PartitionsAnswered
  BY <1>0, <1>7, PartitionsAnsweredStep
<1> QED BY <1>1, <1>2, <1>3, <1>4, <1>5, <1>6, <1>7 DEF Next

-----------------------------------------------------------------------------
LEMMA AppsInvInit == Init => AppsInv
<1> SUFFICES ASSUME Init PROVE AppsInv
  OBVIOUS
<1>1. RowsInv
  BY DEF Init, RowsInv, OneRowSelected, AllocationsFollowSelection, FlagsInTable
<1>2. query \in Query
  BY ValuesTyped, ConstantsAssumption DEF Init, ConstantsAssumption
<1>3. stored \in Pairs /\ StoredWithPartition
  BY ValuesTyped, ConstantsAssumption
     DEF Init, Pairs, StoredWithPartition, ConstantsAssumption
<1>4. queueCalls \in Seq(Partitions) /\ appCalls \in Seq(Query)
  BY EmptySeq DEF Init
<1>5. ChoicesInv
  BY <1>2, <1>3, <1>4 DEF Init, ChoicesInv, StoredIsSelection, PartitionsFirst
<1> QED BY <1>1, <1>5, InvSplits

\* The inductive invariant holds of every behaviour of AppsViewComponent.
THEOREM AppsInvariant == Spec => []AppsInv
<1>1. AppsInv /\ [Next]_vars => AppsInv'
  <2> SUFFICES ASSUME AppsInv, [Next]_vars PROVE AppsInv'
    OBVIOUS
  <2>1. RowsInv' /\ ChoicesInv'
    BY RowsStep, ChoicesStep
  <2> QED BY <2>1 DEF AppsInv, RowsInv, ChoicesInv, TypeOK
<1> QED BY <1>1, AppsInvInit, PTL DEF Spec

\* What is highlighted, selected and listed agree, for any number of requests in
\* flight and whatever order they are answered in (toggleRowSelection,
\* removeRowSelection and the handler of fetchAppList).
THEOREM SelectionAgrees == Spec => []SelectionInv
<1>1. AppsInv => SelectionInv
  BY DEF AppsInv, SelectionInv
<1> QED BY <1>1, AppsInvariant, PTL

\* With a queue selected localStorage has it, after links, late queue trees and
\* clicks in any order (fetchApplicationsUsingQueryParams, setDefaultQueue and
\* the two select handlers).
THEOREM SelectionIsStored == Spec => []StoredIsSelection
<1>1. AppsInv => StoredIsSelection
  BY DEF AppsInv
<1> QED BY <1>1, AppsInvariant, PTL
-----------------------------------------------------------------------------
(* Answers *)

\* A request for a pair becomes the newest one.
LEMMA SentIsNewest ==
  ASSUME appCalls \in Seq(Query), NEW p \in Partitions \cup {None}, NEW q \in Queues \cup {None},
         NEW app \in Apps \cup {None}, SendApps(p, q, app)
  PROVE  /\ appCalls' # <<>>
         /\ appCalls'[Len(appCalls')].partition = p /\ appCalls'[Len(appCalls')].queue = q
<1> DEFINE call == [partition |-> p, queue |-> q, app |-> app]
<1>1. call \in Query /\ call.partition = p /\ call.queue = q
  BY DEF Query
<1>2. appCalls' = Append(appCalls, call)
  BY DEF SendApps
<1> HIDE DEF call
<1> QED BY <1>1, <1>2, AppendedLast

LEMMA NewestKept ==
  ASSUME NewestIsSelection, partitionsCall' \in BOOLEAN, partitionsCall' => partitionsCall,
         \/ UNCHANGED <<reliable, partitionSelected, leafQueueSelected, initialAppData, appCalls>>
         \/ leafQueueSelected' = None
  PROVE  NewestIsSelection'
<1>1. CASE leafQueueSelected' = None
  BY <1>1 DEF NewestIsSelection
<1>2. CASE UNCHANGED <<reliable, partitionSelected, leafQueueSelected, initialAppData, appCalls>>
  BY <1>2 DEF NewestIsSelection
<1> QED BY <1>1, <1>2

\* A link or the stored queue sends a request with the selection it makes, and
\* otherwise no queue was selected or none stays so.
LEMMA DefaultIsNewest ==
  ASSUME ChoicesInv, NewestIsSelection, NEW i, QueuesAnswered(i)
  PROVE  NewestIsSelection'
<1>1. /\ i \in DOMAIN queueCalls /\ queueCalls \in Seq(Partitions)
      /\ UNCHANGED <<reliable, partitionsCall, initialAppData>>
  BY DEF QueuesAnswered, Due, ChoicesInv
<1>2. queueCalls[i] \in Partitions /\ queueCalls # <<>>
  BY <1>1, ElementOfSeq, LenProperties, EmptySeq
<1>3. ~partitionsCall'
  BY <1>1, <1>2 DEF ChoicesInv, PartitionsFirst
<1>4. Leaves[queueCalls[i]] \subseteq Queues
  BY <1>2, ConstantsAssumption DEF ConstantsAssumption
<1>5. CASE UseQuery
  <2>1. /\ partitionSelected' = query.partition /\ leafQueueSelected' = query.queue
        /\ SendApps(query.partition, query.queue, query.app)
        /\ query.partition \in Partitions \cup {None} /\ query.queue \in Queues \cup {None}
        /\ query.app \in Apps \cup {None} /\ appCalls \in Seq(Query)
    BY <1>5 DEF UseQuery, ChoicesInv, Query
  <2> QED BY <1>3, <2>1, SentIsNewest DEF NewestIsSelection
<1>6. CASE SetDefaultQueue(Leaves[queueCalls[i]])
  <2>1. CASE /\ stored = NoPair \/ stored[1] # partitionSelected
             /\ UNCHANGED leafQueueSelected
    <3>1. leafQueueSelected = None
      BY <2>1 DEF ChoicesInv, StoredIsSelection, NoPair
    <3> QED BY <1>3, <2>1, <3>1 DEF NewestIsSelection
  <2>2. CASE /\ stored[2] \in Leaves[queueCalls[i]] /\ leafQueueSelected' = stored[2]
             /\ SendApps(partitionSelected, stored[2], None) /\ UNCHANGED partitionSelected
    <3>1. appCalls \in Seq(Query) /\ partitionSelected \in Partitions \cup {None}
          /\ stored[2] \in Queues
      BY <1>4, <2>2 DEF ChoicesInv
    <3> QED BY <1>3, <2>2, <3>1, SentIsNewest DEF NewestIsSelection
  <2>3. CASE leafQueueSelected' = None
    BY <2>3 DEF NewestIsSelection
  <2> QED BY <1>6, <2>1, <2>2, <2>3 DEF SetDefaultQueue
<1> QED BY <1>5, <1>6 DEF QueuesAnswered

\* In order, the answer shown is the newest request's only if it is the last.
LEMMA AnswerIsNewest ==
  ASSUME ChoicesInv, NewestIsSelection, NEW i, AppsAnswered(i) \/ AppsFailed(i)
  PROVE  NewestIsSelection'
<1>1. UNCHANGED <<choiceVars, partitionsCall>>
  BY DEF AppsAnswered, AppsFailed
<1> SUFFICES ASSUME reliable, leafQueueSelected # None
             PROVE  NewestIsSelection'
  BY <1>1 DEF NewestIsSelection, choiceVars
<1>2. /\ AppsAnswered(i) /\ i = 1 /\ i \in DOMAIN appCalls /\ appCalls' = RemoveAt(appCalls, 1)
      /\ appCalls \in Seq(Query)
  BY DEF AppsAnswered, AppsFailed, Due, ChoicesInv
<1>3. appCalls # <<>>
  BY <1>2, EmptySeq, LenProperties
<1>4. initialAppData' = Rows(appCalls[1].partition, appCalls[1].queue)
  BY <1>2 DEF AppsAnswered, ShowAnswer
<1>5. /\ appCalls[Len(appCalls)].partition = partitionSelected
      /\ appCalls[Len(appCalls)].queue = leafQueueSelected
  BY <1>3 DEF NewestIsSelection
<1>6. CASE appCalls' = <<>>
  <2>1. Len(appCalls) = 1
    BY <1>2, <1>3, <1>6, OldestAnswered
  <2>2. initialAppData' = Rows(partitionSelected, leafQueueSelected)
    BY <1>4, <1>5, <2>1
  <2> QED BY <1>1, <1>6, <2>2 DEF NewestIsSelection, choiceVars
<1>7. CASE appCalls' # <<>>
  <2>1. appCalls'[Len(appCalls')] = appCalls[Len(appCalls)]
    BY <1>2, <1>3, <1>7, OldestAnswered
  <2> QED BY <1>1, <1>5, <1>7, <2>1 DEF NewestIsSelection, choiceVars
<1> QED BY <1>6, <1>7

LEMMA NewestStep ==
  ASSUME AppsInv, NewestIsSelection, [Next]_vars
  PROVE  NewestIsSelection'
<1>0. ChoicesInv /\ partitionsCall \in BOOLEAN
  BY InvSplits DEF ChoicesInv
<1>1. CASE PartitionsAnswered
  <2>1. leafQueueSelected = None /\ ~partitionsCall'
    BY <1>1 DEF NewestIsSelection, PartitionsAnswered
  <2>2. leafQueueSelected' = None
    BY <1>1, <2>1 DEF PartitionsAnswered
  <2> QED BY <2>1, <2>2 DEF NewestIsSelection
<1>2. ASSUME NEW i, QueuesAnswered(i)
      PROVE  NewestIsSelection'
  BY <1>0, <1>2, DefaultIsNewest
<1>3. ASSUME NEW i, AppsAnswered(i) \/ AppsFailed(i)
      PROVE  NewestIsSelection'
  BY <1>0, <1>3, AnswerIsNewest
<1>4. ASSUME NEW p \in Partitions, OnPartitionSelectionChanged(p)
      PROVE  NewestIsSelection'
  BY <1>0, <1>4, NewestKept DEF OnPartitionSelectionChanged
<1>5. ASSUME NEW q \in Queues, OnQueueSelectionChanged(q)
      PROVE  NewestIsSelection'
  <2>1. /\ leafQueueSelected' = q /\ UNCHANGED <<partitionSelected, partitionsCall>>
        /\ SendApps(partitionSelected, q, None) /\ q \in leafQueueList
        /\ partitionSelected \in Partitions \cup {None} /\ appCalls \in Seq(Query)
    BY <1>0, <1>5 DEF OnQueueSelectionChanged, ChoicesInv
  <2>2. ~partitionsCall
    BY <1>0, <2>1 DEF ChoicesInv, PartitionsFirst
  <2> QED BY <2>1, <2>2, SentIsNewest DEF NewestIsSelection
<1>6. CASE OnQueueDeselected
  BY <1>0, <1>6, NewestKept DEF OnQueueDeselected, callVars
<1>7. ASSUME NEW i, QueuesMissing(i)
      PROVE  NewestIsSelection'
  BY <1>0, <1>7, NewestKept DEF QueuesMissing, tableVars
<1>8. CASE PartitionsFailed
  BY <1>0, <1>8, NewestKept DEF PartitionsFailed, choiceVars, tableVars
<1>9. CASE SearchFires \/ ClearSearch \/ Paginate \/ UNCHANGED vars
  BY <1>0, <1>9, NewestKept
     DEF SearchFires, ClearSearch, Paginate, vars, choiceVars, tableVars, callVars
<1>10. ASSUME NEW text, Type(text)
       PROVE  NewestIsSelection'
  BY <1>0, <1>10, NewestKept DEF Type, choiceVars, tableVars, callVars
<1>11. ASSUME NEW r, ToggleRowSelection(r)
       PROVE  NewestIsSelection'
  BY <1>0, <1>11, NewestKept DEF ToggleRowSelection, choiceVars, callVars
<1> QED BY <1>1, <1>2, <1>3, <1>4, <1>5, <1>6, <1>7, <1>8, <1>9, <1>10, <1>11 DEF Next

\* With answers in order and a queue selected, the table's rows, and all the
\* search can bring back, are that queue's once nothing is under way, for any
\* number of superseded requests (onPartitionSelectionChanged and
\* onQueueSelectionChanged never cancel one).
THEOREM TableIsOfSelection == Spec => []LastAnswerIsSelection
<1>1. Init => NewestIsSelection
  BY DEF Init, NewestIsSelection
<1>2. AppsInv /\ NewestIsSelection /\ [Next]_vars => NewestIsSelection'
  BY NewestStep
<1>3. AppsInv /\ NewestIsSelection => LastAnswerIsSelection
  BY DEF AppsInv, TypeOK, NewestIsSelection, LastAnswerIsSelection
<1> QED BY <1>1, <1>2, <1>3, AppsInvariant, PTL DEF Spec
=============================================================================
