------------------------------ MODULE AppsView ------------------------------
(***************************************************************************)
(* The applications view (AppsViewComponent): partition and leaf queue     *)
(* selection, the requests it sends and their answers in any order, search *)
(* with its debounce, row selection, and the selection kept in             *)
(* localStorage: the text partition:queue, here a pair, as no name has a   *)
(* colon (Browser has queues with one).                                    *)
(*                                                                         *)
(* An answer brings fresh row objects.  A row is identified by where it    *)
(* came from and its application; an earlier answer's object that the      *)
(* component still holds in selectedRow is marked by selectedIsStale.      *)
(***************************************************************************)
EXTENDS Sequences, SequencesExt

CONSTANTS
  Partitions, FirstPartition, Queues, Apps,
  Leaves,        \* Leaves[p]: the leaf queues of partition p
  AppsOf,        \* AppsOf[<<p, q>>]: the applications of leaf queue q of p
  StoredChoices, \* what localStorage may hold when the view opens
  QueryChoices,  \* the query parameters it may be opened with
  MaxCalls       \* bound: requests of one kind in flight

None == "none"
NoPair == <<None, None>>
Pairs == (Partitions \cup {None}) \X (Queues \cup {None})
Query == [partition : Partitions \cup {None}, queue : Queues \cup {None},
          app : Apps \cup {None}]
NoQuery == [partition |-> None, queue |-> None, app |-> None]
Row == [partition : Partitions, queue : Queues, app : Apps]
NoRow == [partition |-> None, queue |-> None, app |-> None]

ASSUME ConstantsAssumption ==
  /\ FirstPartition \in Partitions
  /\ None \notin Partitions \cup Queues \cup Apps
  /\ Leaves \in [Partitions -> SUBSET Queues]
  /\ AppsOf \in [Partitions \X Queues -> SUBSET Apps]
  /\ StoredChoices \subseteq Partitions \X (Queues \cup {None})
  /\ QueryChoices \subseteq Query

VARIABLES
  reliable,            \* this time answers come in the order of the requests, none fails
  partitionsCall,      \* the partition list is being fetched
  partitionList, partitionSelected, leafQueueList, leafQueueSelected,
  initialAppData, appData,   \* the last answer, and the rows of it in the table
  isSelected,          \* rows of initialAppData whose flag is up
  selectedRow, selectedIsStale,
  allocOwner,          \* the row whose allocations the second table lists
  searchText, searchPending, \* the input, and its 500 ms debounce
  queueCalls, appCalls, \* requests in flight, oldest first
  query,               \* the query parameters of the route
  stored,              \* localStorage: selectedPartitionAndQueue
  spinner

choiceVars == <<reliable, partitionList, partitionSelected, leafQueueList, leafQueueSelected>>
tableVars == <<initialAppData, appData, isSelected>>
rowVars == <<selectedRow, selectedIsStale, allocOwner>>
searchVars == <<searchText, searchPending>>
callVars == <<partitionsCall, queueCalls, appCalls>>
vars == <<choiceVars, tableVars, rowVars, searchVars, callVars, query, stored, spinner>>

Rows(p, q) ==
  {r \in Row : r.partition = p /\ r.queue = q /\ r.app \in AppsOf[<<p, q>>]}

-----------------------------------------------------------------------------
(* Selection of rows *)

\* A stale row's flag is on an object no table shows any more.
Unflag(flags) == IF selectedIsStale THEN flags ELSE flags \ {selectedRow}

(* mutant: the row stays highlighted *)
RemoveSelectionKeepsFlag ==
  /\ selectedRow' = NoRow /\ selectedIsStale' = FALSE /\ allocOwner' = NoRow
  /\ UNCHANGED isSelected

RemoveRowSelection ==
  /\ selectedRow' = NoRow /\ selectedIsStale' = FALSE
  /\ isSelected' = Unflag(isSelected)
  /\ allocOwner' = IF selectedRow = NoRow THEN allocOwner ELSE NoRow

\* The flags of the table's other rows are lowered.
ToggleRowSelection(r) ==
  /\ r \in appData
  /\ LET others == isSelected \ (appData \ {r}) IN
     IF r \in isSelected
     THEN /\ selectedRow' = NoRow /\ selectedIsStale' = FALSE
          /\ isSelected' = Unflag(others)
          /\ allocOwner' = IF selectedRow = NoRow THEN allocOwner ELSE NoRow
     ELSE /\ selectedRow' = r /\ selectedIsStale' = FALSE
          /\ isSelected' = others \cup {r}
          /\ allocOwner' = r
  /\ UNCHANGED <<choiceVars, initialAppData, appData, searchVars, callVars, query, stored, spinner>>

Paginate ==
  /\ RemoveRowSelection
  /\ UNCHANGED <<choiceVars, initialAppData, appData, searchVars, callVars, query, stored, spinner>>

-----------------------------------------------------------------------------
(* Search *)

Type(text) ==
  /\ searchText' = text /\ searchPending' = TRUE
  /\ UNCHANGED <<choiceVars, tableVars, rowVars, callVars, query, stored, spinner>>

\* onSearchAppData, and onClearSearch for an empty term.
SearchFires ==
  /\ searchPending /\ searchPending' = FALSE
  /\ RemoveRowSelection
  /\ appData' = {r \in initialAppData : searchText \in {None, r.app}}
  /\ UNCHANGED <<choiceVars, initialAppData, searchText, callVars, query, stored, spinner>>

ClearSearch ==
  /\ searchText' = None
  /\ RemoveRowSelection
  /\ appData' = initialAppData
  /\ UNCHANGED <<choiceVars, initialAppData, searchPending, callVars, query, stored, spinner>>

-----------------------------------------------------------------------------
(* Requests and their answers *)

\* Answers that may arrive now: any of the requests, or the oldest one.
Due(calls) == {i \in DOMAIN calls : reliable => i = 1}

SendQueues(p) == queueCalls' = Append(queueCalls, p)
SendApps(p, q, app) ==
  appCalls' = Append(appCalls, [partition |-> p, queue |-> q, app |-> app])

PartitionsAnswered ==
  /\ partitionsCall /\ partitionsCall' = FALSE
  /\ \/ /\ partitionList' = Partitions
        /\ partitionSelected' = IF stored = NoPair THEN FirstPartition ELSE stored[1]
        /\ SendQueues(partitionSelected')
        /\ spinner' = FALSE  \* shown for the queues, hidden by this call's finalize
        /\ UNCHANGED <<leafQueueList, leafQueueSelected, appData, stored>>
     \/ /\ partitionList' = {} /\ partitionSelected' = None
        /\ leafQueueList' = {} /\ leafQueueSelected' = None
        /\ appData' = {} /\ stored' = NoPair
        /\ spinner' = FALSE
        /\ UNCHANGED queueCalls
  /\ UNCHANGED <<reliable, initialAppData, isSelected, rowVars, searchVars, appCalls, query>>

PartitionsFailed ==
  /\ ~reliable /\ partitionsCall
  /\ partitionsCall' = FALSE /\ spinner' = FALSE
  /\ UNCHANGED <<choiceVars, tableVars, rowVars, searchVars, queueCalls, appCalls, query, stored>>

(* mutant: a link's selection is not remembered *)
UseQueryUnstored ==
  /\ query.partition # None /\ query.queue # None
  /\ partitionSelected' = query.partition /\ leafQueueSelected' = query.queue
  /\ SendApps(query.partition, query.queue, query.app)
  /\ query' = NoQuery
  /\ UNCHANGED <<appData, stored>>

\* fetchApplicationsUsingQueryParams: the URL overrides both selections, and
\* the router drops the parameters.
UseQuery ==
  /\ query.partition # None /\ query.queue # None
  /\ partitionSelected' = query.partition /\ leafQueueSelected' = query.queue
  /\ SendApps(query.partition, query.queue, query.app)
  /\ stored' = <<query.partition, query.queue>>
  /\ query' = NoQuery
  /\ UNCHANGED appData

\* setDefaultQueue: the stored queue, if it is the selected partition's.
SetDefaultQueue(leaves) ==
  /\ query.partition = None \/ query.queue = None
  /\ \/ /\ stored = NoPair \/ stored[1] # partitionSelected
        /\ UNCHANGED <<leafQueueSelected, appCalls, appData>>
     \/ /\ stored # NoPair /\ stored[1] = partitionSelected /\ stored[2] \in leaves
        /\ leafQueueSelected' = stored[2]
        /\ SendApps(partitionSelected, stored[2], None)
        /\ UNCHANGED appData
     \/ /\ stored # NoPair /\ stored[1] = partitionSelected /\ stored[2] \notin leaves
        /\ leafQueueSelected' = None /\ appData' = {}
        /\ UNCHANGED appCalls
  /\ UNCHANGED <<partitionSelected, query, stored>>

\* The answer for partition queueCalls[i], whatever is selected by now.  The
\* finalize of this call hides the spinner the next one has just shown.
QueuesAnswered(i) ==
  /\ i \in Due(queueCalls)
  /\ Len(appCalls) < MaxCalls
  /\ queueCalls' = RemoveAt(queueCalls, i)
  /\ leafQueueList' = Leaves[queueCalls[i]]
  /\ UseQuery \/ SetDefaultQueue(Leaves[queueCalls[i]])
  /\ spinner' = FALSE
  /\ UNCHANGED <<reliable, partitionsCall, partitionList, initialAppData, isSelected, rowVars,
                 searchVars>>

\* The answer has no root queue, or the call failed.
QueuesMissing(i) ==
  /\ ~reliable /\ i \in Due(queueCalls)
  /\ queueCalls' = RemoveAt(queueCalls, i)
  /\ leafQueueList' \in {{}, leafQueueList}
  /\ spinner' = FALSE
  /\ UNCHANGED <<reliable, partitionsCall, partitionList, partitionSelected, leafQueueSelected,
                 tableVars, rowVars, searchVars, appCalls, query, stored>>

(* mutant: the rows of an answer are added to those before *)
ShowAnswerAppended(rows) == appData' = rows /\ initialAppData' = initialAppData \cup rows

ShowAnswer(rows) == initialAppData' = rows /\ appData' = rows

\* Rows of an answer replace the table; a row named by the URL is selected.
AppsAnswered(i) ==
  /\ i \in Due(appCalls)
  /\ appCalls' = RemoveAt(appCalls, i)
  /\ LET call == appCalls[i]
         rows == Rows(call.partition, call.queue)
         named == {r \in rows : r.app = call.app}
     IN /\ ShowAnswer(rows)
        /\ isSelected' = named
        /\ IF named = {}
           THEN /\ selectedIsStale' = (selectedRow # NoRow)
                /\ UNCHANGED <<selectedRow, allocOwner>>
           ELSE /\ selectedIsStale' = FALSE
                /\ selectedRow' \in named /\ allocOwner' = selectedRow'
  /\ spinner' = FALSE
  /\ UNCHANGED <<choiceVars, searchVars, partitionsCall, queueCalls, query, stored>>

AppsFailed(i) ==
  /\ ~reliable /\ i \in Due(appCalls)
  /\ appCalls' = RemoveAt(appCalls, i)
  /\ spinner' = FALSE
  /\ UNCHANGED <<choiceVars, tableVars, rowVars, searchVars, partitionsCall, queueCalls, query, stored>>

-----------------------------------------------------------------------------
(* The two drop-down lists. The partition list offers an empty value only   *)
(* when it offers nothing else, so it cannot be changed to.                *)

OnPartitionSelectionChanged(p) ==
  /\ p \in partitionList \ {partitionSelected}
  /\ Len(queueCalls) < MaxCalls
  /\ searchText' = None
  /\ partitionSelected' = p /\ leafQueueSelected' = None
  /\ appData' = {}
  /\ RemoveRowSelection
  /\ stored' = NoPair
  /\ SendQueues(p) /\ spinner' = TRUE
  /\ UNCHANGED <<reliable, partitionList, leafQueueList, initialAppData, searchPending,
                 partitionsCall, appCalls, query>>

OnQueueSelectionChanged(q) ==
  /\ q \in leafQueueList \ {leafQueueSelected}
  /\ Len(appCalls) < MaxCalls
  /\ searchText' = None
  /\ leafQueueSelected' = q
  /\ appData' = {}
  /\ RemoveRowSelection
  /\ SendApps(partitionSelected, q, None) /\ spinner' = TRUE
  /\ stored' = <<partitionSelected, q>>
  /\ UNCHANGED <<reliable, partitionList, partitionSelected, leafQueueList, initialAppData,
                 searchPending, partitionsCall, queueCalls, query>>

\* The entry "-- Select --".
OnQueueDeselected ==
  /\ leafQueueSelected # None
  /\ searchText' = None
  /\ leafQueueSelected' = None
  /\ appData' = {}
  /\ RemoveRowSelection
  /\ stored' = NoPair
  /\ UNCHANGED <<reliable, partitionList, partitionSelected, leafQueueList, initialAppData,
                 searchPending, callVars, query, spinner>>

-----------------------------------------------------------------------------
Init ==
  /\ reliable \in BOOLEAN
  /\ partitionsCall = TRUE
  /\ partitionList = {} /\ partitionSelected = None
  /\ leafQueueList = {} /\ leafQueueSelected = None
  /\ initialAppData = {} /\ appData = {} /\ isSelected = {}
  /\ selectedRow = NoRow /\ selectedIsStale = FALSE /\ allocOwner = NoRow
  /\ searchText = None /\ searchPending = FALSE
  /\ queueCalls = <<>> /\ appCalls = <<>>
  /\ query \in QueryChoices \cup {NoQuery}
  /\ stored \in StoredChoices \cup {NoPair}
  /\ spinner = FALSE

Next ==
  \/ PartitionsAnswered \/ PartitionsFailed
  \/ \E i \in DOMAIN queueCalls : QueuesAnswered(i) \/ QueuesMissing(i)
  \/ \E i \in DOMAIN appCalls : AppsAnswered(i) \/ AppsFailed(i)
  \/ \E p \in Partitions : OnPartitionSelectionChanged(p)
  \/ \E q \in Queues : OnQueueSelectionChanged(q)
  \/ OnQueueDeselected
  \/ \E text \in Apps \cup {None} : Type(text)
  \/ SearchFires \/ ClearSearch \/ Paginate
  \/ \E r \in appData : ToggleRowSelection(r)

Spec == Init /\ [][Next]_vars

-----------------------------------------------------------------------------
(* Properties *)

\* Every variable keeps the shape its declaration gives it.
TypeOK ==
  /\ reliable \in BOOLEAN
  /\ partitionsCall \in BOOLEAN /\ partitionList \subseteq Partitions
  /\ partitionSelected \in Partitions \cup {None}
  /\ leafQueueList \subseteq Queues /\ leafQueueSelected \in Queues \cup {None}
  /\ initialAppData \subseteq Row /\ appData \subseteq initialAppData
  /\ isSelected \subseteq initialAppData
  /\ selectedRow \in Row \cup {NoRow} /\ selectedIsStale \in BOOLEAN
  /\ allocOwner \in Row \cup {NoRow}
  /\ searchText \in Apps \cup {None} /\ searchPending \in BOOLEAN
  /\ queueCalls \in Seq(Partitions) /\ appCalls \in Seq(Query)
  /\ query \in Query /\ stored \in Pairs /\ spinner \in BOOLEAN

\* At most one row of the last answer is flagged, it is the selected one, and a
\* selected row of that answer is flagged: filtering, late answers and links
\* to an application leave no second row highlighted behind.
OneRowSelected ==
  /\ isSelected \subseteq {selectedRow}
  /\ selectedRow # NoRow /\ ~selectedIsStale => selectedRow \in isSelected

\* The allocations listed are those of the selected row, and none without one,
\* although the two are set in different handlers.
AllocationsFollowSelection == allocOwner = selectedRow

\* What is highlighted, what is selected and what the second table lists agree.
SelectionInv ==
  /\ TypeOK
  /\ OneRowSelected
  /\ AllocationsFollowSelection

\* With a queue selected, localStorage holds this partition and this queue: a
\* reload, or the way back from another view, shows the same applications.
StoredIsSelection ==
  leafQueueSelected # None => stored = <<partitionSelected, leafQueueSelected>>

\* With nothing in flight and a queue selected the last answer is that queue's
\* in that partition, so that the search, which filters it and which no change
\* of the selection resets, brings back no application of another queue.  It
\* takes answers that arrive in order and do not fail: the component neither
\* cancels nor checks a superseded request.
LastAnswerIsSelection ==
  reliable /\ appCalls = <<>> /\ leafQueueSelected # None
    => /\ initialAppData = Rows(partitionSelected, leafQueueSelected)
       /\ appData \subseteq initialAppData
=============================================================================
