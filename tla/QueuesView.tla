----------------------------- MODULE QueuesView -----------------------------
(***************************************************************************)
(* The queues view (QueuesViewComponent) and its racks (QueueRackComponent):*)
(* one column of queues per level, opened by the expanded queue of the     *)
(* column before; a drawer with the selected queue, whose container hides  *)
(* on a timer 100 ms after a close; queue trees fetched per partition.     *)
(*                                                                         *)
(* Every partition answers with a tree of the same shape and fresh objects.*)
(***************************************************************************)
EXTENDS Naturals, Sequences, SequencesExt

CONSTANTS
  Partitions, FirstPartition,
  Queues, Root, Children,  \* the tree: Children[q], {} where the code has null
  MaxLevel,                \* the last entry of queueLevels
  MAX_QUEUE_LEVELS,        \* the last rack closeQueueRacks closes
  MaxCalls, MaxTimers      \* bounds: requests in flight, timers pending

None == "none"
Levels == 0..MaxLevel + 1  \* the rack after the last one is never drawn

ASSUME ConstantsAssumption ==
  /\ FirstPartition \in Partitions /\ None \notin Partitions \cup Queues
  /\ Root \in Queues /\ Children \in [Queues -> SUBSET Queues]
  /\ MaxLevel \in Nat /\ MAX_QUEUE_LEVELS \in 0..MaxLevel
  /\ MaxCalls \in Nat /\ MaxTimers \in Nat

VARIABLES
  reliable,                \* this time answers come in order, none fails
  partitionsCall, queueCalls,
  partitionList, partitionSelected, stored,
  rootQueue,               \* the partition whose tree the view holds
  queueList,               \* queueList[l]: the queues of rack l, {} for no rack
  isExpanded, isSelected,  \* queues of that tree whose flag is up
  selectedQueue, selectedIsStale, \* stale: an object of an earlier tree
  drawerOpen, isDrawerContainerOpen,
  closeTimers              \* pending timers of closeMatDrawer

choiceVars == <<reliable, partitionList, partitionSelected, stored>>
treeVars == <<rootQueue, queueList, isExpanded>>
drawerVars == <<isSelected, selectedQueue, selectedIsStale, drawerOpen,
                isDrawerContainerOpen, closeTimers>>
callVars == <<partitionsCall, queueCalls>>
vars == <<choiceVars, treeVars, drawerVars, callVars>>

NoRacks == [l \in Levels |-> {}]

\* All queues below q: those of every set with the children of q and of its own.
Below(q) ==
  {x \in Queues : \A below \in SUBSET Queues :
     Children[q] \subseteq below /\ (\A c \in below : Children[c] \subseteq below)
       => x \in below}

-----------------------------------------------------------------------------
(* The drawer *)

(* mutant: the queue stays highlighted after its drawer is closed *)
CloseQueueDrawerKeepsFlag ==
  /\ UNCHANGED <<isSelected, isDrawerContainerOpen>>
  /\ selectedQueue' = None /\ selectedIsStale' = FALSE
  /\ drawerOpen' = FALSE /\ closeTimers' = closeTimers + 1

(* mutant: the container is left to the next click *)
CloseQueueDrawerWithoutTimer ==
  /\ isSelected' = IF selectedIsStale THEN isSelected ELSE isSelected \ {selectedQueue}
  /\ selectedQueue' = None /\ selectedIsStale' = FALSE
  /\ drawerOpen' = FALSE
  /\ UNCHANGED <<isDrawerContainerOpen, closeTimers>>

CloseQueueDrawer ==
  /\ isSelected' = IF selectedIsStale THEN isSelected ELSE isSelected \ {selectedQueue}
  /\ selectedQueue' = None /\ selectedIsStale' = FALSE
  /\ drawerOpen' = FALSE /\ closeTimers' = closeTimers + 1
  /\ UNCHANGED isDrawerContainerOpen

DrawerInSight == drawerOpen /\ isDrawerContainerOpen

CloseDrawerClicked ==
  /\ DrawerInSight /\ closeTimers < MaxTimers
  /\ CloseQueueDrawer
  /\ UNCHANGED <<choiceVars, treeVars, callVars>>

\* A drawer in mode "over" that does not set disableClose closes itself on
\* Escape. The view does not hear of it: the queue stays selected and highlighted,
\* and the empty container on screen.
EscapePressed ==
  /\ DrawerInSight
  /\ drawerOpen' = FALSE
  /\ UNCHANGED <<choiceVars, treeVars, isSelected, selectedQueue, selectedIsStale,
                 isDrawerContainerOpen, closeTimers, callVars>>

TimerFires ==
  /\ closeTimers > 0
  /\ closeTimers' = closeTimers - 1
  /\ isDrawerContainerOpen' = FALSE
  /\ UNCHANGED <<choiceVars, treeVars, isSelected, selectedQueue, selectedIsStale,
                 drawerOpen, callVars>>

Visible(q) == \E l \in 0..MaxLevel : q \in queueList[l]

\* onQueueSelected of the rack, then onQueueItemSelected of the view.
SelectQueue(q) ==
  /\ Visible(q) /\ closeTimers < MaxTimers
  /\ \/ /\ q \notin isSelected
        /\ isSelected' = {q}
        /\ selectedQueue' = q
        /\ isDrawerContainerOpen' = TRUE /\ drawerOpen' = TRUE
        /\ UNCHANGED closeTimers
     \/ /\ q \in isSelected
        /\ isSelected' = {}
        /\ selectedQueue' = None
        /\ drawerOpen' = FALSE /\ closeTimers' = closeTimers + 1
        /\ UNCHANGED isDrawerContainerOpen
  /\ selectedIsStale' = FALSE
  /\ UNCHANGED <<choiceVars, treeVars, callVars>>

-----------------------------------------------------------------------------
(* Expanding and collapsing *)

(* mutant: only the next rack is closed *)
CloseQueueRacksBelowOnly(next) == [queueList EXCEPT ![next] = {}]

CloseQueueRacks(next) ==
  [l \in Levels |-> IF l = next \/ l \in next..MAX_QUEUE_LEVELS THEN {} ELSE queueList[l]]

OpenRack(q, next) == [queueList EXCEPT ![next] = Children[q]]

\* toggleQueueChildren of the rack at level l, then toggleQueueChildrenView. The
\* siblings' flags go down; what hangs below them is left as it is.
ToggleQueueChildren(q, l) ==
  /\ q \in queueList[l] /\ closeTimers < MaxTimers
  /\ LET others == isExpanded \ (queueList[l] \ {q}) IN
     \/ /\ q \notin isExpanded /\ Children[q] # {}
        /\ isExpanded' = others \cup {q}
        /\ queueList' = OpenRack(q, l + 1)
        /\ UNCHANGED drawerVars
     \/ /\ q \in isExpanded \/ Children[q] = {}
        /\ isExpanded' = (IF q \in isExpanded THEN others \ {q} ELSE others \cup {q}) \ Below(q)
        /\ queueList' = CloseQueueRacks(l + 1)
        /\ CloseQueueDrawer
  /\ UNCHANGED <<choiceVars, rootQueue, callVars>>

-----------------------------------------------------------------------------
(* Requests and answers, in any order *)

PartitionsAnswered ==
  /\ partitionsCall /\ partitionsCall' = FALSE
  /\ \/ /\ partitionList' = Partitions
        /\ partitionSelected' = IF stored = None THEN FirstPartition ELSE stored
        /\ queueCalls' = Append(queueCalls, partitionSelected')
        /\ UNCHANGED <<stored, queueList>>
     \/ /\ partitionList' = {} /\ partitionSelected' = None
        /\ queueList' = NoRacks /\ stored' = None
        /\ UNCHANGED queueCalls
  /\ UNCHANGED <<reliable, rootQueue, isExpanded, drawerVars>>

PartitionsFailed ==
  /\ ~reliable
  /\ partitionsCall /\ partitionsCall' = FALSE
  /\ UNCHANGED <<choiceVars, treeVars, drawerVars, queueCalls>>

\* A new tree: only its root is shown. A queue selected in the old one stays in
\* the drawer.
QueuesAnswered(i) ==
  /\ reliable => i = 1
  /\ queueCalls' = RemoveAt(queueCalls, i)
  /\ rootQueue' = queueCalls[i]
  /\ queueList' = [NoRacks EXCEPT ![0] = {Root}]
  /\ isExpanded' = {} /\ isSelected' = {}
  /\ selectedIsStale' = (selectedQueue # None)
  /\ UNCHANGED <<choiceVars, selectedQueue, drawerOpen, isDrawerContainerOpen,
                 closeTimers, partitionsCall>>

\* No root queue in the answer: no racks, the old tree is kept out of sight.
QueuesMissing(i) ==
  /\ reliable => i = 1
  /\ queueCalls' = RemoveAt(queueCalls, i)
  /\ queueList' = NoRacks
  /\ UNCHANGED <<choiceVars, rootQueue, isExpanded, drawerVars, partitionsCall>>

QueuesFailed(i) ==
  /\ ~reliable
  /\ queueCalls' = RemoveAt(queueCalls, i)
  /\ UNCHANGED <<choiceVars, treeVars, drawerVars, partitionsCall>>

(* mutant: the queues are fetched before the partition is set *)
FetchBeforeSelection(p) ==
  /\ p \in partitionList \ {partitionSelected}
  /\ Len(queueCalls) < MaxCalls /\ closeTimers < MaxTimers
  /\ partitionSelected' = p
  /\ CloseQueueDrawer
  /\ queueCalls' = Append(queueCalls, partitionSelected)
  /\ stored' = p
  /\ UNCHANGED <<reliable, partitionList, treeVars, partitionsCall>>

\* The list offers an empty value only when it offers nothing else.
OnPartitionSelectionChanged(p) ==
  /\ p \in partitionList \ {partitionSelected}
  /\ Len(queueCalls) < MaxCalls /\ closeTimers < MaxTimers
  /\ partitionSelected' = p
  /\ CloseQueueDrawer
  /\ queueCalls' = Append(queueCalls, p)
  /\ stored' = p
  /\ UNCHANGED <<reliable, partitionList, treeVars, partitionsCall>>

-----------------------------------------------------------------------------
Init ==
  /\ reliable \in BOOLEAN
  /\ partitionsCall = TRUE /\ queueCalls = <<>>
  /\ partitionList = {} /\ partitionSelected = None
  /\ stored \in Partitions \cup {None}
  /\ rootQueue = None /\ queueList = NoRacks
  /\ isExpanded = {} /\ isSelected = {}
  /\ selectedQueue = None /\ selectedIsStale = FALSE
  /\ drawerOpen = FALSE /\ isDrawerContainerOpen = FALSE /\ closeTimers = 0

Answers ==
  \/ PartitionsAnswered \/ PartitionsFailed
  \/ \E i \in DOMAIN queueCalls : QueuesAnswered(i) \/ QueuesMissing(i) \/ QueuesFailed(i)

Clicks ==
  \/ \E q \in Queues : SelectQueue(q)
  \/ \E q \in Queues, l \in 0..MaxLevel : ToggleQueueChildren(q, l)
  \/ \E p \in Partitions : OnPartitionSelectionChanged(p)
  \/ CloseDrawerClicked \/ EscapePressed

Next == Answers \/ Clicks \/ TimerFires

Spec == Init /\ [][Next]_vars

\* A timer fires; nobody owes a click or an answer.
FairSpec == Spec /\ WF_vars(TimerFires)

-----------------------------------------------------------------------------
(* Properties *)

\* Every variable keeps the shape its declaration gives it.
TypeOK ==
  /\ reliable \in BOOLEAN
  /\ partitionsCall \in BOOLEAN /\ queueCalls \in Seq(Partitions)
  /\ partitionList \subseteq Partitions
  /\ {partitionSelected, stored, rootQueue} \subseteq Partitions \cup {None}
  /\ queueList \in [Levels -> SUBSET Queues]
  /\ isExpanded \subseteq Queues /\ isSelected \subseteq Queues
  /\ selectedQueue \in Queues \cup {None} /\ selectedIsStale \in BOOLEAN
  /\ drawerOpen \in BOOLEAN /\ isDrawerContainerOpen \in BOOLEAN
  /\ closeTimers \in 0..MaxTimers

\* One queue of the tree at most is highlighted, and it is the selected one.
OneQueueSelected ==
  /\ isSelected \subseteq {selectedQueue}
  /\ selectedQueue # None /\ ~selectedIsStale => selectedQueue \in isSelected

\* An open drawer shows a queue: no click, answer or timer leaves it open and
\* empty. A closed one may have a queue selected, since Escape closes it alone.
DrawerShowsQueue == drawerOpen => selectedQueue # None

\* What is highlighted, what is selected and what the drawer shows agree, also
\* after the drawer was closed by Escape and a queue is selected again.
SelectionInv ==
  /\ TypeOK
  /\ OneQueueSelected
  /\ DrawerShowsQueue

\* The container does not cover the racks for good once no queue is selected:
\* the timer of closeMatDrawer hides it, unless a queue is selected again. It does
\* stay when Escape closes the drawer, which leaves the queue selected.
ContainerHidesInTheEnd ==
  selectedQueue = None ~> (~isDrawerContainerOpen \/ selectedQueue # None)

\* Collapsing a queue leaves nothing of it: no rack beyond its own and no queue
\* below it still marked as expanded. Holds for trees no deeper than
\* MAX_QUEUE_LEVELS, where closeQueueRacks stops.
CollapseIsComplete ==
  [][\A l \in 0..MaxLevel : \A q \in queueList[l] :
       q \in isExpanded /\ isExpanded' \subseteq isExpanded \ {q} /\ rootQueue' = rootQueue
         /\ UNCHANGED queueCalls
       => /\ \A m \in (l + 1)..(MaxLevel + 1) : queueList'[m] = {}
          /\ isExpanded' \cap Below(q) = {}]_vars

\* Of answers in order, the last one leaves the racks to the tree of the
\* partition selected, so that a queue clicked on, and the link it offers to its
\* applications, belong to the partition named in the drop-down list. Nothing
\* else keeps a superseded answer from the racks.
RacksShowSelection ==
  reliable /\ queueCalls = <<>> /\ queueList[0] # {} => rootQueue = partitionSelected
=============================================================================
