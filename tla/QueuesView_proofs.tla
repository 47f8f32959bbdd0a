-------------------------- MODULE QueuesView_proofs --------------------------
(***************************************************************************)
(* Theorems of QueuesView, for any partitions, any tree of queues and any  *)
(* number of requests and timers.                                          *)
(***************************************************************************)
EXTENDS QueuesView, SequenceTheorems, TLAPS

\* The invariant of the drawer: a queue of an earlier tree has no flag in this one.
DrawerInv ==
  /\ SelectionInv
  /\ selectedIsStale => isSelected = {}

\* With answers in order the newest request is for the partition selected, and
\* with none in flight the racks show that one; nothing comes before the
\* partitions.
AnswersInv ==
  reliable =>
  /\ partitionsCall => queueCalls = <<>> /\ partitionList = {} /\ queueList[0] = {}
  /\ queueCalls # <<>> => queueCalls[Len(queueCalls)] = partitionSelected
  /\ RacksShowSelection

-----------------------------------------------------------------------------
(* Facts about the operators *)

LEMMA RemoveAtTyped ==
  ASSUME NEW S, NEW s \in Seq(S), NEW i \in DOMAIN s
  PROVE  /\ RemoveAt(s, i) \in Seq(S) /\ Len(RemoveAt(s, i)) = Len(s) - 1
         /\ RemoveAt(s, i) # s
<1>1. i \in 1..Len(s) /\ Len(s) \in Nat
  BY LenProperties
<1> DEFINE before == SubSeq(s, 1, i - 1)  after == SubSeq(s, i + 1, Len(s))
<1>2. before \in Seq(S) /\ Len(before) = i - 1
  BY <1>1, SubSeqProperties
<1>3. after \in Seq(S) /\ Len(after) = Len(s) - i
  BY <1>1, SubSeqProperties
<1> HIDE DEF before, after
<1>4. before \o after \in Seq(S) /\ Len(before \o after) = Len(before) + Len(after)
  BY <1>2, <1>3, ConcatProperties
<1>5. RemoveAt(s, i) = before \o after
  BY DEF RemoveAt, before, after
<1>6. Len(before \o after) = Len(s) - 1
  BY <1>1, <1>2, <1>3, <1>4
<1> QED BY <1>1, <1>4, <1>5, <1>6

\* An answer in order leaves the newest request the newest.
LEMMA OldestAnswered ==
  ASSUME NEW S, NEW s \in Seq(S), s # <<>>
  PROVE  /\ RemoveAt(s, 1) = <<>> => Len(s) = 1
         /\ RemoveAt(s, 1) # <<>> => RemoveAt(s, 1)[Len(RemoveAt(s, 1))] = s[Len(s)]
<1>1. Len(s) \in Nat \ {0} /\ s \in [1..Len(s) -> S]
  BY LenProperties, EmptySeq
<1> DEFINE rest == SubSeq(s, 2, Len(s))
<1>2. /\ rest \in Seq(S) /\ Len(rest) = Len(s) - 1
      /\ \A k \in 1..(Len(s) - 1) : rest[k] = s[k + 1]
  <2>1. \A k \in 2..Len(s) : s[k] \in S
    BY <1>1
  <2> QED BY <1>1, <2>1, SubSeqProperties
<1>3. SubSeq(s, 1, 0) = <<>>
  BY SubSeqEmpty
<1>4. RemoveAt(s, 1) = rest
  <2>1. RemoveAt(s, 1) = <<>> \o rest
    BY <1>3 DEF RemoveAt
  <2> HIDE DEF rest
  <2> QED BY <1>2, <2>1, ConcatEmptySeq
<1> HIDE DEF rest
<1>5. rest = <<>> => Len(s) = 1
  <2>1. Len(<<>>) = 0
    BY EmptySeq
  <2>2. Len(s) \in Nat /\ Len(rest) = Len(s) - 1
    BY <1>1, <1>2
  <2> QED BY <2>1, <2>2
<1>6. rest # <<>> => rest[Len(rest)] = s[Len(s)]
  <2> SUFFICES ASSUME rest # <<>> PROVE rest[Len(rest)] = s[Len(s)]
    OBVIOUS
  <2>1. Len(rest) \in Nat \ {0}
    BY <1>2, EmptySeq
  <2> QED BY <1>1, <1>2, <2>1
<1> QED BY <1>4, <1>5, <1>6

LEMMA AppendedLast ==
  ASSUME NEW S, NEW s \in Seq(S), NEW e \in S
  PROVE  /\ Append(s, e) \in Seq(S) /\ Append(s, e) # <<>>
         /\ Append(s, e)[Len(Append(s, e))] = e
BY AppendProperties, LenProperties

LEMMA NoRacksTyped ==
  /\ NoRacks \in [Levels -> SUBSET Queues] /\ \A l \in Levels : NoRacks[l] = {}
  /\ 0 \in Levels
BY ConstantsAssumption DEF NoRacks, Levels, ConstantsAssumption

\* What is below a queue below q is below q.
LEMMA BelowBelow ==
  ASSUME NEW q \in Queues, NEW x \in Below(q)
  PROVE  Below(x) \subseteq Below(q)
<1> SUFFICES ASSUME NEW y \in Below(x), NEW below \in SUBSET Queues, Children[q] \subseteq below,
                    \A c \in below : Children[c] \subseteq below
             PROVE  y \in below
  BY DEF Below
<1>1. x \in below
  BY DEF Below
<1> QED BY <1>1 DEF Below

-----------------------------------------------------------------------------
(* The drawer *)

\* What the drawer and the highlighted queue keep between them.
DrawerPart ==
  /\ isSelected \subseteq Queues
  /\ selectedQueue \in Queues \cup {None} /\ selectedIsStale \in BOOLEAN
  /\ drawerOpen \in BOOLEAN /\ isDrawerContainerOpen \in BOOLEAN
  /\ closeTimers \in 0..MaxTimers
  /\ OneQueueSelected /\ DrawerShowsQueue
  /\ selectedIsStale => isSelected = {}

\* And the rest of the view.
ViewPart ==
  /\ reliable \in BOOLEAN
  /\ partitionsCall \in BOOLEAN /\ queueCalls \in Seq(Partitions)
  /\ partitionList \subseteq Partitions
  /\ partitionSelected \in Partitions \cup {None} /\ stored \in Partitions \cup {None}
  /\ rootQueue \in Partitions \cup {None}
  /\ queueList \in [Levels -> SUBSET Queues]
  /\ isExpanded \subseteq Queues

LEMMA InvSplits == DrawerInv <=> DrawerPart /\ ViewPart
BY DEF DrawerInv, DrawerPart, ViewPart, SelectionInv, TypeOK

LEMMA TimersCount ==
  /\ closeTimers \in 0..MaxTimers /\ closeTimers < MaxTimers => closeTimers + 1 \in 0..MaxTimers
  /\ closeTimers \in 0..MaxTimers /\ closeTimers > 0 => closeTimers - 1 \in 0..MaxTimers
  /\ 0 \in 0..MaxTimers
BY ConstantsAssumption DEF ConstantsAssumption

LEMMA DrawerKept ==
  ASSUME DrawerPart, UNCHANGED drawerVars
  PROVE  DrawerPart'
BY DEF DrawerPart, drawerVars, OneQueueSelected, DrawerShowsQueue

\* Closing the drawer lowers the one flag there may be.
LEMMA CloseKeepsDrawer ==
  ASSUME DrawerPart, closeTimers < MaxTimers, CloseQueueDrawer
  PROVE  DrawerPart'
<1>1. isSelected' = {}
  BY DEF DrawerPart, OneQueueSelected, CloseQueueDrawer
<1>2. /\ selectedQueue' = None /\ selectedIsStale' = FALSE /\ drawerOpen' = FALSE
      /\ closeTimers' = closeTimers + 1 /\ isDrawerContainerOpen' = isDrawerContainerOpen
  BY DEF CloseQueueDrawer
<1>3. closeTimers' \in 0..MaxTimers
  BY <1>2, TimersCount DEF DrawerPart
<1> QED BY <1>1, <1>2, <1>3 DEF DrawerPart, OneQueueSelected, DrawerShowsQueue

LEMMA SelectKeepsDrawer ==
  ASSUME DrawerPart, NEW q \in Queues, SelectQueue(q)
  PROVE  DrawerPart'
<1>1. q # None
  BY ConstantsAssumption DEF ConstantsAssumption
<1>2. CASE q \notin isSelected
  BY <1>1, <1>2 DEF SelectQueue, DrawerPart, OneQueueSelected, DrawerShowsQueue
<1>3. CASE q \in isSelected
  <2>1. /\ isSelected' = {} /\ selectedQueue' = None /\ drawerOpen' = FALSE
        /\ closeTimers' = closeTimers + 1 /\ isDrawerContainerOpen' = isDrawerContainerOpen
        /\ selectedIsStale' = FALSE
    BY <1>3 DEF SelectQueue
  <2>2. closeTimers' \in 0..MaxTimers
    BY <2>1, TimersCount DEF DrawerPart, SelectQueue
  <2> QED BY <2>1, <2>2 DEF DrawerPart, OneQueueSelected, DrawerShowsQueue
<1> QED BY <1>2, <1>3

LEMMA AnswerKeepsDrawer ==
  ASSUME DrawerPart, isSelected' = {}, selectedIsStale' = (selectedQueue # None),
         UNCHANGED <<selectedQueue, drawerOpen, isDrawerContainerOpen, closeTimers>>
  PROVE  DrawerPart'
BY DEF DrawerPart, OneQueueSelected, DrawerShowsQueue

LEMMA TimerKeepsDrawer ==
  ASSUME DrawerPart, TimerFires
  PROVE  DrawerPart'
<1>1. closeTimers' \in 0..MaxTimers /\ isDrawerContainerOpen' = FALSE
      /\ UNCHANGED <<isSelected, selectedQueue, selectedIsStale, drawerOpen>>
  BY TimersCount DEF TimerFires, DrawerPart
<1> QED BY <1>1 DEF DrawerPart, OneQueueSelected, DrawerShowsQueue

LEMMA EscapeKeepsDrawer ==
  ASSUME DrawerPart, EscapePressed
  PROVE  DrawerPart'
BY DEF EscapePressed, DrawerPart, OneQueueSelected, DrawerShowsQueue

-----------------------------------------------------------------------------
(* The rest of the view *)

\* What a toggle does to the flags and the racks.
LEMMA ToggleTyped ==
  ASSUME ViewPart, NEW q \in Queues, NEW l \in 0..MaxLevel, ToggleQueueChildren(q, l)
  PROVE  /\ ViewPart' /\ queueList'[0] = queueList[0]
         /\ UNCHANGED <<choiceVars, rootQueue, callVars>>
<1>1. l \in Levels /\ l + 1 \in Levels /\ l + 1 # 0 /\ 0 \in Levels /\ Levels \subseteq Nat
  BY ConstantsAssumption DEF Levels, ConstantsAssumption
<1>2. Children[q] \subseteq Queues
  BY ConstantsAssumption DEF ConstantsAssumption
<1>3. queueList \in [Levels -> SUBSET Queues] /\ isExpanded \subseteq Queues
  BY DEF ViewPart
<1>4. isExpanded' \subseteq isExpanded \cup {q}
      /\ (queueList' = OpenRack(q, l + 1) \/ queueList' = CloseQueueRacks(l + 1))
  BY DEF ToggleQueueChildren
<1>5. queueList' \in [Levels -> SUBSET Queues] /\ queueList'[0] = queueList[0]
  <2>1. CASE queueList' = OpenRack(q, l + 1)
    BY <1>1, <1>2, <1>3, <2>1 DEF OpenRack
  <2>2. CASE queueList' = CloseQueueRacks(l + 1)
    <3>1. 0 \notin (l + 1)..MAX_QUEUE_LEVELS
      BY <1>1
    <3> QED BY <1>1, <1>3, <2>2, <3>1 DEF CloseQueueRacks
  <2> QED BY <1>4, <2>1, <2>2
<1>6. UNCHANGED <<choiceVars, rootQueue, callVars>>
  BY DEF ToggleQueueChildren
<1> QED BY <1>3, <1>4, <1>5, <1>6 DEF ViewPart, choiceVars, callVars

LEMMA ViewKept ==
  ASSUME ViewPart, UNCHANGED <<choiceVars, treeVars, callVars>>
  PROVE  ViewPart'
BY DEF ViewPart, choiceVars, treeVars, callVars

LEMMA PartitionsAnsweredTyped ==
  ASSUME ViewPart, PartitionsAnswered
  PROVE  ViewPart'
<1>1. UNCHANGED <<reliable, rootQueue, isExpanded>> /\ partitionsCall' = FALSE
  BY DEF PartitionsAnswered
<1>2. CASE partitionList' = {}
  BY <1>1, <1>2, NoRacksTyped, ConstantsAssumption
  DEF PartitionsAnswered, ViewPart, ConstantsAssumption
<1>3. CASE /\ partitionList' = Partitions
           /\ partitionSelected' = IF stored = None THEN FirstPartition ELSE stored
           /\ queueCalls' = Append(queueCalls, partitionSelected')
           /\ UNCHANGED <<stored, queueList>>
  <2>1. partitionSelected' \in Partitions
    BY <1>3, ConstantsAssumption DEF ViewPart, ConstantsAssumption
  <2>2. queueCalls' \in Seq(Partitions)
    BY <1>3, <2>1, AppendedLast DEF ViewPart
  <2> QED BY <1>1, <1>3, <2>1, <2>2 DEF ViewPart
<1> QED BY <1>2, <1>3 DEF PartitionsAnswered

LEMMA AnswersTyped ==
  ASSUME ViewPart, NEW i, i \in DOMAIN queueCalls,
         QueuesAnswered(i) \/ QueuesMissing(i) \/ QueuesFailed(i)
  PROVE  ViewPart'
<1>1. queueCalls \in Seq(Partitions)
  BY DEF ViewPart
<1>2. queueCalls' \in Seq(Partitions)
  BY <1>1, RemoveAtTyped DEF QueuesAnswered, QueuesMissing, QueuesFailed
<1>3. queueCalls[i] \in Partitions
  BY <1>1, LenProperties
<1>4. [NoRacks EXCEPT ![0] = {Root}] \in [Levels -> SUBSET Queues]
  BY NoRacksTyped, ConstantsAssumption DEF ConstantsAssumption
<1>5. CASE QueuesAnswered(i)
  BY <1>2, <1>3, <1>4, <1>5 DEF QueuesAnswered, ViewPart, choiceVars
<1>6. CASE QueuesMissing(i)
  BY <1>2, <1>6, NoRacksTyped DEF QueuesMissing, ViewPart, choiceVars
<1>7. CASE QueuesFailed(i)
  BY <1>2, <1>7 DEF QueuesFailed, ViewPart, choiceVars, treeVars
<1> QED BY <1>5, <1>6, <1>7

LEMMA ChangedTyped ==
  ASSUME ViewPart, NEW p \in Partitions, OnPartitionSelectionChanged(p)
  PROVE  ViewPart'
<1>1. queueCalls' \in Seq(Partitions)
  BY AppendedLast DEF OnPartitionSelectionChanged, ViewPart
<1> QED BY <1>1 DEF OnPartitionSelectionChanged, ViewPart, treeVars

-----------------------------------------------------------------------------
(* Selection *)

LEMMA DrawerInvInit == Init => DrawerInv
<1> SUFFICES ASSUME Init PROVE DrawerInv
  OBVIOUS
<1>1. DrawerPart
  BY TimersCount DEF Init, DrawerPart, OneQueueSelected, DrawerShowsQueue
<1>2. queueCalls \in Seq(Partitions) /\ queueList \in [Levels -> SUBSET Queues]
  BY NoRacksTyped, EmptySeq DEF Init
<1>3. ViewPart
  BY <1>2 DEF Init, ViewPart
<1> QED BY <1>1, <1>3, InvSplits

LEMMA DrawerInvStep ==
  ASSUME DrawerInv, [Next]_vars
  PROVE  DrawerInv'
<1> SUFFICES DrawerPart' /\ ViewPart'
  BY InvSplits DEF DrawerInv, DrawerPart, ViewPart, SelectionInv, TypeOK,
                   OneQueueSelected, DrawerShowsQueue
<1>0. DrawerPart /\ ViewPart
  BY InvSplits
<1>1. CASE PartitionsAnswered
  BY <1>0, <1>1, PartitionsAnsweredTyped, DrawerKept DEF PartitionsAnswered
<1>2. CASE PartitionsFailed
  <2>1. ViewPart'
    BY <1>0, <1>2 DEF PartitionsFailed, ViewPart, choiceVars, treeVars
  <2> QED BY <1>0, <1>2, <2>1, DrawerKept DEF PartitionsFailed
<1>3. ASSUME NEW i \in DOMAIN queueCalls, QueuesAnswered(i) \/ QueuesMissing(i) \/ QueuesFailed(i)
      PROVE  DrawerPart' /\ ViewPart'
  <2>1. ViewPart'
    BY <1>0, <1>3, AnswersTyped
  <2>2. CASE QueuesAnswered(i)
    BY <1>0, <2>1, <2>2, AnswerKeepsDrawer DEF QueuesAnswered
  <2>3. CASE QueuesMissing(i)
    BY <1>0, <2>1, <2>3, DrawerKept DEF QueuesMissing
  <2>4. CASE QueuesFailed(i)
    BY <1>0, <2>1, <2>4, DrawerKept DEF QueuesFailed
  <2> QED BY <1>3, <2>2, <2>3, <2>4
<1>4. ASSUME NEW q \in Queues, SelectQueue(q)
      PROVE  DrawerPart' /\ ViewPart'
  BY <1>0, <1>4, SelectKeepsDrawer, ViewKept DEF SelectQueue
<1>5. ASSUME NEW q \in Queues, NEW l \in 0..MaxLevel, ToggleQueueChildren(q, l)
      PROVE  DrawerPart' /\ ViewPart'
  <2>1. ViewPart'
    BY <1>0, <1>5, ToggleTyped
  <2>2. UNCHANGED drawerVars \/ CloseQueueDrawer
    BY <1>5 DEF ToggleQueueChildren
  <2>3. closeTimers < MaxTimers
    BY <1>5 DEF ToggleQueueChildren
  <2> QED BY <1>0, <2>1, <2>2, <2>3, DrawerKept, CloseKeepsDrawer
<1>6. ASSUME NEW p \in Partitions, OnPartitionSelectionChanged(p)
      PROVE  DrawerPart' /\ ViewPart'
  BY <1>0, <1>6, ChangedTyped, CloseKeepsDrawer DEF OnPartitionSelectionChanged
<1>7. CASE CloseDrawerClicked
  BY <1>0, <1>7, ViewKept, CloseKeepsDrawer DEF CloseDrawerClicked
<1>8. CASE TimerFires
  BY <1>0, <1>8, ViewKept, TimerKeepsDrawer DEF TimerFires
<1>9. CASE EscapePressed
  BY <1>0, <1>9, ViewKept, EscapeKeepsDrawer DEF EscapePressed
<1>10. CASE UNCHANGED vars
  BY <1>0, <1>10, ViewKept, DrawerKept DEF vars
<1> QED BY <1>1, <1>2, <1>3, <1>4, <1>5, <1>6, <1>7, <1>8, <1>9, <1>10 DEF Next, Answers, Clicks

\* A queue that an earlier tree left in the drawer has no flag in this one, next
\* to what SelectionInv says.
THEOREM DrawerInvariant == Spec => []DrawerInv
BY DrawerInvInit, DrawerInvStep, PTL DEF Spec

\* At most one queue is highlighted, it is the one selected, and an open drawer
\* shows it, whatever trees arrive meanwhile and also after Escape.
THEOREM SelectionCorrect == Spec => []SelectionInv
<1>1. DrawerInv => SelectionInv
  BY DEF DrawerInv
<1> QED BY <1>1, DrawerInvariant, PTL

-----------------------------------------------------------------------------
(* Answers *)

LEMMA AnswersInvInit == Init => AnswersInv
BY NoRacksTyped DEF Init, AnswersInv, RacksShowSelection

\* Only answers and the drop-down list change what AnswersInv speaks of.
LEMMA AnswersKept ==
  ASSUME AnswersInv, UNCHANGED <<choiceVars, callVars, rootQueue>>, queueList'[0] = queueList[0]
  PROVE  AnswersInv'
BY DEF AnswersInv, RacksShowSelection, choiceVars, callVars

LEMMA AnswersInvStep ==
  ASSUME DrawerInv, AnswersInv, [Next]_vars
  PROVE  AnswersInv'
<1>0. ViewPart
  BY InvSplits
<1>1. CASE PartitionsAnswered
  <2>1. reliable => queueCalls = <<>>
    BY <1>1 DEF AnswersInv, PartitionsAnswered
  <2>2. UNCHANGED <<reliable, rootQueue>> /\ partitionsCall' = FALSE
    BY <1>1 DEF PartitionsAnswered
  <2>3. CASE partitionList' = {} /\ queueList' = NoRacks /\ UNCHANGED queueCalls
    BY <2>1, <2>2, <2>3, NoRacksTyped DEF AnswersInv, RacksShowSelection
  <2>4. CASE /\ partitionSelected' = IF stored = None THEN FirstPartition ELSE stored
             /\ queueCalls' = Append(queueCalls, partitionSelected')
    <3>1. partitionSelected' \in Partitions
      BY <1>0, <2>4, ConstantsAssumption DEF ViewPart, ConstantsAssumption
    <3>2. queueCalls' # <<>> /\ queueCalls'[Len(queueCalls')] = partitionSelected'
      BY <1>0, <2>4, <3>1, AppendedLast DEF ViewPart
    <3> QED BY <2>2, <3>2 DEF AnswersInv, RacksShowSelection
  <2> QED BY <1>1, <2>3, <2>4 DEF PartitionsAnswered
<1>2. CASE PartitionsFailed
  BY <1>2 DEF PartitionsFailed, AnswersInv, choiceVars
<1>3. ASSUME NEW i \in DOMAIN queueCalls, QueuesAnswered(i) \/ QueuesMissing(i) \/ QueuesFailed(i)
      PROVE  AnswersInv'
  <2> SUFFICES ASSUME reliable PROVE AnswersInv'
    BY <1>3 DEF AnswersInv, QueuesAnswered, QueuesMissing, QueuesFailed, choiceVars
  <2>1. queueCalls \in Seq(Partitions) /\ queueCalls # <<>> /\ i = 1
    <3>1. DOMAIN queueCalls = 1..Len(queueCalls)
      BY <1>0, LenProperties DEF ViewPart
    <3>2. queueCalls # <<>>
      BY <1>3, <3>1, EmptySeq
    <3> QED BY <1>0, <1>3, <3>2 DEF ViewPart, QueuesAnswered, QueuesMissing, QueuesFailed
  <2>2. queueCalls' = RemoveAt(queueCalls, 1) /\ UNCHANGED <<choiceVars, partitionsCall>>
    BY <1>3, <2>1 DEF QueuesAnswered, QueuesMissing, QueuesFailed
  <2>3. queueCalls[Len(queueCalls)] = partitionSelected /\ ~partitionsCall
    BY <2>1 DEF AnswersInv
  <2>4. queueCalls' # <<>> => queueCalls'[Len(queueCalls')] = partitionSelected
    BY <2>1, <2>2, <2>3, OldestAnswered
  <2>5. CASE QueuesAnswered(i)
    <3>1. queueCalls' = <<>> => rootQueue' = partitionSelected
      BY <2>1, <2>2, <2>3, <2>5, OldestAnswered DEF QueuesAnswered
    <3> QED BY <2>2, <2>3, <2>4, <3>1 DEF AnswersInv, RacksShowSelection, choiceVars
  <2>6. CASE QueuesMissing(i)
    BY <2>2, <2>3, <2>4, <2>6, NoRacksTyped DEF QueuesMissing, AnswersInv, RacksShowSelection, choiceVars
  <2>7. CASE QueuesFailed(i)
    BY <2>7 DEF QueuesFailed
  <2> QED BY <1>3, <2>5, <2>6, <2>7
<1>4. ASSUME NEW q \in Queues, SelectQueue(q)
      PROVE  AnswersInv'
  BY <1>4, AnswersKept DEF SelectQueue, treeVars
<1>5. ASSUME NEW q \in Queues, NEW l \in 0..MaxLevel, ToggleQueueChildren(q, l)
      PROVE  AnswersInv'
  BY <1>0, <1>5, ToggleTyped, AnswersKept
<1>6. ASSUME NEW p \in Partitions, OnPartitionSelectionChanged(p)
      PROVE  AnswersInv'
  <2>1. queueCalls' # <<>> /\ queueCalls'[Len(queueCalls')] = p
    BY <1>0, <1>6, AppendedLast DEF ViewPart, OnPartitionSelectionChanged
  <2>2. reliable => ~partitionsCall
    BY <1>6 DEF AnswersInv, OnPartitionSelectionChanged
  <2>3. UNCHANGED <<reliable, partitionsCall>> /\ partitionSelected' = p
    BY <1>6 DEF OnPartitionSelectionChanged
  <2> QED BY <2>1, <2>2, <2>3 DEF AnswersInv, RacksShowSelection
<1>7. CASE CloseDrawerClicked \/ EscapePressed
  BY <1>7, AnswersKept DEF CloseDrawerClicked, EscapePressed, treeVars
<1>8. CASE TimerFires
  BY <1>8, AnswersKept DEF TimerFires, treeVars
<1>9. CASE UNCHANGED vars
  BY <1>9, AnswersKept DEF vars, treeVars
<1> QED BY <1>1, <1>2, <1>3, <1>4, <1>5, <1>6, <1>7, <1>8, <1>9 DEF Next, Answers, Clicks

\* Of answers in order, the last one leaves the racks to the partition selected.
THEOREM RacksAreOfSelection == Spec => []RacksShowSelection
<1>1. AnswersInv /\ DrawerInv => RacksShowSelection
  BY DEF AnswersInv, RacksShowSelection
<1>2. DrawerInv /\ AnswersInv /\ [Next]_vars => AnswersInv'
  BY AnswersInvStep
<1> QED BY <1>1, <1>2, AnswersInvInit, DrawerInvariant, PTL DEF Spec

-----------------------------------------------------------------------------
(* Racks *)

\* The tree: every queue but the root has one parent, and is as deep as depth
\* says, which no rack beyond MAX_QUEUE_LEVELS is.
TreeOf(depth) ==
  /\ depth \in [Queues -> 0..MAX_QUEUE_LEVELS] /\ depth[Root] = 0
  /\ \A q \in Queues : \A c \in Children[q] : depth[c] = depth[q] + 1
  /\ \A p, q \in Queues : \A c \in Children[p] \cap Children[q] : p = q

\* Rack l shows queues of depth l, all children of one queue, of which one at
\* most is expanded, in the racks and out of sight.
RacksInv(depth) ==
  /\ \A l \in Levels : \A q \in queueList[l] : depth[q] = l
  /\ \A l \in Levels : \/ queueList[l] \subseteq {Root}
                       \/ \E p \in Queues : queueList[l] = Children[p]
  /\ \A p \in Queues : \A c, d \in Children[p] \cap isExpanded : c = d

\* What is below a queue is deeper.
LEMMA BelowIsDeeper ==
  ASSUME NEW depth, TreeOf(depth), NEW q \in Queues, NEW x \in Below(q)
  PROVE  x \in Queues /\ depth[x] > depth[q]
<1> DEFINE deeper == {y \in Queues : depth[y] > depth[q]}
<1>1. Children \in [Queues -> SUBSET Queues] /\ MAX_QUEUE_LEVELS \in Nat
  BY ConstantsAssumption DEF ConstantsAssumption
<1>2. \A y \in Queues : depth[y] \in Nat
  BY <1>1 DEF TreeOf
<1>3. Children[q] \subseteq deeper /\ \A c \in deeper : Children[c] \subseteq deeper
  BY <1>1, <1>2 DEF TreeOf
<1>4. deeper \in SUBSET Queues
  OBVIOUS
<1> HIDE DEF deeper
<1>5. x \in deeper
  BY <1>3, <1>4 DEF Below
<1> QED BY <1>5 DEF deeper

\* Siblings, in the rack they share.
LEMMA OneExpanded ==
  ASSUME NEW depth, RacksInv(depth), NEW l \in Levels,
         NEW c \in queueList[l] \cap isExpanded, NEW d \in queueList[l] \cap isExpanded
  PROVE  c = d
BY DEF RacksInv

\* The racks a collapse leaves: none beyond that of the queue.
LEMMA ClosedRacks ==
  ASSUME NEW depth, TreeOf(depth), RacksInv(depth), ViewPart, NEW l \in 0..MaxLevel,
         NEW m \in Levels, m > l
  PROVE  CloseQueueRacks(l + 1)[m] = {}
<1>1. MAX_QUEUE_LEVELS \in Nat /\ MaxLevel \in Nat /\ m \in Nat /\ l \in Nat
  BY ConstantsAssumption DEF ConstantsAssumption, Levels
<1>2. CASE m <= MAX_QUEUE_LEVELS
  BY <1>1, <1>2 DEF CloseQueueRacks
<1>3. CASE m > MAX_QUEUE_LEVELS
  <2>1. queueList[m] = {}
    <3>1. SUFFICES ASSUME NEW q \in queueList[m] PROVE FALSE
      OBVIOUS
    <3>2. q \in Queues /\ depth[q] = m
      BY DEF ViewPart, RacksInv
    <3> QED BY <1>1, <1>3, <3>2 DEF TreeOf
  <2> QED BY <2>1 DEF CloseQueueRacks
<1> QED BY <1>1, <1>2, <1>3

LEMMA RacksInvInit ==
  ASSUME NEW depth, TreeOf(depth), Init
  PROVE  RacksInv(depth)
BY NoRacksTyped DEF Init, RacksInv

LEMMA RacksInvToggle ==
  ASSUME NEW depth, TreeOf(depth), DrawerInv, RacksInv(depth),
         NEW q \in Queues, NEW l \in 0..MaxLevel, ToggleQueueChildren(q, l)
  PROVE  RacksInv(depth)'
<1>0. ViewPart
  BY InvSplits
<1>1. l \in Levels /\ l + 1 \in Levels
  BY ConstantsAssumption DEF Levels, ConstantsAssumption
<1>2. q \in queueList[l] /\ depth[q] = l
  BY <1>1 DEF ToggleQueueChildren, RacksInv
<1>3. queueList' = OpenRack(q, l + 1) \/ queueList' = CloseQueueRacks(l + 1)
  BY DEF ToggleQueueChildren
<1>4. \A m \in Levels : \/ queueList'[m] = queueList[m] \/ queueList'[m] = {}
                        \/ (m = l + 1 /\ queueList'[m] = Children[q])
  BY <1>0, <1>1, <1>3 DEF OpenRack, CloseQueueRacks, ViewPart
<1>5. \A m \in Levels : \A x \in queueList'[m] : depth[x] = m
  BY <1>2, <1>4 DEF TreeOf, RacksInv
<1>6. \A m \in Levels : \/ queueList'[m] \subseteq {Root}
                        \/ \E p \in Queues : queueList'[m] = Children[p]
  BY <1>4 DEF RacksInv
<1>7. isExpanded' \subseteq (isExpanded \ (queueList[l] \ {q})) \cup {q}
  BY DEF ToggleQueueChildren
<1>8. ASSUME NEW p \in Queues, NEW c \in Children[p] \cap isExpanded',
             NEW d \in Children[p] \cap isExpanded'
      PROVE  c = d
  <2>1. CASE q \notin Children[p]
    <3>1. c \in isExpanded /\ d \in isExpanded
      BY <1>7, <2>1
    <3> QED BY <3>1 DEF RacksInv
  <2>2. CASE q \in Children[p]
    <3>1. q # Root
      <4>1. depth[q] = depth[p] + 1 /\ depth[p] \in Nat /\ depth[Root] = 0
        BY <2>2, ConstantsAssumption DEF TreeOf, ConstantsAssumption
      <4> QED BY <4>1
    <3>2. PICK r \in Queues : queueList[l] = Children[r]
      BY <1>1, <1>2, <3>1 DEF RacksInv
    <3>3. r = p
      BY <1>2, <2>2, <3>2 DEF TreeOf
    <3> QED BY <1>7, <3>2, <3>3
  <2> QED BY <2>1, <2>2
<1> QED BY <1>5, <1>6, <1>8 DEF RacksInv

LEMMA RacksInvStep ==
  ASSUME NEW depth, TreeOf(depth), DrawerInv, RacksInv(depth), [Next]_vars
  PROVE  RacksInv(depth)'
<1>1. ASSUME queueList' = queueList \/ queueList' = NoRacks
                 \/ queueList' = [NoRacks EXCEPT ![0] = {Root}],
             isExpanded' = isExpanded \/ isExpanded' = {}
      PROVE  RacksInv(depth)'
  <2>1. \A l \in Levels : \/ queueList'[l] = queueList[l] \/ queueList'[l] = {}
                          \/ (l = 0 /\ queueList'[l] = {Root})
    BY <1>1, NoRacksTyped
  <2>2. \A l \in Levels : \A q \in queueList'[l] : depth[q] = l
    BY <2>1 DEF TreeOf, RacksInv
  <2>3. \A l \in Levels : \/ queueList'[l] \subseteq {Root}
                          \/ \E p \in Queues : queueList'[l] = Children[p]
    BY <2>1 DEF RacksInv
  <2> QED BY <1>1, <2>2, <2>3 DEF RacksInv
<1>2. ASSUME NEW q \in Queues, NEW l \in 0..MaxLevel, ToggleQueueChildren(q, l)
      PROVE  RacksInv(depth)'
  BY <1>2, RacksInvToggle
<1>3. ASSUME NEW i \in DOMAIN queueCalls, QueuesAnswered(i) \/ QueuesMissing(i) \/ QueuesFailed(i)
      PROVE  RacksInv(depth)'
  BY <1>1, <1>3 DEF QueuesAnswered, QueuesMissing, QueuesFailed, treeVars
<1>4. CASE PartitionsAnswered \/ PartitionsFailed
  BY <1>1, <1>4 DEF PartitionsAnswered, PartitionsFailed, treeVars
<1>5. ASSUME NEW q \in Queues, SelectQueue(q) PROVE RacksInv(depth)'
  BY <1>1, <1>5 DEF SelectQueue, treeVars
<1>6. ASSUME NEW p \in Partitions, OnPartitionSelectionChanged(p) PROVE RacksInv(depth)'
  BY <1>1, <1>6 DEF OnPartitionSelectionChanged, treeVars
<1>7. CASE CloseDrawerClicked \/ EscapePressed \/ TimerFires \/ UNCHANGED vars
  BY <1>1, <1>7 DEF CloseDrawerClicked, EscapePressed, TimerFires, vars, treeVars
<1> QED BY <1>2, <1>3, <1>4, <1>5, <1>6, <1>7 DEF Next, Answers, Clicks

\* A flag goes down only with a toggle in the same tree.
LEMMA FlagsGoDown ==
  ASSUME ViewPart, [Next]_vars, isExpanded' # isExpanded, UNCHANGED queueCalls
  PROVE  \E q \in Queues, l \in 0..MaxLevel : ToggleQueueChildren(q, l)
<1>1. ASSUME NEW i \in DOMAIN queueCalls, QueuesAnswered(i) \/ QueuesMissing(i) \/ QueuesFailed(i)
      PROVE  FALSE
  <2>1. queueCalls' = RemoveAt(queueCalls, i)
    BY <1>1 DEF QueuesAnswered, QueuesMissing, QueuesFailed
  <2> QED BY <2>1, RemoveAtTyped DEF ViewPart
<1>2. ~(PartitionsAnswered \/ PartitionsFailed)
  BY DEF PartitionsAnswered, PartitionsFailed, treeVars
<1>3. ~\E q \in Queues : SelectQueue(q)
  BY DEF SelectQueue, treeVars
<1>4. ~\E p \in Partitions : OnPartitionSelectionChanged(p)
  BY DEF OnPartitionSelectionChanged, treeVars
<1>5. ~(CloseDrawerClicked \/ EscapePressed \/ TimerFires \/ UNCHANGED vars)
  BY DEF CloseDrawerClicked, EscapePressed, TimerFires, vars, treeVars
<1> QED BY <1>1, <1>2, <1>3, <1>4, <1>5 DEF Next, Answers, Clicks

\* In a tree no deeper than MAX_QUEUE_LEVELS a queue collapses completely, also
\* when it goes with a queue above it: no rack beyond its own stays open, and no
\* queue below it stays marked as expanded.
THEOREM CollapseCorrect ==
  ASSUME NEW depth, TreeOf(depth)
  PROVE  Spec => CollapseIsComplete
<1> DEFINE Collapsed(q, l) ==
             /\ \A m \in (l + 1)..(MaxLevel + 1) : queueList'[m] = {}
             /\ isExpanded' \cap Below(q) = {}
           Complete ==
             \A l \in 0..MaxLevel : \A q \in queueList[l] :
               q \in isExpanded /\ isExpanded' \subseteq isExpanded \ {q}
                 /\ rootQueue' = rootQueue /\ UNCHANGED queueCalls
               => Collapsed(q, l)
<1>1. ASSUME DrawerInv, RacksInv(depth), [Next]_vars
      PROVE  [Complete]_vars
  <2> SUFFICES ASSUME NEW l \in 0..MaxLevel, NEW q \in queueList[l], q \in isExpanded,
                      isExpanded' \subseteq isExpanded \ {q}, UNCHANGED queueCalls
               PROVE  Collapsed(q, l)
    OBVIOUS
  <2>0. ViewPart /\ MaxLevel \in Nat /\ 0..MaxLevel \subseteq Levels
        /\ \A k \in 0..MaxLevel : (k + 1)..(MaxLevel + 1) \subseteq Levels
    BY <1>1, InvSplits, ConstantsAssumption DEF ConstantsAssumption, Levels
  <2>1. PICK r \in Queues, n \in 0..MaxLevel : ToggleQueueChildren(r, n)
    BY <1>1, <2>0, FlagsGoDown
  <2>2. q \in Queues /\ depth[q] = l /\ r \in queueList[n] /\ depth[r] = n
    BY <1>1, <2>0, <2>1 DEF ViewPart, RacksInv, ToggleQueueChildren
  <2>3. /\ r \in isExpanded
        /\ isExpanded' = ((isExpanded \ (queueList[n] \ {r})) \ {r}) \ Below(r)
        /\ queueList' = CloseQueueRacks(n + 1)
    <3>1. CASE r \notin isExpanded /\ Children[r] # {}
      <4>1. r \in isExpanded'
        BY <2>1, <3>1 DEF ToggleQueueChildren
      <4> QED BY <3>1, <4>1
    <3>2. CASE r \notin isExpanded /\ Children[r] = {}
      <4>1. Below(r) = {}
        BY <3>2 DEF Below
      <4>2. r \in isExpanded'
        BY <2>1, <3>2, <4>1 DEF ToggleQueueChildren
      <4> QED BY <3>2, <4>2
    <3>3. CASE r \in isExpanded
      BY <2>1, <3>3 DEF ToggleQueueChildren
    <3> QED BY <3>1, <3>2, <3>3
  <2>4. q = r \/ q \in Below(r)
    <3>1. CASE q \in queueList[n]
      BY <1>1, <2>0, <2>2, <2>3, <3>1, OneExpanded
    <3>2. CASE q \notin queueList[n]
      BY <2>3, <3>2
    <3> QED BY <3>1, <3>2
  <2>5. n <= l
    <3>1. CASE q = r
      BY <2>2, <3>1
    <3>2. CASE q \in Below(r)
      BY <2>2, <3>2, BelowIsDeeper
    <3> QED BY <2>4, <3>1, <3>2
  <2>6. ASSUME NEW m \in (l + 1)..(MaxLevel + 1)
        PROVE  queueList'[m] = {}
    <3>1. m \in Levels /\ m > n
      BY <2>0, <2>5
    <3> QED BY <1>1, <2>0, <2>3, <3>1, ClosedRacks
  <2>7. isExpanded' \cap Below(q) = {}
    <3>1. Below(q) \subseteq Below(r)
      BY <2>2, <2>4, BelowBelow
    <3> QED BY <2>3, <3>1
  <2> QED BY <2>6, <2>7
<1>2. Init => RacksInv(depth)
  BY RacksInvInit
<1>3. DrawerInv /\ RacksInv(depth) /\ [Next]_vars => RacksInv(depth)'
  BY RacksInvStep
<1>4. Spec => [][Complete]_vars
  BY <1>1, <1>2, <1>3, DrawerInvariant, PTL DEF Spec
<1> QED BY <1>4 DEF CollapseIsComplete

=============================================================================
