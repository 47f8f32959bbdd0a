------------------------------- MODULE Browser -------------------------------
(***************************************************************************)
(* What the views share: the selection in localStorage, the query of the   *)
(* route and the one spinner.  A view that is left is destroyed, but its   *)
(* requests stay in flight and their handlers still run: they store a      *)
(* selection, change the query of the route and hide the spinner.          *)
(*                                                                         *)
(* A view is abstracted to its selection, and what a request brings to the *)
(* partition it is about.  AppsView, QueuesView and NodesView have the     *)
(* rest of each view, UtilizationTile the tile of the dashboard, which has *)
(* no spinner.  The string in localStorage is the pair it is made of: its  *)
(* partition has no colon in its name, its queue may have one.             *)
(***************************************************************************)
EXTENDS Naturals, FiniteSets

CONSTANTS
  Partitions, FirstPartition, Queues,
  Leaves,         \* the leaf queues of each partition
  Cut,            \* a queue name up to its first colon, if it has one
  StoredChoices,  \* what localStorage may hold at first
  Links,          \* pairs a link from elsewhere may name
  Opens,          \* the kinds of view that are opened
  MaxVisits,      \* bound: views opened
  MaxCalls        \* bound: no click adds a request to so many in flight

None == "none"
NoPair == <<None, None>>
Pairs == (Partitions \cup {None}) \X (Queues \cup {None})
Visits == 1..MaxVisits

\* "plain" stands for the dashboard, the status view and the queue diagram:
\* one request under the spinner.
Kinds == {"applications", "queues", "nodes", "plain"}

ASSUME ConstantsAssumption ==
  /\ FirstPartition \in Partitions
  /\ None \notin Partitions \cup Queues
  /\ Leaves \in [Partitions -> SUBSET Queues]
  /\ Cut \in [Queues -> Queues] /\ \A q \in Queues : Cut[Cut[q]] = Cut[q]
  /\ StoredChoices \subseteq {NoPair} \cup (Partitions \X (Queues \cup {None}))
  /\ Links \subseteq Partitions \X Queues
  /\ Opens \subseteq Kinds
  /\ {MaxVisits, MaxCalls} \subseteq Nat \ {0}

Subjects == {"partitions", "details", "apps"}

VARIABLES
  visit,    \* the view on screen; those before it are destroyed
  view,     \* the views: kind, partition and queue selected, the partition whose
            \* queues it lists, and the query of its route
  calls,    \* requests in flight
  stored,   \* localStorage: selectedPartitionAndQueue
  copied,   \* the clipboard
  spinner,
  patient   \* the user leaves no view before it has its partitions and used its
            \* link: chosen once, no code reads it

vars == <<visit, view, calls, stored, copied, spinner, patient>>

View == [kind : Kinds, partition : Partitions \cup {None}, queue : Queues \cup {None},
         listed : Partitions \cup {None}, query : Pairs]
FreshView(kind, query) ==
  [kind |-> kind, partition |-> None, queue |-> None, listed |-> None, query |-> query]

Call(v, about, p) == [visit |-> v, about |-> about, partition |-> p]

Settled(v) ==
  view[v].query = NoPair /\ Call(v, "partitions", None) \notin calls

-----------------------------------------------------------------------------
(* localStorage *)

(* mutant: the item is never removed *)
StoreNeverRemoves(p, q) == stored' = IF p = None THEN stored ELSE <<p, q>>

\* setStoredQueueAndPartition.
Store(p, q) == stored' = IF p = None THEN NoPair ELSE <<p, q>>

GetStoredPartition == IF stored[1] = None THEN FirstPartition ELSE stored[1]

\* What split(':') leaves of a queue: nothing after a colon is read.
Read(q) == IF q = None THEN None ELSE Cut[q]

-----------------------------------------------------------------------------
(* Opening and leaving *)

Opened(kind, query) ==
  /\ visit < MaxVisits
  /\ visit' = visit + 1
  /\ view' = [view EXCEPT ![visit + 1] = FreshView(kind, query)]

FirstCall(kind) ==
  Call(visit + 1, IF kind = "plain" THEN "details" ELSE "partitions", None)

\* The applications view alone asks for the partitions without the spinner.
Enter(kind, query) ==
  /\ kind # view[visit].kind \/ kind = "plain"
  /\ patient => Settled(visit)
  /\ Cardinality(calls) < MaxCalls
  /\ Opened(kind, query)
  /\ calls' = calls \cup {FirstCall(kind)}
  /\ spinner' = (kind # "applications" \/ spinner)
  /\ UNCHANGED <<stored, copied, patient>>

\* A route that is open keeps its component: ngOnInit does not run again, and
\* only the query changes.
Requery(kind, query) ==
  /\ kind = view[visit].kind /\ kind # "plain"
  /\ view' = [view EXCEPT ![visit].query = query]
  /\ UNCHANGED <<visit, calls, stored, copied, spinner, patient>>

\* The navigation bar.
Navigate(kind) == Enter(kind, NoPair) \/ Requery(kind, NoPair)

\* gotoApplicationsForPartitionAndQueue: the queue is one of the tree on screen.
FollowLink(q) ==
  /\ view[visit].kind = "queues"
  /\ view[visit].partition # None /\ view[visit].listed # None
  /\ q \in Leaves[view[visit].listed]
  /\ Enter("applications", <<view[visit].partition, q>>)

\* A link put in the address bar changes only the hash: no page is loaded.
PasteLink ==
  \E link \in Links \cup ({copied} \ {NoPair}) :
    Enter("applications", link) \/ Requery("applications", link)

\* F5: the page is loaded again at its address.
Reload ==
  LET v == view[visit] IN
  /\ Opened(v.kind, v.query)
  /\ calls' = {FirstCall(v.kind)}
  /\ spinner' = (v.kind # "applications")
  /\ UNCHANGED <<stored, copied, patient>>

\* copyLinkToClipboard.
CopyLink ==
  /\ view[visit].kind = "applications" /\ view[visit].queue # None
  /\ copied' = <<view[visit].partition, view[visit].queue>>
  /\ UNCHANGED <<visit, view, calls, stored, spinner, patient>>

-----------------------------------------------------------------------------
(* Answers, to views on screen and to views that were left *)

\* "next" are the requests the handler sends: they show the spinner, and then
\* finalize of the request answered hides it.
Answered(c, next) ==
  /\ c \in calls
  /\ calls' = (calls \ {c}) \cup next
  /\ spinner' = FALSE

(* mutant: the spinner is hidden by the handler of success, not by finalize *)
FailedKeepsSpinner(c) ==
  /\ c \in calls /\ calls' = calls \ {c}
  /\ UNCHANGED <<visit, view, stored, copied, spinner, patient>>

Failed(c) ==
  /\ Answered(c, {})
  /\ UNCHANGED <<visit, view, stored, copied, patient>>

PartitionsAnswered(c) ==
  /\ c.about = "partitions"
  /\ Answered(c, {Call(c.visit, "details", GetStoredPartition)})
  /\ view' = [view EXCEPT ![c.visit].partition = GetStoredPartition]
  /\ UNCHANGED <<visit, stored, copied, patient>>

NoPartitions(c) ==
  /\ c.about = "partitions"
  /\ Answered(c, {})
  /\ Store(None, None)
  /\ UNCHANGED <<visit, view, copied, patient>>

\* The queue tree, the nodes, or what a plain view shows.
DetailsAnswered(c) ==
  /\ c.about = "details" /\ view[c.visit].kind # "applications"
  /\ Answered(c, {})
  /\ view' = [view EXCEPT ![c.visit].listed = c.partition]
  /\ UNCHANGED <<visit, stored, copied, patient>>

\* No queue tree: the applications view lists none.
QueuesMissing(c) ==
  /\ c.about = "details" /\ view[c.visit].kind = "applications"
  /\ Answered(c, {})
  /\ view' = [view EXCEPT ![c.visit].listed = None]
  /\ UNCHANGED <<visit, stored, copied, patient>>

\* The route loses its query: that of the view on screen, whoever asks.
WithoutQuery(views) ==
  IF views[visit].kind = "applications" THEN [views EXCEPT ![visit].query = NoPair] ELSE views

\* fetchApplicationsUsingQueryParams, with the query of the view's own route:
\* a view that was left still sees the one it was opened with.
UseQuery(c) ==
  LET q == view[c.visit].query IN
  /\ c.about = "details" /\ view[c.visit].kind = "applications" /\ q # NoPair
  /\ Answered(c, {Call(c.visit, "apps", q[1])})
  /\ Store(q[1], q[2])
  /\ view' = WithoutQuery([view EXCEPT ![c.visit] =
       [@ EXCEPT !.partition = q[1], !.queue = q[2], !.listed = c.partition]])
  /\ UNCHANGED <<visit, copied, patient>>

(* mutant: a queue that is not found is forgotten for good *)
UseStoredForgets(c) ==
  LET v == view[c.visit]
      chosen == stored # NoPair /\ stored[1] = v.partition
      found == chosen /\ Read(stored[2]) \in Leaves[c.partition]
  IN
  /\ c.about = "details" /\ v.kind = "applications" /\ v.query = NoPair
  /\ Answered(c, IF found THEN {Call(c.visit, "apps", v.partition)} ELSE {})
  /\ view' = [view EXCEPT ![c.visit].listed = c.partition,
                          ![c.visit].queue = IF found THEN Read(stored[2])
                                             ELSE IF chosen THEN None ELSE @]
  /\ IF chosen /\ ~found THEN Store(None, None) ELSE UNCHANGED stored
  /\ UNCHANGED <<visit, copied, patient>>

\* setDefaultQueue.
UseStored(c) ==
  LET v == view[c.visit]
      chosen == stored # NoPair /\ stored[1] = v.partition
      found == chosen /\ Read(stored[2]) \in Leaves[c.partition]
  IN
  /\ c.about = "details" /\ v.kind = "applications" /\ v.query = NoPair
  /\ Answered(c, IF found THEN {Call(c.visit, "apps", v.partition)} ELSE {})
  /\ view' = [view EXCEPT ![c.visit].listed = c.partition,
                          ![c.visit].queue = IF found THEN Read(stored[2])
                                             ELSE IF chosen THEN None ELSE @]
  /\ UNCHANGED <<visit, stored, copied, patient>>

AppsAnswered(c) ==
  /\ c.about = "apps"
  /\ Answered(c, {})
  /\ UNCHANGED <<visit, view, stored, copied, patient>>

-----------------------------------------------------------------------------
(* The selects of the view on screen *)

\* No two equal requests at once.
Send(c) ==
  /\ c \notin calls /\ Cardinality(calls) < MaxCalls
  /\ calls' = calls \cup {c}
  /\ spinner' = TRUE

\* The applications view forgets the queue, the other two store the partition.
ChoosePartition(p) ==
  /\ view[visit].partition \notin {None, p}
  /\ Send(Call(visit, "details", p))
  /\ view' = [view EXCEPT ![visit].partition = p, ![visit].queue = None]
  /\ Store(IF view[visit].kind = "applications" THEN None ELSE p, None)
  /\ UNCHANGED <<visit, copied, patient>>

ChooseQueue(q) ==
  /\ view[visit].kind = "applications" /\ view[visit].listed # None
  /\ q \in Leaves[view[visit].listed] \ {view[visit].queue}
  /\ Send(Call(visit, "apps", view[visit].partition))
  /\ view' = [view EXCEPT ![visit].queue = q]
  /\ Store(view[visit].partition, q)
  /\ UNCHANGED <<visit, copied, patient>>

DeselectQueue ==
  /\ view[visit].kind = "applications" /\ view[visit].queue # None
  /\ view' = [view EXCEPT ![visit].queue = None]
  /\ Store(None, None)
  /\ UNCHANGED <<visit, calls, copied, spinner, patient>>

-----------------------------------------------------------------------------
Init ==
  /\ visit = 1
  /\ \E kind \in Opens, query \in {NoPair} \cup Links :
       /\ query # NoPair => kind = "applications"
       /\ view = [v \in Visits |->
            IF v = 1 THEN FreshView(kind, query) ELSE FreshView("plain", NoPair)]
       /\ calls = {Call(1, IF kind = "plain" THEN "details" ELSE "partitions", None)}
       /\ spinner = (kind # "applications")
  /\ stored \in StoredChoices
  /\ copied = NoPair
  /\ patient \in BOOLEAN

Handlers(c) ==
  \/ Failed(c) \/ PartitionsAnswered(c) \/ NoPartitions(c)
  \/ DetailsAnswered(c) \/ QueuesMissing(c) \/ UseQuery(c) \/ UseStored(c) \/ AppsAnswered(c)

Next ==
  \/ \E kind \in Opens : Navigate(kind)
  \/ \E q \in Queues : FollowLink(q) \/ ChooseQueue(q)
  \/ \E p \in Partitions : ChoosePartition(p)
  \/ PasteLink \/ Reload \/ CopyLink \/ DeselectQueue
  \/ \E c \in calls : Handlers(c)

Spec == Init /\ [][Next]_vars

-----------------------------------------------------------------------------
(* Properties *)

\* Every variable keeps the shape its declaration gives it.
TypeOK ==
  /\ visit \in Visits
  /\ view \in [Visits -> View]
  /\ \A c \in calls : c.visit \in 1..visit /\ c.about \in Subjects
  /\ stored \in Pairs /\ copied \in Pairs
  /\ spinner \in BOOLEAN /\ patient \in BOOLEAN

\* The spinner is up only while some request is in flight, also one of a view
\* that was left: it never stays up for good.
SpinnerMeansCalls == spinner => calls # {}

\* Requests belong to views that were opened, and answer for the spinner.
CallsInv == TypeOK /\ SpinnerMeansCalls

\* What localStorage keeps for the next view follows the view on screen, after
\* any sequence of views, links, reloads and choices, if no view was left before
\* it was ready: the partition on screen, and the queue of the applications view
\* as far as it is read back, up to a colon. The one exception: an applications
\* view with no queue selected may have emptied it, so that the next view opens
\* the first partition, whichever is on screen.
NextViewAgrees ==
  LET v == view[visit] IN
  patient /\ v.partition # None =>
    /\ \/ GetStoredPartition = v.partition
       \/ v.kind = "applications" /\ v.queue = None /\ stored = NoPair
    /\ v.queue # None => stored[1] = v.partition /\ Read(stored[2]) = Read(v.queue)

\* An answer that comes for a view that was left changes neither what is on
\* screen, nor the query of its route, nor localStorage, if no view was left
\* before it was ready: that is what being ready takes.
LeftViewsKeepQuiet ==
  [][\A c \in calls \ calls' :
       patient /\ visit' = visit /\ c.visit # visit
         => stored' = stored /\ view'[visit] = view[visit]]_vars
=============================================================================
