# A TLA+ model of yunikorn-web

yunikorn-web is the web UI of Apache YuniKorn: an Angular application (`src/src/app`) and a small
Go server (`src/pkg`) that serves its files, forwards `/ws/` to the k8shim and takes its listener,
authentication and `/auth` endpoints from the `webservice` package of yunikorn-core.

This directory holds TLA+ modules of the parts with behaviour of their own, TLC configurations that
check them on small instances, and theorems checked by TLAPS. `PROJECT.json` lists components, runs,
mutants, hazards and theorems, and maps every definition to the lines it stands for.

## Inventory

| Component | State | Operations | Interacts with | Hard parts |
|---|---|---|---|---|
| Session: `AuthService`, `ApiErrorInterceptor`, `AuthGuard`, `LoginComponent`, `ErrorViewComponent`, logout of `AppComponent`, initializers | identity and its generation; the flag of a login navigation under way; busy flags; cookie; router | start, login, logout, retry, every data request's answer, navigation | every view through the interceptor; router; `/auth` | answers in any order; two-call login; components destroyed with calls in flight; a 401 older than the session |
| Applications view | partition, queue, rows, selection, search, localStorage, requests | selects, search, row clicks, links | scheduler REST, localStorage, other views' links | late answers, debounce, objects replaced under a selection |
| Queues view, racks | tree, racks, expanded and selected flags, drawer, timers | expand, collapse, select, change partition, Escape | scheduler REST, localStorage | flags on shared objects, a timer racing a click, fixed number of levels |
| Nodes view | rows, selection, filter, columns | select, filter, toggle details | scheduler REST, localStorage | columns removed by answers and added by a button |
| Queue diagram | hierarchy, cards, highlighted card, details, orientation | collapse, select, turn | scheduler REST, D3 | cards that leave and return during transitions |
| Utilization chart and its bar chart | partition, series; the chart drawn, the series dimmed | select; hover, resize | scheduler REST, localStorage, event bus, Chart.js | two requests per change, late answers, sort and cut, two lists looked up by one index |
| Shared by the views | the pair in localStorage, the query of the route, one spinner | open, leave, follow, copy or paste a link, reload | all views | a view that was left still answers for its requests; a link over an open view creates none |
| Scheduler REST client | none | turns nested answers into flat lists | all views | two-way links of the tree, swapped fields, missing lists |
| Resource formatting | none | format amounts, resources, percentages | all views | unit boundaries, missing keys |
| Go server, proxy | configuration, transport, requests | start, forward, answer, stop | browser, k8shim, core webservice | headers of concurrent requests |
| Dashboard, event bus, charts | tiles, subscriptions, chart objects | open, leave, load, layout and resize events | `AppComponent`, event bus | events before subscriptions, subscriptions never ended, timers that outlive a page |
| Status, health checks, licenses, tiles, models | what one request brought | none | - | none |

What makes each correct: the session never shows a view to nobody, never signs a user out because of
someone else's request, and never locks a form. A view shows one selection and the details of that
selection; localStorage has the partition on screen, and the queue of the applications view, unless
that view emptied it, after which the next view opens the first partition. A chart shows the
partition selected, in the colours of its input and the layout of the page. A list has everything
the answer had, and a printed amount reads as the reported one. The proxy forwards nobody's
`Authorization` header, and no request speaks for the user of another one.

## Modules

| Module | Models | State and actions |
|---|---|---|
| `AuthSession` | the session | one action per answer, click and navigation end; `identity`, `authGeneration` are the fields of `AuthService`, `ldapLoginNavigationPending` that of the interceptor, `page`/`nav` the router |
| `Session` | what the session promises | whom the application serves, what is on screen, whether it is being left, whose requests are in flight; no code of its own |
| `SessionRefinement` | `AuthSession` as an implementation of `Session` | the mapping: `who` is the identity as `AuthGuard` admits it, `leaving` a navigation under way |
| `AppsView` | `AppsViewComponent` | a request is appended to `queueCalls`/`appCalls`, its answer removes it at any position |
| `QueuesView` | `QueuesViewComponent`, `QueueRackComponent` | a click of the rack and the handler of the view are one action, as the event is synchronous; `EscapePressed` is the `mat-drawer` closing itself |
| `NodesView` | `NodesViewComponent` | like `AppsView`; `nodeColumnIds` is the sequence of columns |
| `QueueTree` | `QueueV2Component`, `queueVisualization` | `Update` is `update()`; a card in its exit transition is in `leaving` until `CardRemoved` |
| `NodeUtilizations` | `AppNodeUtilizationsComponent` | every assignment of the partition is a request for all figures |
| `ArraySort` | `Array.prototype.sort`, external | one operator: the elements by the number of those that go before them; also lists the children of a queue |
| `BarChart` | `VerticalBarChartComponent` | `RenderChart` makes the chart anew; one action per handler Chart.js calls |
| `UtilizationTile` | the two together | an answer that brings series calls `ngOnChanges` in the same step |
| `EventBus` | `EventBusService` | `eventRegistry` with the subscribers of each Subject |
| `Dashboard` | `DashboardComponent`, the donut and area charts, `toggleNavigation` and the resize of `AppComponent`, on `EventBus` | a dashboard is a visit; its requests and its subscription to the layout event outlive it; a chart is whether it has data and the layout it was drawn in |
| `Browser` | what the views share, also after they were left | a view is its selection and the query of its route; `calls` holds the requests of all views; `Enter` creates a view, `Requery` changes the query of the route that is open |
| `SchedulerAnswers` | `generateQueuesTree`, `generateLeafQueueList`, `AppInfo`, the node allocations | operators, as in `ResourceFormat`, which it extends |
| `ResourceFormat` | `SchedulerService.format*`, `absUsagePercent`, `CommonUtil`, `formatResources` and the lines the tables show of it | operators; the one variable is the value reported last, so that a run covers the inputs |
| `K8ShimProxy` | `NewWebServer`, `newK8ShimProxy`, `parseK8ShimURL`, `main` | start-up decides the transport, `Forward` is the `Rewrite` function; of the headers a request has `Authorization` and the session cookie |
| `MC<module>` | - | the constants of the runs |
| `AuthSession_proofs` (also of `SessionRefinement`), `AppsView_proofs`, `QueuesView_proofs`, `NodesView_proofs`, `QueueTree_proofs`, `Browser_proofs`, `Answers_proofs` (of `Dashboard`, `UtilizationTile` and `SchedulerAnswers`), `K8ShimProxy_proofs` | - | theorems |

Definitions whose comment begins with "mutant" are mistakes this code could have had. Nothing uses
them; each replaces one definition to show that a property notices it.

### Abstractions

* **URLs** (`AuthSession`): a URL is the component it opens, what its `last` parameter points at, and
  whether the error page has to check the identity. A `last` inside a `last` is dropped, so a page
  reached through `last` may have any `last` its guard can give it (`PagesAt`). The login page opens
  at every spelling of its path, of which `safeLastRoute` knows `/login` (and what is below it):
  `otherLogin` stands for the others, such as `/login;a=1`.
* **Navigation**: `nav` is the navigation under way, `Settle` its end with guards, creation and
  destruction of components. With `NavigationInterleaves = FALSE` no other callback runs meanwhile:
  nothing in the routes is lazy or resolved, so the router settles in microtasks. `TRUE` lets every
  callback in, which is more than the browser does today and is what the interceptor's flag is for.
* **Cookie and whoami**: the session cookie names its user. Under `ldap` whoami reports that user or
  nobody; it may also report a mode this build does not know.
* **Rows**: an answer brings new objects. An object kept from an earlier answer (`selectedRow`,
  `selectedQueue`) is marked stale instead of being numbered.
* **Order of answers**: `reliable` is chosen at the start and never changes. When it is true, the
  answers of a kind come in the order of the requests and none fails; the properties about the last
  answer speak of those behaviours, all others of both. `patient` of `Browser` is the same for its
  user: when it is true no view is left before it has its partitions and has used its link.
* **Routes** (`Browser`): the router keeps the component of a route that is open, and with
  `useHash` a link pasted into the address bar is a navigation like any other. Only `Reload` starts
  the page again. The views reached through "plain" have no query to keep apart.
* **The stored pair**: localStorage has the text `partition:queue`, in the models the pair. No
  partition has a colon in its name. `Browser` has queues with one, which are read up to it (`Read`);
  in `AppsView` no queue has one, so what is written is read back as it was.
* **Views on screen** (`Browser`): a view is its partition, its queue, the partition whose queues it
  lists, and the query it was opened with. "plain" stands for the views with one request and nothing
  stored. `AppsView`, `QueuesView` and `NodesView` have the rest.
* **Charts** (`Dashboard`): the layout of the page is a number that grows with every change.
* **The pointer** (`BarChart`): it goes between the legend and the chart area through the space
  around them, and every bar can be reached from every other.
* **Answers** (`SchedulerAnswers`): queues are numbered so that a parent comes before its children;
  a list that is missing is an empty one, as the code treats it.
* **Empty drop-down entries**: a partition list offers an empty value only when it offers nothing
  else, so the branch of the handlers for it cannot be reached and is not modelled.
* **Trees**: every partition answers with a tree of the same shape.
* **D3**: a join gives a new card to a queue without one in the document, also counting cards in
  their exit transition.
* **Figures** (`NodeUtilizations`): a mean is a fraction; labels and tooltips are left out.
* **Formatting**: a printed amount is hundredths of a unit; floating point is exact.

## Runs

| Run | Shows | Bounds, and why they are enough |
|---|---|---|
| `auth_interleaved` | type invariant; views need an identity; flags follow calls; stale answers keep the session | one account, two views, two data requests, five generations: sign-in, sign-out and sign-in again with a request of each generation in flight |
| `auth_event_loop` | `AuthSession` implements `Session`; busy flags go down; the application starts; a login page at rest has its form | two accounts, one data request, five generations, every kind of address, the login page in both spellings; navigations settle first |
| `apps` | the selection, its allocations and localStorage agree; in order, the table and a search in it show the selected queue | two partitions sharing a queue name, up to two requests of a kind: the smallest case with a late answer |
| `queues` | highlight, selection and drawer agree, also through Escape, complete collapse, hidden container; in order, the racks show the selected partition | three levels below the root and two branches, two timers, two requests |
| `nodes` | selection under a filter, columns; in order, the table shows the selected partition | two nodes, one blank column per partition or none |
| `queue_tree` | one highlighted card, expanded branches collapse, colour and buttons follow the diagram | a branch of three levels, so that a card leaves with cards below it |
| `utilizations` | the canvas follows the selection, with the most used resources, in the colours of the input; dimming follows the pointer | three types, room for two series, every distribution over three buckets of three counts, four requests |
| `scheduler_answers` | amounts, folded cells of all four tables, used capacity in rack and diagram; drop-down, state logs, allocations | base 12 and three prefixes stand for 1000 or 1024 and six: all amounts to past the last prefix; every tree of six queues, logs of three entries in every order, two allocations of each kind |
| `formats_order` | a violation, see below | as `scheduler_answers` |
| `proxy` | every request speaks for its own user; certificates | every kind of address, two users, two requests, with and without header and cookie |
| `dashboard` | resizes reach the charts on screen and no other; status tiles are current when the timers have fired; a toggle is followed | two dashboards, two changes of the layout: a timer of one fires in the other, with requests of both in flight |
| `browser` | the spinner goes down; localStorage agrees with the view on screen; views left when ready touch neither | the applications, the queues and a plain view, two in a row, up to two requests at a click: a late answer of the view before meets one of the present one; a queue of both partitions, one of the first alone and one with a colon |

`MaxGeneration`, `MaxCalls`, `MaxTimers`, `MaxVisits` and `MaxLayouts` bound what is *started*
(requests, clicks, views, changes of the layout), never an answer. Symmetry is over request slots
only, and only in runs without liveness properties.

`CHECK_DEADLOCK FALSE` is set where the program really may stop: the server that failed to start or
was stopped, the tile and the queue views without a partition, the diagram whose one request failed,
and `dashboard` and `browser`, whose users stop at the bound.

`SelectionInv`, `ChartInv`, `EventsInv`, `CallsInv` and `RowsTellAll` are conjunctions of named
parts: the types of the module and what relates its variables.

### Fairness

`auth_event_loop` assumes that a navigation under way ends and the initializers' requests are answered
(weak fairness) and that each login, retry and logout request is answered or fails (strong fairness:
with `NavigationInterleaves = FALSE` an answer waits while a navigation is under way, so it is
enabled again and again rather than all the time). Browsers end every request. Users owe nothing: no
click, no request is fair. Of `Session` it shows the fair specification too: what is being left is
left in the end. `queues` assumes that a timer that was set fires, and `dashboard` the same of the
timer of `toggleNavigation` and the debounce of the resize.

### Findings

`formats_order` is violated by a cell with a device resource that has "memory" in its name:
`formatResources` (`apps-view.component.ts:372`, `nodes-view.component.ts:246`) puts each line in
lower case and then looks for `CPU` and `Memory`, so the last step moves nothing, where its comment
says "Concatenate the two arrays, with "cpu" and "Memory" elements first". `scheduler_answers` shows what the
code does give (`FoldedCells`): the first two lines are memory and CPU as long as no other type has
those words.

### What the code does not give

Met while modelling. But for the first, the repository nowhere promises them, and no property says
them.

* The cookie of a session goes to the k8shim. `Rewrite` (`web_server.go:137`) deletes the
  `Authorization` header and nothing else, and the reverse proxy copies the rest, so under `ldap` the
  `YK_AUTH` cookie is forwarded with every `/ws/` request, where the comment (`web_server.go:134`)
  says "The user's credentials never travel to k8shim". The README of the repository (line 108) says
  it of the header only, and that holds: `HeadersOfOwnUser` says what becomes of both.
* An applications or node table shows the answer that arrives last, not that of the selection
  (`LastAnswerIsSelection` needs ordered answers), and before it a search shows the former rows.
* Racks beyond the next one stay when a sibling is expanded; collapsing stops at level 5; the close
  timer hides a drawer opened meanwhile.
* Removed node columns do not come back; a card that enters collapsed has no way to be expanded.
* Escape closes the drawer of the queues view without `closeQueueDrawer`: the queue stays selected
  and highlighted, and the empty container over the racks, until it is clicked again or another one
  is selected and closed.
* A signed-in user may rest on a login page with its form: `safeLastRoute` refuses `/login` and what
  is below it, but another spelling in `last` opens the page again, in the component that is there.
  `NobodyBehindLogin` therefore speaks of plain addresses (it is proved, and no run checks it); in all
  others `LoginPageUsable` holds.
* The table of an application's allocations folds a resource to one line: CPU is hidden where both
  are reported, and memory where CPU is missing.
* An applications view that changes its partition, or loses its queue, empties localStorage, and the
  next view opens the first partition. Between the change and the new tree the queues of the former
  partition stay on offer, in a drop-down that is opened, and one of them is stored with the new one.
* A link pasted over the open applications view is followed only when its queues are next answered,
  and then replaces the partition selected meanwhile. A stored queue with a colon in its name is read
  up to the colon.
* A configuration that cannot be loaded leaves the application unstarted. The answer of a logout
  clears a user who signed in meanwhile.
* The history tiles are not drawn again by a layout event that comes before the partitions, since its
  handler throws without a first partition. Every dashboard that is left keeps its subscription to
  that event; the bar chart has none to it.
* A pointer that leaves the bar chart over a bar leaves the other series dimmed, and a legend item
  does not restore its own series. With more than ten resource types two may have one colour.
* The late answer of an applications view that was left with a link stores that link and takes the
  query from the address of the view on screen. Until the tree of a newly selected partition is
  there, the queues view links the queues of the former one with the new partition.

## Proofs

Every theorem holds for all values of the constants that satisfy the `ConstantsAssumption` of its
module, which TLC evaluates in each run; further assumptions are named below. Every safety
property of the passing runs is among them; liveness is not, see the end of this section.

`AuthSession_proofs`, for any views, accounts, request slots, auth mode and generation bound:

* `TypeCorrect`: type correctness, one step per action, with lemmas for the operators that build
  pages and identities.
* `SessionInvariant`: the inductive invariant. `ViewNeedsIdentity` alone is not inductive: a
  bootstrap or a settling navigation may open a view, so it needs that nothing is on screen before
  the start (`BootFirst`) and that the guard admitted what settles (`GuardAdmits`); the busy flags
  need that their component is on screen; and `DropOnlyByOwnRequest` needs `SenderOfGeneration`:
  a request of the present generation was sent as the present user. That is what the generation
  counter is for, and no code states it.
* `ViewsNeedIdentity`, `BusyFlagsTrackCalls`, `PendingFlagIsFresh` follow from it, and
  `StaleAnswersKeepSession`, an action property, from it and the actions.
* `LoginPageIsUsable` assumes `~NavigationInterleaves`, that is, that navigations settle before any
  other callback, as they do in the browser: otherwise a sign-in under a navigation that the guard
  turns back leaves the form behind an identity. Its invariant `LoginPageStays` speaks of what the
  guard makes of the navigation under way, so that a page about to be left owes nothing.
* `NobodyIsBehindLogin` assumes `PlainAddresses` as well: no `last` spells the login page in a way
  `safeLastRoute` does not know. That they stay plain is an invariant of its own (`PlainLasts`), as
  the error page carries the address of the page it replaces.

The same module, also under `PrincipalsAssumption`, and for navigations that interleave with
everything, which `auth_event_loop` leaves out:

* `MappingInvariant`: what the mapping needs beyond `SessionInvariant`. A navigation under way leads
  to a page (`NavLeadsSomewhere`), or settling it would show nothing; the mode known is the one of
  the server or none (`ModeOfServer`), so a user is on screen only under `ldap`; a logout is in
  flight only there (`LogoutUnderLdap`), so it makes somebody nobody; and nothing is in flight
  before the start (`RequestsAfterStart`), so no answer navigates there.
* `SessionImplemented`: every step of `AuthSession` is one of `Session` or leaves its variables
  alone, one lemma per kind of step (`SettleOpens`, `AnswerIdentifies`, `SendAsks`,
  `UnauthorizedLoses`, ...), put together in `StepMaps`. `UnauthorizedLoses` is where
  `SenderOfGeneration` is needed: the request that signs a user out is that user's. It is the safety
  part of `ImplementsSession`; that what is being left is left in the end stays with TLC.

`AppsView_proofs`, for any partitions, queues and applications and any number of requests in flight,
answered in any order (localStorage never holds a queue without its partition, as
`setStoredQueueAndPartition` writes neither without a partition):

* `AppsInvariant`: `AppsInv`, split into what concerns the rows (`RowsInv`) and the choices
  (`ChoicesInv`), with one lemma per kind of step. `OneRowSelected` needs `FlagsInTable`: a click
  lowers the flags of the rows in the table, so the flagged row has to be one of them unless the
  table was emptied under it, and a selected row of an earlier answer must have no flag in this one.
  `StoredIsSelection` needs `StoredWithPartition` and `PartitionsFirst`: a list of partitions that
  came late would otherwise move the partition away from the queue selected.
* `SelectionAgrees`, `SelectionIsStored` follow from it.
* `TableIsOfSelection`: `LastAnswerIsSelection` says something only when no request is left. The
  invariant (`NewestIsSelection`) says what holds before: the newest request is for the queue
  selected. Answers in order take the oldest one, so the newest stays the last element until it is
  the only one.

`QueuesView_proofs`, for any tree of queues and any number of requests and timers:

* `DrawerInvariant`: `SelectionInv` needs that a queue an earlier tree left selected has no flag in
  this one, since the new tree has new objects. The drawer may be closed with a queue selected
  (Escape), but never open without one. `SelectionCorrect` follows.
* `RacksAreOfSelection`: the argument of `TableIsOfSelection`; before the partitions are there,
  nothing is requested or shown.
* `CollapseCorrect` assumes `TreeOf(depth)` for some `depth`: every queue has one parent at most and
  is one level below it, and none is deeper than `MAX_QUEUE_LEVELS`, where `closeQueueRacks` stops.
  Its invariant `RacksInv` says that rack `l` shows queues of depth `l` with one parent and that at
  most one of each rack is expanded. `Below` is the least set closed under children, so that what is
  below a queue is deeper needs no induction.

`NodesView_proofs`, for any nodes, any filter and any columns (`ColumnIds` without repetition and
without the two columns the component adds itself, as in its field initializer):

* `NodesInvariant`, `SelectionCorrect`, `TableIsOfSelection`: as for the applications.
* `ColumnsCorrect`: its invariant `ColumnsInv` adds that the column of the icon is there, so that
  the attributes, put after the first column, come second. What `Array.filter` (`Without`, a
  recursive function) does to a list of columns are lemmas: it keeps the order, drops what it is
  told to and nothing else, and puts a column that was second not further back. They are shown for
  lists of every length from the least-number principle (`LeastNumber`): the least length with a
  counterexample would have a shorter one.

`Browser_proofs`, for any partitions, queues, kinds of view and links, and any number of views left
with requests in flight (`ConstantsAssumption`: what localStorage holds at first is a pair the
application stores, and a link names a partition and a queue):

* `BrowserInvariant`: `NextViewAgrees` needs to know what a late answer may still do. A request for
  the partitions is the only one of its view, which has selected nothing (`FirstCallAlone`); a view
  asks for queues and applications only with a partition (`PartitionBeforeQueue`); and a view left
  by a patient user asks for no partitions and has no link to follow (`LeftViewsSettled`), so that
  its answers store nothing.
  `Requery` alone changes the query of a view that has answers to come, and only of the one on screen.
* `SpinnerCorrect` and `StorageAgrees` follow; that a queue read from localStorage agrees with what
  is stored takes that reading twice is reading once (`ReadOnce`). `LeftViewsQuiet` is an action
  property shown from `LeftViewsSettled`, one step per action.

`Answers_proofs`, for any number of dashboards opened and left and of changes of the layout:

* `DashboardInvariant`, in three parts: requests (`PartitionsReadOnce`: what was read of the
  partitions stays), the bus, and what is drawn. `SettledStatusTilesAreCurrent` needs
  `StatusCanBeDrawn`: the dashboard on screen is subscribed to the layout, and a tile with data has
  the figures to be drawn from again. `ResizesReachCharts` and `StatusTilesAreCurrent` follow.
* `TileInvariant`, for the utilization tile, which is on the dashboard and keeps a state of its own.
  `InputIsOfSelection`: with nothing in flight the input of the chart is what the last report has of
  the partition selected, and before the partitions one request is in flight at most.
  `ChartOfTile`: the series are those of the input.
* `ChartCorrect` and `CanvasIsOfSelection` follow: the pointer dims series, and what it does never
  touches the type and the colour they were drawn in.

The same module, for any resource types, reports, bases, state logs and allocations
(`ConstantsAssumption` of the tile; `FormatsAssumption` and `AnswersAssumption`: reported amounts and
capacities are natural numbers, memory and vcore are among the resource types, each with its own
word in its label):

* `SortedInOrder` is what the charts and the cells rest on: under a strict total order of a finite
  set every element of `Sorted` goes before the next and each element is there once. The number of
  elements before one tells it from all others, so as many numbers as elements are taken. That a
  recursive function exists is shown from the least-number principle (`LeastNumber`), once for all
  that look at lower places only (`RecursionExists`); what it computes, from that principle again or
  by adding one element after another (`FiniteInduction`).
* `MostUsedTypesAreShown`: the two stable sorts give one strict order (`TypesInOrder`), as comparing
  fractions is transitive (`ExceedsTransitive`) and the type decides between equal ones. The series
  are a prefix of it, so none left out goes before one drawn. The invariant (`SeriesOfAnAnswer`)
  says that the chart shows the series of some answer; that it is the last one, and of the
  partition selected, is `InputIsOfSelection`.
* `FoldedCellsShow`: memory and vcore have the least ranks, so the sorted keys begin with
  them (`MemoryThenCpu`), and a missing one is put in front.
* `RacksAgreeWithDiagram`: by cases, which of the two is reported and which is the greater.
* `AmountsRead`: `Scale` and the walk along the prefixes are recursive functions, for any number of
  prefixes; the unit is the first at which the walk stops (`UnitIsFirstStop`). What is
  printed is the amount to half a hundredth (`Rounded`). A greater amount has the same unit or a
  later one, of which it fills one whole at least, and no amount of the unit before prints as more
  than that (`PrintedMonotone`).
* `TablesTellAll`: the fold over a state log gives its newest entry, in logs of any length
  (`NewestIsNewest`), and the rows of a node are those of its two lists, one after the other
  (`AllocationsListed`).
* `DropdownShowsTree`, for trees of any size and shape: a child has a higher number than its parent,
  so the list of a queue is reasoned about from the last queue to the root (`ListOfChildren`): it has
  leaves below that queue only, in the order of the outline, as what is below a child comes before
  what is below a later one (`ChildrenApart`). That no leaf is missing goes the other way: it is in
  the list of each queue above it, up to the root (`LeavesListed`). What `FlattenSeq` makes of
  ordered lists is `Flattened`; that the links up and down agree is `LinksAgree`.

`QueueTree_proofs`, for every hierarchy of queues:

* `TreeInvariant`: `TreeInv` has `ExpandedCanCollapse` and `PlusFollowsOrientation` also for cards
  in their exit transition (`ExpandedReact`, `ButtonsFollowOrientation`): a join may take such a card
  up again as it is, so the two properties alone are not inductive. Nothing is drawn before the
  answer (`NothingBeforeAnswer`). What `Update` does to the cards are lemmas of their own.
* `FrameFollowsDetails`, `ExpandedBranchesCollapse`, `DarkCardsHide` and `ButtonsTurn` follow.

`K8ShimProxy_proofs`, for any users and any number of concurrent requests: type correctness,
headers and certificates, from an invariant that adds that a serving process uses the transport
its configuration stands for and that nothing is under way when it does not serve.

TLC checked each inductive invariant on the constants of its module's run before it was proved.

Model-checked only: liveness, that is, `BusyEnds`, `ConfigThenBoots`, `ContainerHidesInTheEnd`,
`ToggleIsFollowed` and the fair part of `ImplementsSession`, as the prover has no rule for fairness
and `ENABLED`.

## Not modelled

* Of the queue diagram: links, zoom, the fit button and tooltips, which keep no state of the
  selection. Of the tables: sorting and the copy of allocation ids. Of the shell: breadcrumbs and the
  links to other sites.
* Of the charts: the options given to Chart.js and the texts of legends and tooltips. Of the
  dashboard: the figures printed from the cluster list, which follow one answer each.
* The licenses dialog shows a text it fetches; the remaining models and constants are declarations.
* The yunikorn-core webservice (listener, authentication, `/auth`), the k8shim, the browser, the
  router, Chart.js and D3 are external and appear as what the code relies on.

## Plan

Done: session and its promise with the refinement proved; views, what they share, the dashboard with
its charts, answers and formatting, and the proxy, with every safety property of the runs proved.

Left: the parts named under "Not modelled" that a later version of the code may give a behaviour of
their own, above all the links and the zoom of the queue diagram and the histories of the dashboard.
