------------------------------ MODULE QueueTree ------------------------------
(***************************************************************************)
(* The queue diagram (QueueV2Component and queueVisualization): a card for *)
(* every queue reached through expanded ones, drawn by D3 joins, with a    *)
(* plus button to collapse and expand, a highlighted card and its details, *)
(* and two orientations.                                                   *)
(*                                                                         *)
(* A card that leaves the diagram stays in the document, and clickable,    *)
(* for the 500 ms of its exit transition.  A queue that comes back later   *)
(* gets a new card.  D3 is external: joins and transitions are modelled    *)
(* from how the code uses them.                                            *)
(***************************************************************************)
CONSTANTS
  Queues, Root,
  Children   \* Children[q]: the children of q in the answer, {} for a leaf

None == "none"
Orientations == {"horizontal", "vertical"}
Branches == {q \in Queues : Children[q] # {}}

ASSUME ConstantsAssumption ==
  /\ Root \in Queues /\ None \notin Queues
  /\ Children \in [Queues -> SUBSET Queues]

VARIABLES
  call,              \* "loading", "loaded", "failed": the one request of the view
  children,          \* queues of the hierarchy whose children are set
  keptChildren,      \* and those that hold them in _children
  cards, leaving,    \* queues with a card, and with one in its exit transition
  plusReacts,        \* cards that show their plus button under the mouse
  plusAt,            \* where a card's plus button sits
  dark,              \* cards drawn as hiding children
  orientation,
  highlighted,       \* cards drawn as selected
  selectedNode, selectedIsGone,  \* the card clicked last; no longer in the document
  isShowingDetails

cardVars == <<cards, leaving, plusReacts, plusAt, dark>>
vars == <<call, children, keptChildren, cardVars, orientation,
          highlighted, selectedNode, selectedIsGone, isShowingDetails>>
selectionVars == <<highlighted, selectedNode, selectedIsGone, isShowingDetails>>

\* The queues reached from the root through the expanded ones: those in every
\* set that has the root and the children of its expanded queues.
Descendants(expanded) ==
  {q \in Queues : \A reached \in SUBSET Queues :
     Root \in reached /\ (\A p \in reached \cap expanded : Children[p] \subseteq reached)
       => q \in reached}

InDocument == cards \cup leaving

(* mutant: only a card that is drawn anew gets its colour *)
DarkenNew(nodes, kept) ==
  LET entering == nodes \ InDocument
  IN dark' = (dark \ entering) \cup (entering \cap kept)

\* The colour of every card the layout has; one in its exit transition keeps its.
Darken(nodes, kept) == dark' = (dark \ nodes) \cup (nodes \cap kept)

(* mutant: no card that enters gets the mouseover handler *)
UpdateReactsOnce(expanded, kept) ==
  LET nodes == Descendants(expanded)
      entering == nodes \ InDocument
  IN /\ cards' = nodes /\ leaving' = InDocument \ nodes
     /\ plusReacts' = plusReacts \ entering
     /\ plusAt' = [q \in Queues |-> IF q \in entering THEN orientation ELSE plusAt[q]]
     /\ Darken(nodes, kept)

\* update(): cards enter, stay or leave. A card in its exit transition is
\* joined again when its queue comes back. Only a queue that has its children
\* when its card enters gets the mouseover handler.
Update(expanded, kept) ==
  LET nodes == Descendants(expanded)
      entering == nodes \ InDocument
  IN /\ cards' = nodes /\ leaving' = InDocument \ nodes
     /\ plusReacts' = (plusReacts \ entering) \cup (entering \cap expanded)
     /\ plusAt' = [q \in Queues |-> IF q \in entering THEN orientation ELSE plusAt[q]]
     /\ Darken(nodes, kept)

Answered ==
  /\ call = "loading"
  /\ \/ /\ call' = "loaded"
        /\ children' = Branches
        /\ Update(Branches, {})
     \/ /\ call' = "failed"   \* or an answer without a root queue
        /\ UNCHANGED <<children, cardVars>>
  /\ UNCHANGED <<keptChildren, orientation, selectionVars>>

\* click() swaps children and _children.
ToggleChildren(q) ==
  IF q \in children
  THEN children' = children \ {q} /\ keptChildren' = keptChildren \cup {q}
  ELSE /\ children' = IF q \in keptChildren THEN children \cup {q} ELSE children
       /\ keptChildren' = keptChildren \ {q}

\* The plus button is hidden, and so out of the mouse's reach, without the handler.
ClickPlus(q) ==
  /\ q \in InDocument \cap plusReacts
  /\ ToggleChildren(q)
  /\ Update(children', keptChildren')
  /\ UNCHANGED <<call, orientation, selectionVars>>

(* mutant: the card selected before keeps its frame *)
OtherCardsKeepFrame(q) == highlighted

\* The card selected before loses its frame; the same card keeps it so far.
OtherCards(q) == IF selectedNode = q \/ selectedIsGone THEN highlighted ELSE highlighted \ {selectedNode}

\* The details close on a second click on the same card; a click on another one
\* moves them, or, when they are closed, only moves the selection.
ClickCard(q) ==
  /\ q \in InDocument
  /\ LET same == selectedNode = None \/ (selectedNode = q /\ ~selectedIsGone) IN
     isShowingDetails' = IF same THEN ~isShowingDetails ELSE isShowingDetails
  /\ selectedNode' = q /\ selectedIsGone' = FALSE
  /\ highlighted' = IF isShowingDetails' THEN OtherCards(q) \cup {q} ELSE OtherCards(q) \ {q}
  /\ UNCHANGED <<call, children, keptChildren, cardVars, orientation>>

\* The exit transition of a card ends.
CardRemoved(q) ==
  /\ q \in leaving
  /\ leaving' = leaving \ {q}
  /\ highlighted' = highlighted \ {q}
  /\ selectedIsGone' = (selectedIsGone \/ selectedNode = q)
  /\ UNCHANGED <<call, children, keptChildren, cards, plusReacts, plusAt, dark, orientation,
                 selectedNode, isShowingDetails>>

(* mutant: cards already drawn keep their button where it was *)
ChangeOrientationOfNewCards ==
  /\ call = "loaded"
  /\ orientation' = IF orientation = "horizontal" THEN "vertical" ELSE "horizontal"
  /\ UNCHANGED <<call, children, keptChildren, cardVars, selectionVars>>

\* update() draws nothing new here; then every card's button moves.
ChangeOrientation ==
  /\ call = "loaded"
  /\ orientation' = IF orientation = "horizontal" THEN "vertical" ELSE "horizontal"
  /\ plusAt' = [q \in Queues |-> IF q \in InDocument THEN orientation' ELSE plusAt[q]]
  /\ UNCHANGED <<call, children, keptChildren, cards, leaving, plusReacts, dark, selectionVars>>

Init ==
  /\ call = "loading"
  /\ children = {} /\ keptChildren = {}
  /\ cards = {} /\ leaving = {} /\ plusReacts = {} /\ dark = {}
  /\ orientation = "horizontal" /\ plusAt = [q \in Queues |-> "horizontal"]
  /\ highlighted = {} /\ selectedNode = None /\ selectedIsGone = FALSE
  /\ isShowingDetails = FALSE

Next ==
  \/ Answered \/ ChangeOrientation
  \/ \E q \in Queues : ClickPlus(q) \/ ClickCard(q) \/ CardRemoved(q)

Spec == Init /\ [][Next]_vars

-----------------------------------------------------------------------------
(* Properties *)

\* Every variable keeps the shape its declaration gives it; the children of a
\* branch are in exactly one of the two places.
TypeOK ==
  /\ call \in {"loading", "loaded", "failed"}
  /\ call = "loaded" => children \cup keptChildren = Branches
  /\ children \cap keptChildren = {}
  /\ cards \subseteq Queues /\ leaving \subseteq Queues \ cards
  /\ plusReacts \subseteq Queues /\ dark \subseteq Queues
  /\ plusAt \in [Queues -> Orientations] /\ orientation \in Orientations
  /\ highlighted \subseteq InDocument
  /\ selectedNode \in Queues \cup {None} /\ selectedIsGone \in BOOLEAN
  /\ isShowingDetails \in BOOLEAN

\* At most one card is framed, and it is the one whose details are shown: also
\* after its card left the diagram and the queue came back on a new one.
OneCardHighlighted ==
  highlighted = IF isShowingDetails /\ ~selectedIsGone THEN {selectedNode} ELSE {}

\* The frame and the details of the diagram agree, and so do the two places the
\* children of a queue are kept in.
SelectionInv == TypeOK /\ OneCardHighlighted

\* A branch drawn expanded can be collapsed: its plus button reacts, although
\* the handler is only given to cards that enter with children.
ExpandedCanCollapse == cards \cap children \subseteq plusReacts

\* A card is dark exactly while it hides its children: whichever card was
\* collapsed, also one in its exit transition or one that hides a dark card.
DarkHidesChildren == dark \cap cards = keptChildren \cap cards

\* The button of every card on screen sits where the orientation wants it.
PlusFollowsOrientation == \A q \in cards : plusAt[q] = orientation
=============================================================================
