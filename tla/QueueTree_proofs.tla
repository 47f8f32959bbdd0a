-------------------------- MODULE QueueTree_proofs --------------------------
(***************************************************************************)
(* Theorems of QueueTree, for every tree of queues and any order of        *)
(* clicks, turns of the diagram and ends of exit transitions.              *)
(***************************************************************************)
EXTENDS QueueTree, TLAPS

\* Nothing is drawn, and no queue holds children, before the answer.
NothingBeforeAnswer ==
  call # "loaded" => InDocument = {} /\ children = {} /\ keptChildren = {}

\* ExpandedCanCollapse for the cards in their exit transition too: they may be
\* joined again, and get no second handler.
ExpandedReact == InDocument \cap children \subseteq plusReacts

\* PlusFollowsOrientation for the cards in their exit transition too.
ButtonsFollowOrientation == \A q \in InDocument : plusAt[q] = orientation

\* The inductive invariant behind the safety properties.
TreeInv ==
  /\ TypeOK
  /\ OneCardHighlighted
  /\ NothingBeforeAnswer
  /\ ExpandedReact
  /\ DarkHidesChildren
  /\ ButtonsFollowOrientation

-----------------------------------------------------------------------------
(* update() *)

\* Whatever is expanded, the diagram shows queues.
LEMMA DescendantsAreQueues == \A expanded : Descendants(expanded) \subseteq Queues
BY DEF Descendants

\* A card in the document stays in it: update() takes none out at once.
LEMMA UpdateKeepsCards ==
  ASSUME NEW expanded, NEW kept, Update(expanded, kept)
  PROVE  /\ cards' = Descendants(expanded)
         /\ InDocument' = InDocument \cup Descendants(expanded)
         /\ leaving' = InDocument \ cards'
BY DEF Update, InDocument

\* update() leaves well-typed cards, coloured after the children they hide and
\* with their buttons where the orientation has them.
LEMMA UpdateTyped ==
  ASSUME TypeOK, ButtonsFollowOrientation, UNCHANGED orientation,
         NEW expanded \in SUBSET Queues, NEW kept \in SUBSET Queues, Update(expanded, kept)
  PROVE  /\ cards' \subseteq Queues /\ leaving' \subseteq Queues \ cards'
         /\ plusReacts' \subseteq Queues /\ dark' \subseteq Queues
         /\ plusAt' \in [Queues -> Orientations]
         /\ ButtonsFollowOrientation'
         /\ dark' \cap cards' = kept \cap cards'
<1>1. Descendants(expanded) \subseteq Queues
  BY DescendantsAreQueues
<1>2. cards \subseteq Queues /\ leaving \subseteq Queues /\ plusReacts \subseteq Queues
      /\ dark \subseteq Queues /\ plusAt \in [Queues -> Orientations]
      /\ orientation \in Orientations
  BY DEF TypeOK
<1>3. cards' \subseteq Queues /\ leaving' \subseteq Queues \ cards'
  BY <1>1, <1>2 DEF Update, InDocument
<1>4. plusReacts' \subseteq Queues
  BY <1>1, <1>2 DEF Update
<1>5. dark' \subseteq Queues /\ dark' \cap cards' = kept \cap cards'
  BY <1>1, <1>2 DEF Update, Darken
<1>6. plusAt' = [q \in Queues |-> IF q \in Descendants(expanded) \ InDocument
                                  THEN orientation ELSE plusAt[q]]
  BY DEF Update
<1>7. plusAt' \in [Queues -> Orientations]
  BY <1>2, <1>6
<1>8. ButtonsFollowOrientation'
  <2> SUFFICES ASSUME NEW q \in InDocument'
               PROVE  plusAt'[q] = orientation
    BY DEF ButtonsFollowOrientation
  <2>1. q \in InDocument \/ q \in Descendants(expanded) \ InDocument
    BY UpdateKeepsCards
  <2>2. q \in Queues
    BY <1>1, <1>2, <2>1 DEF InDocument
  <2> QED BY <1>6, <2>1, <2>2 DEF ButtonsFollowOrientation
<1> QED BY <1>3, <1>4, <1>5, <1>7, <1>8

\* A card that enters expanded reacts, and one that was there before does if it
\* did, or was not expanded.
LEMMA UpdateReacts ==
  ASSUME NEW expanded, NEW kept, Update(expanded, kept),
         InDocument \cap expanded \subseteq plusReacts
  PROVE  InDocument' \cap expanded \subseteq plusReacts'
BY UpdateKeepsCards DEF Update

\* The frames stay on cards of the document.
LEMMA UpdateKeepsFrames ==
  ASSUME TypeOK, NEW expanded, NEW kept, Update(expanded, kept), UNCHANGED selectionVars
  PROVE  highlighted' \subseteq InDocument'
BY UpdateKeepsCards DEF TypeOK, selectionVars

-----------------------------------------------------------------------------
(* The steps *)

LEMMA TreeInvInit == Init => TreeInv
BY ConstantsAssumption
   DEF Init, TreeInv, TypeOK, OneCardHighlighted, NothingBeforeAnswer, ExpandedReact,
       DarkHidesChildren, ButtonsFollowOrientation, InDocument, Orientations, Branches,
       ConstantsAssumption

\* The answer draws the whole tree, or nothing.
LEMMA AnsweredStep ==
  ASSUME TreeInv, Answered
  PROVE  TreeInv'
<1> USE DEF TreeInv
<1>1. UNCHANGED <<keptChildren, orientation, selectionVars>> /\ call = "loading"
  BY DEF Answered
<1>2. OneCardHighlighted'
  BY <1>1 DEF OneCardHighlighted, selectionVars
<1>3. InDocument = {} /\ children = {} /\ keptChildren = {}
  BY <1>1 DEF NothingBeforeAnswer
<1>4. CASE call' = "loaded" /\ children' = Branches /\ Update(Branches, {})
  <2>1. Branches \in SUBSET Queues /\ {} \in SUBSET Queues
    BY DEF Branches
  <2>2. /\ cards' \subseteq Queues /\ leaving' \subseteq Queues \ cards'
        /\ plusReacts' \subseteq Queues /\ dark' \subseteq Queues
        /\ plusAt' \in [Queues -> Orientations]
        /\ ButtonsFollowOrientation'
        /\ dark' \cap cards' = {}
    BY <1>1, <1>4, <2>1, UpdateTyped
  <2>3. ExpandedReact'
    BY <1>3, <1>4, UpdateReacts DEF ExpandedReact
  <2>4. highlighted' \subseteq InDocument'
    BY <1>1, <1>4, UpdateKeepsFrames
  <2>5. TypeOK'
    BY <1>1, <1>3, <1>4, <2>2, <2>4 DEF TypeOK, selectionVars
  <2> QED BY <1>1, <1>2, <1>3, <1>4, <2>2, <2>3, <2>5
          DEF NothingBeforeAnswer, DarkHidesChildren
<1>5. CASE call' = "failed" /\ UNCHANGED <<children, cardVars>>
  BY <1>1, <1>2, <1>3, <1>5
     DEF TypeOK, InDocument, cardVars, selectionVars, NothingBeforeAnswer, ExpandedReact,
         DarkHidesChildren, ButtonsFollowOrientation
<1> QED BY <1>4, <1>5 DEF Answered

\* A plus button moves the children of its queue to the other place and back.
LEMMA TogglePlaces ==
  ASSUME TypeOK, call = "loaded", NEW q \in Queues, ToggleChildren(q)
  PROVE  /\ children' \in SUBSET Queues /\ keptChildren' \in SUBSET Queues
         /\ children' \cup keptChildren' = Branches /\ children' \cap keptChildren' = {}
         /\ children' \subseteq children \cup {q}
BY DEF TypeOK, ToggleChildren, Branches

LEMMA ClickPlusStep ==
  ASSUME TreeInv, NEW q \in Queues, ClickPlus(q)
  PROVE  TreeInv'
<1> USE DEF TreeInv
<1>1. /\ q \in InDocument \cap plusReacts /\ ToggleChildren(q)
      /\ Update(children', keptChildren')
      /\ UNCHANGED <<call, orientation, selectionVars>>
  BY DEF ClickPlus
<1>2. call = "loaded"
  BY <1>1 DEF NothingBeforeAnswer
<1>3. /\ children' \in SUBSET Queues /\ keptChildren' \in SUBSET Queues
      /\ children' \cup keptChildren' = Branches /\ children' \cap keptChildren' = {}
      /\ children' \subseteq children \cup {q}
  BY <1>1, <1>2, TogglePlaces
<1>4. /\ cards' \subseteq Queues /\ leaving' \subseteq Queues \ cards'
      /\ plusReacts' \subseteq Queues /\ dark' \subseteq Queues
      /\ plusAt' \in [Queues -> Orientations]
      /\ ButtonsFollowOrientation'
      /\ dark' \cap cards' = keptChildren' \cap cards'
  BY <1>1, <1>3, UpdateTyped
<1>5. ExpandedReact'
  <2>1. InDocument \cap children' \subseteq plusReacts
    BY <1>1, <1>3 DEF ExpandedReact
  <2> QED BY <1>1, <2>1, UpdateReacts DEF ExpandedReact
<1>6. highlighted' \subseteq InDocument'
  BY <1>1, UpdateKeepsFrames
<1>7. TypeOK'
  BY <1>1, <1>2, <1>3, <1>4, <1>6 DEF TypeOK, selectionVars
<1>8. OneCardHighlighted'
  BY <1>1 DEF OneCardHighlighted, selectionVars
<1> QED BY <1>1, <1>2, <1>4, <1>5, <1>7, <1>8 DEF NothingBeforeAnswer, DarkHidesChildren

\* A click frames the card clicked, or none.
LEMMA ClickCardStep ==
  ASSUME TreeInv, NEW q \in Queues, ClickCard(q)
  PROVE  TreeInv'
<1> USE DEF TreeInv
<1>1. /\ q \in InDocument /\ selectedNode' = q /\ selectedIsGone' = FALSE
      /\ UNCHANGED <<call, children, keptChildren, cardVars, orientation>>
  BY DEF ClickCard
<1>2. isShowingDetails' \in BOOLEAN
  BY DEF ClickCard, TypeOK
<1>3. highlighted' = IF isShowingDetails' THEN {q} ELSE {}
  <2>1. selectedNode # q /\ ~selectedIsGone => OtherCards(q) = {}
    BY DEF OtherCards, OneCardHighlighted
  <2>2. selectedNode = q \/ selectedIsGone => OtherCards(q) \subseteq {q}
    BY DEF OtherCards, OneCardHighlighted
  <2> QED BY <2>1, <2>2 DEF ClickCard
<1>4. OneCardHighlighted'
  BY <1>1, <1>3 DEF OneCardHighlighted
<1>5. TypeOK'
  BY <1>1, <1>2, <1>3 DEF TypeOK, cardVars, InDocument
<1> QED BY <1>1, <1>4, <1>5
        DEF cardVars, InDocument, NothingBeforeAnswer, ExpandedReact, DarkHidesChildren,
            ButtonsFollowOrientation

\* A card that goes takes its frame along.
LEMMA CardRemovedStep ==
  ASSUME TreeInv, NEW q \in Queues, CardRemoved(q)
  PROVE  TreeInv'
<1> USE DEF TreeInv, CardRemoved
<1>1. InDocument' = InDocument \ {q}
  BY DEF InDocument, TypeOK
<1>2. OneCardHighlighted'
  BY DEF OneCardHighlighted
<1>3. TypeOK'
  BY <1>1 DEF TypeOK
<1> QED BY <1>1, <1>2, <1>3
        DEF NothingBeforeAnswer, ExpandedReact, DarkHidesChildren, ButtonsFollowOrientation

\* A turn moves the button of every card in the document.
LEMMA ChangeOrientationStep ==
  ASSUME TreeInv, ChangeOrientation
  PROVE  TreeInv'
<1> USE DEF TreeInv
<1>1. /\ UNCHANGED <<call, children, keptChildren, cards, leaving, plusReacts, dark, selectionVars>>
      /\ orientation' \in Orientations
      /\ plusAt' = [q \in Queues |-> IF q \in InDocument THEN orientation' ELSE plusAt[q]]
  BY DEF ChangeOrientation, Orientations
<1>2. InDocument' = InDocument /\ InDocument \subseteq Queues
  BY <1>1 DEF InDocument, TypeOK
<1>3. plusAt' \in [Queues -> Orientations]
  BY <1>1 DEF TypeOK
<1>4. ButtonsFollowOrientation'
  BY <1>1, <1>2 DEF ButtonsFollowOrientation
<1>5. TypeOK'
  BY <1>1, <1>2, <1>3 DEF TypeOK, selectionVars
<1> QED BY <1>1, <1>2, <1>4, <1>5
        DEF NothingBeforeAnswer, ExpandedReact, DarkHidesChildren, OneCardHighlighted, selectionVars

LEMMA TreeInvStep == TreeInv /\ [Next]_vars => TreeInv'
<1> SUFFICES ASSUME TreeInv, [Next]_vars
             PROVE  TreeInv'
  OBVIOUS
<1>1. CASE UNCHANGED vars
  BY <1>1 DEF vars, cardVars, TreeInv, TypeOK, OneCardHighlighted, NothingBeforeAnswer,
              ExpandedReact, DarkHidesChildren, ButtonsFollowOrientation, InDocument
<1> QED
  BY <1>1, AnsweredStep, ChangeOrientationStep, ClickPlusStep, ClickCardStep, CardRemovedStep
     DEF Next

-----------------------------------------------------------------------------
\* The inductive invariant holds of every behaviour of the diagram (the handlers
\* of QueueV2Component and queueVisualization).
THEOREM TreeInvariant == Spec => []TreeInv
BY TreeInvInit, TreeInvStep, PTL DEF Spec

\* The diagram is well-typed and frames exactly the card whose details it shows,
\* for every tree (the click handler of the cards in update()).
THEOREM FrameFollowsDetails == Spec => []SelectionInv
<1>1. TreeInv => SelectionInv
  BY DEF TreeInv, SelectionInv
<1> QED BY <1>1, TreeInvariant, PTL

\* Every branch drawn expanded can be collapsed (the mouseover handler update()
\* gives to cards that enter with children).
THEOREM ExpandedBranchesCollapse == Spec => []ExpandedCanCollapse
<1>1. TreeInv => ExpandedCanCollapse
  BY DEF TreeInv, ExpandedReact, ExpandedCanCollapse, InDocument
<1> QED BY <1>1, TreeInvariant, PTL

\* A card is dark exactly while its queue holds its children back (the colours
\* at the end of update()).
THEOREM DarkCardsHide == Spec => []DarkHidesChildren
<1>1. TreeInv => DarkHidesChildren
  BY DEF TreeInv
<1> QED BY <1>1, TreeInvariant, PTL

\* Every plus button sits where the orientation wants it (changeOrientation).
THEOREM ButtonsTurn == Spec => []PlusFollowsOrientation
<1>1. TreeInv => PlusFollowsOrientation
  BY DEF TreeInv, ButtonsFollowOrientation, PlusFollowsOrientation, InDocument
<1> QED BY <1>1, TreeInvariant, PTL
=============================================================================
