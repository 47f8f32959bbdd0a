-------------------------- MODULE SchedulerAnswers --------------------------
(***************************************************************************)
(* How SchedulerService turns the nested answers of the scheduler into the *)
(* flat lists of the views: the queue tree with its links to the parents   *)
(* and the drop-down list of leaf queues made of it, the state log of an   *)
(* application and the allocations of a node.                              *)
(*                                                                         *)
(* The functions keep no state: the variable is the last answer, beside    *)
(* the figures of ResourceFormat; one of the two is looked at at a time.   *)
(* A list that is missing is treated as an empty one, and is one here.     *)
(***************************************************************************)
EXTENDS ResourceFormat

CONSTANTS
  MaxQueues,  \* queues of a tree
  MaxLog,     \* entries of a state log
  Times,      \* times in it, and of the two other time fields
  MaxAllocs   \* allocations of a node, its own and foreign ones each

ASSUME AnswersAssumption ==
  /\ MaxQueues \in Nat \ {0} /\ MaxLog \in Nat /\ MaxAllocs \in Nat
  /\ Times \subseteq Nat \ {0}

VARIABLE answer

Absent == -1  \* null

-----------------------------------------------------------------------------
(* The queue tree *)

\* Queue 1 is the root, every other queue sits below one of a lower number,
\* and only a queue with none below it may be a leaf: one without is an empty
\* parent.
Trees(n) ==
  {t \in [above : [2..n -> 1..n], leaf : SUBSET (1..n)] :
     /\ \A q \in 2..n : t.above[q] < q
     /\ \A q \in 2..n : t.above[q] \notin t.leaf}

Queues(t) == {1} \cup DOMAIN t.above

\* The children in the order of the answer, that is, of their numbers.
Below(t, q) ==
  LET children == {c \in DOMAIN t.above : t.above[c] = q}
  IN Sorted(children, {pair \in children \X children : pair[1] < pair[2]})

\* Each queue with its children in the order of the answer and its parent.
GenerateQueuesTree(t) ==
  [q \in Queues(t) |->
     [children |-> Below(t, q),
      parentQueue |-> IF q = 1 THEN Absent
                      ELSE CHOOSE p \in Queues(t) : Contains(Below(t, p), q)]]

(* mutant: a queue without children counts as a leaf *)
ChildlessQueueList(t) ==
  SelectSeq(SetToSortSeq(Queues(t), <), LAMBDA q : Below(t, q) = <<>>)

\* The root and the lists of its children, each by the same function: only a
\* queue the scheduler marked as a leaf is added.
GenerateLeafQueueList(t) ==
  LET tree == GenerateQueuesTree(t)
      list[q \in Queues(t)] ==
        (IF q \in t.leaf THEN <<q>> ELSE <<>>)
          \o FlattenSeq([i \in DOMAIN tree[q].children |-> list[tree[q].children[i]]])
  IN list[1]

-----------------------------------------------------------------------------
(* Applications *)

Logs == BoundedSeq(Times, MaxLog)
AppAnswers == [lastStateChangeTime : Times \cup {Absent},
               finishedTime : Times \cup {Absent}, stateLog : Logs]

(* mutant: the log counts only where the answer has no time of its own *)
SetTimeWhenAbsent(app) ==
  IF app.lastStateChangeTime # Absent THEN app
  ELSE [app EXCEPT !.lastStateChangeTime = Max({0} \cup ToSet(app.stateLog))]

\* The newest time of the log, or 0.
SetLastStateChangeTime(app) ==
  [app EXCEPT !.lastStateChangeTime =
     FoldLeft(LAMBDA time, entry : IF entry > time THEN entry ELSE time, 0, app.stateLog)]

\* The constructor takes the two times in the other order; what becomes of
\* lastStateChangeTime is overwritten from the log at once.
AppInfo(a) ==
  SetLastStateChangeTime([finishedTime |-> a.lastStateChangeTime,
                          lastStateChangeTime |-> a.finishedTime,
                          stateLog |-> a.stateLog])

-----------------------------------------------------------------------------
(* Nodes *)

Tags == SUBSET {"namespace", "podName"}
NodeAnswers == [allocations : BoundedSeq(Tags, MaxAllocs),
                foreignAllocations : BoundedSeq(Tags, MaxAllocs)]

\* The name of a pod takes both tags.
DisplayName(tags) == IF tags = {"namespace", "podName"} THEN "namespace/podName" ELSE "<nil>"

Listed(list, kind, queueName) ==
  [i \in DOMAIN list |-> [key |-> <<kind, i>>, displayName |-> DisplayName(list[i]),
                          queueName |-> queueName]]

\* Those of the scheduler, then the foreign ones, which have no queue.
NodeAllocations(n) ==
  Listed(n.allocations, "own", "queue") \o Listed(n.foreignAllocations, "foreign", "n/a")

-----------------------------------------------------------------------------
NoAnswer == [of |-> "nothing"]

AnswersInit == FormatsInit /\ answer = NoAnswer
FetchSchedulerQueues == \E n \in 1..MaxQueues : \E t \in Trees(n) :
  answer' = [of |-> "queues", data |-> t]
FetchAppList == \E a \in AppAnswers : answer' = [of |-> "application", data |-> a]
FetchNodeList == \E n \in NodeAnswers : answer' = [of |-> "node", data |-> n]
FetchAgain == answer # NoAnswer /\ answer' = NoAnswer

AnswersNext ==
  \/ FormatsNext /\ answer = NoAnswer /\ UNCHANGED answer
  \/ FetchAgain /\ UNCHANGED reported
  \/ /\ answer = NoAnswer /\ reported = Nothing
     /\ FetchSchedulerQueues \/ FetchAppList \/ FetchNodeList
     /\ UNCHANGED reported

AnswersSpec == AnswersInit /\ [][AnswersNext]_<<answer, reported>>

-----------------------------------------------------------------------------
(* Properties *)

\* The way from the root to a queue, climbed along parentQueue.
Path(tree, q) ==
  LET path[r \in DOMAIN tree] ==
        IF tree[r].parentQueue = Absent THEN <<r>> ELSE Append(path[tree[r].parentQueue], r)
  IN path[q]

Earlier(p, q) ==
  \E i \in 1..Len(q) : /\ \A j \in 1..(i - 1) : j <= Len(p) /\ p[j] = q[j]
                       /\ i > Len(p) \/ p[i] < q[i]

\* The drop-down offers exactly the queues applications run in, each once and
\* in the order of an outline of the tree: that of the paths which the links to
\* the parents give, so the two directions of the tree agree.
DropdownFollowsTree ==
  answer.of = "queues" =>
    LET tree == GenerateQueuesTree(answer.data)
        list == GenerateLeafQueueList(answer.data)
    IN /\ ToSet(list) = answer.data.leaf
       /\ \A i, j \in DOMAIN list :
            i < j => Earlier(Path(tree, list[i]), Path(tree, list[j]))
       /\ \A q \in DOMAIN tree : \A i \in DOMAIN tree[q].children :
            Path(tree, tree[q].children[i]) = Append(Path(tree, q), tree[q].children[i])

\* The time the table shows is the newest of the log, whatever its order and
\* whatever other times the answer has: the two swapped arguments do no harm.
LastChangeIsNewest ==
  answer.of = "application" =>
    LET shown == AppInfo(answer.data).lastStateChangeTime
        log == ToSet(answer.data.stateLog)
    IN shown \in log \cup {0} /\ \A time \in log : time <= shown

\* The table of a node has every allocation once, and a foreign one is told
\* from one of the scheduler with the same tags by its missing queue.
EveryAllocationListedOnce ==
  answer.of = "node" =>
    LET rows == NodeAllocations(answer.data) IN
    /\ Len(rows) = Len(answer.data.allocations) + Len(answer.data.foreignAllocations)
    /\ \A i, j \in DOMAIN rows : i # j => rows[i].key # rows[j].key
    /\ \A i \in DOMAIN rows : (rows[i].queueName = "n/a") = (rows[i].key[1] = "foreign")

\* The rows of both tables tell what was answered, whichever it was.
RowsTellAll == LastChangeIsNewest /\ EveryAllocationListedOnce
=============================================================================
