---------------------------- MODULE Browser_proofs ----------------------------
(***************************************************************************)
(* Theorems of Browser, for any partitions, queues, kinds of view and      *)
(* links, and for any number of views opened with requests in flight.      *)
(***************************************************************************)
EXTENDS Browser, TLAPS

\* A request belongs to a view that was opened.
CallsTyped ==
  calls \subseteq [visit : 1..visit, about : Subjects, partition : Partitions \cup {None}]

\* What is copied, linked and stored names a partition before it names a queue.
LinksArePairs ==
  /\ copied \in {NoPair} \cup (Partitions \X Queues)
  /\ \A v \in Visits : view[v].query \in {NoPair} \cup (Partitions \X Queues)
  /\ stored # NoPair => stored[1] # None

\* A view asks for queues and applications, lists queues and selects one only
\* with a partition; a plain view has none of these.
PartitionBeforeQueue ==
  /\ \A c \in calls :
       c.about # "partitions" /\ view[c.visit].kind # "plain" => view[c.visit].partition # None
  /\ \A v \in Visits :
       view[v].kind # "plain" /\ (view[v].listed # None \/ view[v].queue # None)
         => view[v].partition # None

\* While its partitions are under way a view has selected nothing, and asked
\* for nothing else.
FirstCallAlone ==
  \A c \in calls : c.about = "partitions" =>
    /\ c = Call(c.visit, "partitions", None)
    /\ view[c.visit].partition = None /\ view[c.visit].queue = None
    /\ \A d \in calls : d.visit = c.visit => d = c

\* A view that a patient user has left asks for no partitions any more, and has
\* no link to follow.
LeftViewsSettled ==
  patient => \A c \in calls :
    c.visit # visit => c.about # "partitions" /\ view[c.visit].query = NoPair

\* The inductive invariant behind the safety properties.
BrowserInv ==
  /\ TypeOK /\ CallsTyped
  /\ SpinnerMeansCalls
  /\ LinksArePairs
  /\ PartitionBeforeQueue
  /\ FirstCallAlone
  /\ LeftViewsSettled
  /\ NextViewAgrees

-----------------------------------------------------------------------------
(* Facts about the operators *)

LEMMA ValuesTyped ==
  /\ NoPair \in Pairs /\ Partitions \X Queues \subseteq Pairs
  /\ \A pair \in Partitions \X Queues : pair # NoPair /\ pair[1] \in Partitions /\ pair[2] \in Queues
  /\ \A kind \in Kinds, query \in Pairs : FreshView(kind, query) \in View
BY ConstantsAssumption DEF NoPair, Pairs, FreshView, View, ConstantsAssumption

\* The views up to one that was opened were opened.
LEMMA VisitsBefore ==
  ASSUME NEW n \in Visits
  PROVE  n \in Nat /\ n \in 1..n /\ 1..n \subseteq Visits /\ MaxVisits \in Nat
<1>1. MaxVisits \in Nat
  BY ConstantsAssumption DEF ConstantsAssumption
<1> QED BY <1>1 DEF Visits

LEMMA CallFields ==
  \A v, about, p : /\ Call(v, about, p).visit = v
                   /\ Call(v, about, p).about = about
                   /\ Call(v, about, p).partition = p
BY DEF Call

\* The partition a view opens with is one.
LEMMA StoredPartition ==
  ASSUME stored \in Pairs
  PROVE  GetStoredPartition \in Partitions
BY ConstantsAssumption DEF GetStoredPartition, Pairs, ConstantsAssumption

\* What is stored names a partition, or is nothing.
LEMMA StoreTyped ==
  ASSUME NEW p \in Partitions \cup {None}, NEW q \in Queues \cup {None}, Store(p, q)
  PROVE  stored' \in Pairs /\ (stored' # NoPair => stored'[1] # None)
BY DEF Store, Pairs, NoPair

\* What is read of a queue is one, and reads as itself.
LEMMA ReadOnce ==
  ASSUME NEW q \in Queues \cup {None}
  PROVE  /\ Read(q) \in Queues \cup {None} /\ Read(Read(q)) = Read(q)
         /\ (q # None => Read(q) # None)
<1>1. Cut \in [Queues -> Queues] /\ (\A r \in Queues : Cut[Cut[r]] = Cut[r]) /\ None \notin Queues
  BY ConstantsAssumption DEF ConstantsAssumption
<1>2. CASE q = None
  BY <1>2 DEF Read
<1>3. CASE q # None
  BY <1>1, <1>3 DEF Read
<1> QED BY <1>2, <1>3

-----------------------------------------------------------------------------
(* Steps that open no view *)

\* A step in view v: its other fields change, requests of it are answered and
\* sent, and routes may lose their query.
LEMMA StepInside ==
  ASSUME BrowserInv, visit' = visit, patient' = patient,
         NEW v \in Visits, v = visit \/ \E d \in calls : d.visit = v,
         view' \in [Visits -> View],
         \A w \in Visits : view'[w].kind = view[w].kind /\ view'[w].query \in {view[w].query, NoPair},
         \A w \in Visits \ {v} : /\ view'[w].partition = view[w].partition
                                 /\ view'[w].queue = view[w].queue
                                 /\ view'[w].listed = view[w].listed,
         CallsTyped', SpinnerMeansCalls', spinner' \in BOOLEAN,
         \A c \in calls' : c \in calls \/ (c.visit = v /\ c.about # "partitions"),
         \A c \in calls' : c.visit = v /\ c.about = "partitions" =>
           calls' \subseteq calls /\ view'[v].partition = None /\ view'[v].queue = None,
         view[v].kind # "plain" =>
           view'[v].partition # None \/ /\ view'[v].listed = None /\ view'[v].queue = None
                                        /\ \A c \in calls' : c.visit = v => c.about = "partitions",
         copied' \in {NoPair} \cup (Partitions \X Queues),
         stored' \in Pairs, stored' # NoPair => stored'[1] # None,
         NextViewAgrees'
  PROVE  BrowserInv'
<1> USE DEF BrowserInv
<1>1. visit \in Visits /\ \A c \in calls' : c.visit \in Visits /\ c.visit \in 1..visit
      /\ c.about \in Subjects
  <2>1. visit \in Visits
    BY DEF TypeOK
  <2> QED BY <2>1, VisitsBefore DEF CallsTyped
<1>2. TypeOK'
  <2>1. copied' \in Pairs
    BY ValuesTyped
  <2>2. visit' \in Visits /\ patient' \in BOOLEAN
    BY DEF TypeOK
  <2> QED BY <1>1, <2>1, <2>2 DEF TypeOK
<1>3. LinksArePairs'
  BY DEF LinksArePairs
<1>4. PartitionBeforeQueue'
  <2>1. ASSUME NEW c \in calls', c.about # "partitions", view'[c.visit].kind # "plain"
        PROVE  view'[c.visit].partition # None
    <3>1. CASE c.visit = v
      BY <1>1, <2>1, <3>1
    <3>2. CASE c.visit # v
      BY <1>1, <2>1, <3>2 DEF PartitionBeforeQueue
    <3> QED BY <3>1, <3>2
  <2>2. ASSUME NEW w \in Visits, view'[w].kind # "plain", view'[w].listed # None \/ view'[w].queue # None
        PROVE  view'[w].partition # None
    BY <2>2 DEF PartitionBeforeQueue
  <2> QED BY <2>1, <2>2 DEF PartitionBeforeQueue
<1>5. FirstCallAlone'
  <2> SUFFICES ASSUME NEW c \in calls', c.about = "partitions"
               PROVE  /\ c = Call(c.visit, "partitions", None)
                      /\ view'[c.visit].partition = None /\ view'[c.visit].queue = None
                      /\ \A d \in calls' : d.visit = c.visit => d = c
    BY DEF FirstCallAlone
  <2>1. c \in calls
    OBVIOUS
  <2>2. c = Call(c.visit, "partitions", None)
        /\ view[c.visit].partition = None /\ view[c.visit].queue = None
        /\ \A d \in calls : d.visit = c.visit => d = c
    BY <2>1 DEF FirstCallAlone
  <2>3. CASE c.visit = v
    BY <2>2, <2>3
  <2>4. CASE c.visit # v
    BY <1>1, <2>2, <2>4
  <2> QED BY <2>3, <2>4
<1>6. LeftViewsSettled'
  <2> SUFFICES ASSUME patient, NEW c \in calls', c.visit # visit
               PROVE  c.about # "partitions" /\ view'[c.visit].query = NoPair
    BY DEF LeftViewsSettled
  <2>1. CASE c \in calls
    BY <1>1, <2>1 DEF LeftViewsSettled
  <2>2. CASE c.visit = v /\ c.about # "partitions"
    <3>1. PICK d \in calls : d.visit = v
      BY <2>2
    <3>2. view[v].query = NoPair
      BY <2>2, <3>1 DEF LeftViewsSettled
    <3> QED BY <2>2, <3>2
  <2> QED BY <2>1, <2>2
<1> QED BY <1>2, <1>3, <1>4, <1>5, <1>6

\* What the invariant says about a request that is answered.
LEMMA RequestOf ==
  ASSUME BrowserInv, NEW c \in calls
  PROVE  /\ c.visit \in Visits /\ c.visit \in 1..visit /\ visit \in Visits
         /\ c.partition \in Partitions \cup {None} /\ c.about \in Subjects
         /\ view \in [Visits -> View] /\ view[c.visit] \in View
         /\ stored \in Pairs /\ spinner \in BOOLEAN
<1>1. visit \in Visits /\ view \in [Visits -> View] /\ stored \in Pairs /\ spinner \in BOOLEAN
  BY DEF BrowserInv, TypeOK
<1>2. c \in [visit : 1..visit, about : Subjects, partition : Partitions \cup {None}]
  BY DEF BrowserInv, CallsTyped
<1>3. c.visit \in Visits /\ c.visit \in 1..visit
  BY <1>1, <1>2, VisitsBefore
<1> QED BY <1>1, <1>2, <1>3

\* Requests that go away take nothing with them.
LEMMA AnsweredOnly ==
  ASSUME BrowserInv, NEW c \in calls, Answered(c, {}), visit' = visit
  PROVE  /\ calls' = calls \ {c} /\ CallsTyped' /\ SpinnerMeansCalls' /\ spinner' \in BOOLEAN
BY DEF Answered, BrowserInv, CallsTyped, SpinnerMeansCalls

LEMMA AnsweredAndSent ==
  ASSUME BrowserInv, NEW c \in calls, visit' = visit,
         NEW about \in Subjects, NEW p \in Partitions \cup {None},
         Answered(c, {Call(c.visit, about, p)})
  PROVE  /\ calls' = (calls \ {c}) \cup {Call(c.visit, about, p)}
         /\ CallsTyped' /\ SpinnerMeansCalls' /\ spinner' \in BOOLEAN
<1>1. c.visit \in 1..visit /\ calls \subseteq [visit : 1..visit, about : Subjects,
                                              partition : Partitions \cup {None}]
  BY RequestOf DEF BrowserInv, CallsTyped
<1>2. Call(c.visit, about, p) \in [visit : 1..visit, about : Subjects,
                                   partition : Partitions \cup {None}]
  BY <1>1 DEF Call
<1> QED BY <1>1, <1>2 DEF Answered, CallsTyped, SpinnerMeansCalls

\* What a request finds in its view.
LEMMA ViewOfRequest ==
  ASSUME BrowserInv, NEW c \in calls
  PROVE  /\ view[c.visit].kind # "plain" =>
              view[c.visit].partition # None \/ /\ c.about = "partitions"
                                                /\ view[c.visit].listed = None
                                                /\ view[c.visit].queue = None
                                                /\ \A d \in calls : d.visit = c.visit => d = c
         /\ c.about = "partitions" =>
              /\ view[c.visit].partition = None /\ view[c.visit].queue = None
              /\ \A d \in calls : d.visit = c.visit => d = c
         /\ patient /\ (c.about = "partitions" \/ view[c.visit].query # NoPair) => c.visit = visit
<1>1. c.visit \in Visits
  BY RequestOf
<1>2. c.about = "partitions" =>
        /\ view[c.visit].partition = None /\ view[c.visit].queue = None
        /\ \A d \in calls : d.visit = c.visit => d = c
  BY DEF BrowserInv, FirstCallAlone
<1>3. patient /\ (c.about = "partitions" \/ view[c.visit].query # NoPair) => c.visit = visit
  BY DEF BrowserInv, LeftViewsSettled
<1>4. view[c.visit].kind # "plain" /\ view[c.visit].partition = None =>
        /\ c.about = "partitions" /\ view[c.visit].listed = None /\ view[c.visit].queue = None
  BY <1>1 DEF BrowserInv, PartitionBeforeQueue
<1> QED BY <1>2, <1>3, <1>4

LEMMA AnsweredQuietly ==
  ASSUME BrowserInv, NEW c \in calls, Failed(c) \/ AppsAnswered(c) \/ NoPartitions(c)
  PROVE  BrowserInv'
<1>1. Answered(c, {}) /\ UNCHANGED <<visit, view, copied, patient>>
  BY DEF Failed, AppsAnswered, NoPartitions
<1>2. calls' = calls \ {c} /\ CallsTyped' /\ SpinnerMeansCalls' /\ spinner' \in BOOLEAN
  BY <1>1, AnsweredOnly
<1>3. stored' = stored \/ (stored' = NoPair /\ c.about = "partitions")
  <2>1. CASE NoPartitions(c)
    BY <2>1 DEF NoPartitions, Store
  <2>2. CASE Failed(c)
    BY <2>2 DEF Failed
  <2>3. CASE AppsAnswered(c)
    BY <2>3 DEF AppsAnswered
  <2> QED BY <2>1, <2>2, <2>3
<1>4. stored' \in Pairs /\ (stored' # NoPair => stored'[1] # None)
  BY <1>3, ValuesTyped DEF BrowserInv, TypeOK, LinksArePairs
<1>5. NextViewAgrees'
  <2>1. CASE stored' = stored
    BY <1>1, <2>1 DEF BrowserInv, NextViewAgrees, GetStoredPartition, Read
  <2>2. CASE stored' = NoPair /\ c.about = "partitions"
    <3>1. patient => c.visit = visit /\ view[visit].partition = None
      BY <2>2 DEF BrowserInv, LeftViewsSettled, FirstCallAlone
    <3> QED BY <1>1, <2>2, <3>1 DEF NextViewAgrees
  <2> QED BY <1>3, <2>1, <2>2
<1>6. copied' \in {NoPair} \cup (Partitions \X Queues)
  BY <1>1 DEF BrowserInv, LinksArePairs
<1>7. \A d \in calls' : d \in calls /\ d # c
  BY <1>2
<1>8. \A d \in calls' : d.visit = c.visit /\ d.about = "partitions" =>
        calls' \subseteq calls /\ view'[c.visit].partition = None /\ view'[c.visit].queue = None
  BY <1>1, <1>2, <1>7, ViewOfRequest
<1>9. view[c.visit].kind # "plain" =>
        view'[c.visit].partition # None
        \/ /\ view'[c.visit].listed = None /\ view'[c.visit].queue = None
           /\ \A d \in calls' : d.visit = c.visit => d.about = "partitions"
  BY <1>1, <1>7, ViewOfRequest
<1>10. c.visit \in Visits /\ view' \in [Visits -> View]
  BY <1>1, RequestOf
<1>11. \A w \in Visits : view'[w] = view[w]
  BY <1>1
<1> QED BY <1>1, <1>2, <1>4, <1>5, <1>6, <1>7, <1>8, <1>9, <1>10, <1>11, StepInside

LEMMA PartitionsAnsweredStep ==
  ASSUME BrowserInv, NEW c \in calls, PartitionsAnswered(c)
  PROVE  BrowserInv'
<1> DEFINE p == GetStoredPartition
<1>1. /\ c.about = "partitions" /\ Answered(c, {Call(c.visit, "details", p)})
      /\ view' = [view EXCEPT ![c.visit].partition = p]
      /\ UNCHANGED <<visit, stored, copied, patient>>
  BY DEF PartitionsAnswered
<1>2. p \in Partitions /\ p # None /\ GetStoredPartition' = p
  BY <1>1, RequestOf, StoredPartition, ConstantsAssumption
  DEF GetStoredPartition, ConstantsAssumption
<1> HIDE DEF p
<1>3. /\ calls' = (calls \ {c}) \cup {Call(c.visit, "details", p)}
      /\ CallsTyped' /\ SpinnerMeansCalls' /\ spinner' \in BOOLEAN
  BY <1>1, <1>2, AnsweredAndSent DEF Subjects
<1>4. /\ c.visit \in Visits /\ view \in [Visits -> View] /\ view[c.visit] \in View
      /\ stored \in Pairs /\ visit \in Visits
  BY RequestOf
<1>5. /\ view' \in [Visits -> View]
      /\ \A w \in Visits \ {c.visit} : view'[w] = view[w]
      /\ view'[c.visit] = [view[c.visit] EXCEPT !.partition = p]
  BY <1>1, <1>2, <1>4 DEF View
<1>6. /\ view'[c.visit].partition = p /\ view'[c.visit].queue = view[c.visit].queue
      /\ view'[c.visit].kind = view[c.visit].kind /\ view'[c.visit].query = view[c.visit].query
  BY <1>4, <1>5 DEF View
<1>7. NextViewAgrees'
  BY <1>1, <1>2, <1>6, ViewOfRequest DEF NextViewAgrees
<1>8. \A d \in calls' : (d \in calls /\ d # c) \/ (d.visit = c.visit /\ d.about = "details")
  BY <1>3, CallFields
<1>9. \A d \in calls' : ~(d.visit = c.visit /\ d.about = "partitions")
  BY <1>1, <1>8, ViewOfRequest
<1>10. /\ copied' \in {NoPair} \cup (Partitions \X Queues)
       /\ stored' \in Pairs /\ (stored' # NoPair => stored'[1] # None)
  BY <1>1, <1>4 DEF BrowserInv, LinksArePairs
<1>11. \A w \in Visits : view'[w].kind = view[w].kind /\ view'[w].query \in {view[w].query, NoPair}
  BY <1>5, <1>6
<1> QED BY <1>1, <1>2, <1>3, <1>4, <1>5, <1>6, <1>7, <1>8, <1>9, <1>10, <1>11, StepInside

LEMMA DetailsStep ==
  ASSUME BrowserInv, NEW c \in calls, DetailsAnswered(c) \/ QueuesMissing(c)
  PROVE  BrowserInv'
<1>1. PICK p \in Partitions \cup {None} :
        /\ c.about = "details" /\ Answered(c, {})
        /\ view' = [view EXCEPT ![c.visit].listed = p]
        /\ UNCHANGED <<visit, stored, copied, patient>>
  <2>1. CASE DetailsAnswered(c)
    BY <2>1, RequestOf DEF DetailsAnswered
  <2>2. CASE QueuesMissing(c)
    BY <2>2 DEF QueuesMissing
  <2> QED BY <2>1, <2>2
<1>2. calls' = calls \ {c} /\ CallsTyped' /\ SpinnerMeansCalls' /\ spinner' \in BOOLEAN
  BY <1>1, AnsweredOnly
<1>3. /\ c.visit \in Visits /\ view \in [Visits -> View] /\ view[c.visit] \in View
      /\ stored \in Pairs /\ visit \in Visits
  BY RequestOf
<1>4. /\ view' \in [Visits -> View]
      /\ \A w \in Visits \ {c.visit} : view'[w] = view[w]
      /\ view'[c.visit] = [view[c.visit] EXCEPT !.listed = p]
  BY <1>1, <1>3 DEF View
<1>5. \A w \in Visits : /\ view'[w].kind = view[w].kind /\ view'[w].query = view[w].query
                        /\ view'[w].partition = view[w].partition
                        /\ view'[w].queue = view[w].queue
  BY <1>3, <1>4 DEF View
<1>6. NextViewAgrees'
  BY <1>1, <1>3, <1>5 DEF BrowserInv, NextViewAgrees, GetStoredPartition, Read
<1>7. view[c.visit].kind # "plain" => view'[c.visit].partition # None
  BY <1>1, <1>3, <1>5, ViewOfRequest
<1>8. \A d \in calls' : d \in calls
  BY <1>2
<1>9. \A d \in calls' : d.visit = c.visit /\ d.about = "partitions" =>
        calls' \subseteq calls /\ view'[c.visit].partition = None /\ view'[c.visit].queue = None
  BY <1>3, <1>5, <1>8, ViewOfRequest
<1>10. /\ copied' \in {NoPair} \cup (Partitions \X Queues)
       /\ stored' \in Pairs /\ (stored' # NoPair => stored'[1] # None)
  BY <1>1, <1>3 DEF BrowserInv, LinksArePairs
<1> QED BY <1>1, <1>2, <1>3, <1>4, <1>5, <1>6, <1>7, <1>8, <1>9, <1>10, StepInside

\* What the handler of a link leaves in the view it belongs to, and that it is
\* the view on screen if the user is patient.
LEMMA UseQueryEffect ==
  ASSUME BrowserInv, NEW c \in calls, UseQuery(c)
  PROVE  LET q == view[c.visit].query IN
         /\ q \in Partitions \X Queues
         /\ view' \in [Visits -> View]
         /\ view'[c.visit].partition = q[1] /\ view'[c.visit].queue = q[2]
         /\ \A w \in Visits : /\ view'[w].kind = view[w].kind
                              /\ view'[w].query \in {view[w].query, NoPair}
         /\ \A w \in Visits \ {c.visit} : /\ view'[w].partition = view[w].partition
                                          /\ view'[w].queue = view[w].queue
                                          /\ view'[w].listed = view[w].listed
         /\ stored' = q
         /\ patient => c.visit = visit
<1> DEFINE q == view[c.visit].query
           shown == [view EXCEPT ![c.visit] =
                       [@ EXCEPT !.partition = q[1], !.queue = q[2], !.listed = c.partition]]
<1>1. /\ c.about = "details" /\ q # NoPair
      /\ Answered(c, {Call(c.visit, "apps", q[1])})
      /\ Store(q[1], q[2]) /\ view' = WithoutQuery(shown)
      /\ UNCHANGED <<visit, copied, patient>>
  BY DEF UseQuery
<1>2. /\ c.visit \in Visits /\ view \in [Visits -> View] /\ view[c.visit] \in View
      /\ visit \in Visits /\ c.partition \in Partitions \cup {None}
  BY RequestOf
<1>3. q \in Partitions \X Queues
  BY <1>1, <1>2 DEF BrowserInv, LinksArePairs
<1>4. stored' = q
  BY <1>1, <1>3, ValuesTyped, ConstantsAssumption DEF Store, ConstantsAssumption
<1>5. patient => c.visit = visit
  BY <1>1, ViewOfRequest
<1>6. /\ shown \in [Visits -> View]
      /\ \A w \in Visits \ {c.visit} : shown[w] = view[w]
      /\ shown[c.visit] =
           [view[c.visit] EXCEPT !.partition = q[1], !.queue = q[2], !.listed = c.partition]
  <2> HIDE DEF q
  <2>1. [view[c.visit] EXCEPT !.partition = q[1], !.queue = q[2], !.listed = c.partition] \in View
    BY <1>2, <1>3 DEF View
  <2> QED BY <1>2, <2>1
<1>7. /\ shown[c.visit].partition = q[1] /\ shown[c.visit].queue = q[2]
      /\ shown[c.visit].kind = view[c.visit].kind /\ shown[c.visit].query = view[c.visit].query
  <2> HIDE DEF q, shown
  <2> QED BY <1>2, <1>6 DEF View
<1> HIDE DEF q, shown
<1>8. /\ view' \in [Visits -> View]
      /\ \A w \in Visits : /\ view'[w].partition = shown[w].partition
                           /\ view'[w].queue = shown[w].queue
                           /\ view'[w].listed = shown[w].listed
                           /\ view'[w].kind = shown[w].kind
                           /\ view'[w].query \in {shown[w].query, NoPair}
  <2>1. CASE shown[visit].kind = "applications"
    <3>1. view' = [shown EXCEPT ![visit].query = NoPair]
      BY <1>1, <2>1 DEF WithoutQuery
    <3> QED BY <1>2, <1>6, <3>1, ValuesTyped DEF View
  <2>2. CASE shown[visit].kind # "applications"
    BY <1>1, <1>6, <2>2 DEF WithoutQuery
  <2> QED BY <2>1, <2>2
<1>9. \A w \in Visits : shown[w].kind = view[w].kind /\ shown[w].query = view[w].query
  BY <1>2, <1>6, <1>7
<1>10. view'[c.visit].partition = q[1] /\ view'[c.visit].queue = q[2]
  BY <1>2, <1>7, <1>8
<1>11. \A w \in Visits : /\ view'[w].kind = view[w].kind
                          /\ view'[w].query \in {view[w].query, NoPair}
  BY <1>8, <1>9
<1>12. \A w \in Visits \ {c.visit} : /\ view'[w].partition = view[w].partition
                                      /\ view'[w].queue = view[w].queue
                                      /\ view'[w].listed = view[w].listed
  BY <1>6, <1>8
<1>13. view' \in [Visits -> View]
  BY <1>8
<1> QED BY <1>3, <1>4, <1>5, <1>10, <1>11, <1>12, <1>13, Zenon DEF q

LEMMA UseQueryStep ==
  ASSUME BrowserInv, NEW c \in calls, UseQuery(c)
  PROVE  BrowserInv'
<1> DEFINE q == view[c.visit].query
<1>1. /\ c.about = "details" /\ Answered(c, {Call(c.visit, "apps", q[1])})
      /\ UNCHANGED <<visit, copied, patient>>
  BY DEF UseQuery
<1>2. /\ q \in Partitions \X Queues
      /\ view' \in [Visits -> View]
      /\ view'[c.visit].partition = q[1] /\ view'[c.visit].queue = q[2]
      /\ \A w \in Visits : /\ view'[w].kind = view[w].kind
                           /\ view'[w].query \in {view[w].query, NoPair}
      /\ \A w \in Visits \ {c.visit} : /\ view'[w].partition = view[w].partition
                                       /\ view'[w].queue = view[w].queue
                                       /\ view'[w].listed = view[w].listed
      /\ stored' = q
      /\ patient => c.visit = visit
  BY UseQueryEffect
<1> HIDE DEF q
<1>3. q \in Pairs /\ q[1] \in Partitions /\ q[1] # None /\ q = <<q[1], q[2]>>
  BY <1>2, ValuesTyped, ConstantsAssumption DEF ConstantsAssumption
<1>4. /\ calls' = (calls \ {c}) \cup {Call(c.visit, "apps", q[1])}
      /\ CallsTyped' /\ SpinnerMeansCalls' /\ spinner' \in BOOLEAN
  BY <1>1, <1>3, AnsweredAndSent DEF Subjects
<1>5. c.visit \in Visits
  BY RequestOf
<1>6. \A d \in calls' : d \in calls \/ (d.visit = c.visit /\ d.about = "apps")
  BY <1>4, CallFields
<1>7. \A d \in calls' : ~(d.visit = c.visit /\ d.about = "partitions")
  BY <1>1, <1>6, ViewOfRequest
<1>8. NextViewAgrees'
  BY <1>1, <1>2, <1>3 DEF NextViewAgrees, GetStoredPartition, Read
<1>9. copied' \in {NoPair} \cup (Partitions \X Queues)
  BY <1>1 DEF BrowserInv, LinksArePairs
<1> QED BY <1>1, <1>2, <1>3, <1>4, <1>5, <1>6, <1>7, <1>8, <1>9, StepInside

LEMMA UseStoredStep ==
  ASSUME BrowserInv, NEW c \in calls, UseStored(c)
  PROVE  BrowserInv'
<1> DEFINE v == view[c.visit]
           chosen == stored # NoPair /\ stored[1] = v.partition
           found == chosen /\ Read(stored[2]) \in Leaves[c.partition]
           queue == IF found THEN Read(stored[2]) ELSE IF chosen THEN None ELSE v.queue
<1>1. /\ c.about = "details" /\ v.kind = "applications"
      /\ Answered(c, IF found THEN {Call(c.visit, "apps", v.partition)} ELSE {})
      /\ view' = [view EXCEPT ![c.visit].listed = c.partition, ![c.visit].queue = queue]
      /\ UNCHANGED <<visit, stored, copied, patient>>
  BY RequestOf DEF UseStored
<1>2. /\ c.visit \in Visits /\ view \in [Visits -> View] /\ v \in View
      /\ stored \in Pairs /\ visit \in Visits /\ c.partition \in Partitions \cup {None}
  BY RequestOf
<1>3. queue \in Queues \cup {None} /\ v.partition \in Partitions /\ v.partition # None
  <2>1. v.partition # None
    BY <1>1, ViewOfRequest
  <2>2. stored[2] \in Queues \cup {None}
    BY <1>2 DEF Pairs
  <2>3. Read(stored[2]) \in Queues \cup {None}
    BY <2>2, ReadOnce
  <2> QED BY <1>2, <2>1, <2>3 DEF View
<1>4. /\ view' \in [Visits -> View]
      /\ \A w \in Visits \ {c.visit} : view'[w] = view[w]
      /\ view'[c.visit] = [v EXCEPT !.listed = c.partition, !.queue = queue]
  <2> HIDE DEF queue
  <2> QED BY <1>1, <1>2, <1>3 DEF View
<1>5. /\ view'[c.visit].kind = v.kind /\ view'[c.visit].query = v.query
      /\ view'[c.visit].partition = v.partition /\ view'[c.visit].queue = queue
  <2> HIDE DEF queue, v
  <2> QED BY <1>2, <1>4 DEF View
<1>6. NextViewAgrees'
  <2>1. CASE c.visit = visit
    <3>1. stored[2] \in Queues \cup {None}
      BY <1>2 DEF Pairs
    <3>2. Read(Read(stored[2])) = Read(stored[2])
      BY <3>1, ReadOnce
    <3>3. queue # None => (queue = Read(stored[2]) /\ chosen) \/ queue = v.queue
      OBVIOUS
    <3> QED BY <1>1, <1>2, <1>5, <2>1, <3>2, <3>3
        DEF BrowserInv, NextViewAgrees, GetStoredPartition, Read
  <2>2. CASE c.visit # visit
    BY <1>1, <1>2, <1>4, <2>2 DEF BrowserInv, NextViewAgrees, GetStoredPartition, Read
  <2> QED BY <2>1, <2>2
<1>7. /\ \A d \in calls' : d \in calls \/ (d.visit = c.visit /\ d.about = "apps")
      /\ CallsTyped' /\ SpinnerMeansCalls' /\ spinner' \in BOOLEAN
  <2>1. CASE found
    <3>1. Answered(c, {Call(c.visit, "apps", v.partition)})
      BY <1>1, <2>1
    <3>2. "apps" \in Subjects /\ v.partition \in Partitions \cup {None} /\ visit' = visit
      BY <1>1, <1>3 DEF Subjects
    <3> HIDE DEF v
    <3>3. /\ calls' = (calls \ {c}) \cup {Call(c.visit, "apps", v.partition)}
          /\ CallsTyped' /\ SpinnerMeansCalls' /\ spinner' \in BOOLEAN
      BY <3>1, <3>2, AnsweredAndSent
    <3> QED BY <3>3, CallFields
  <2>2. CASE ~found
    BY <1>1, <2>2, AnsweredOnly
  <2> QED BY <2>1, <2>2
<1>8. \A d \in calls' : ~(d.visit = c.visit /\ d.about = "partitions")
  BY <1>1, <1>7, ViewOfRequest
<1>9. /\ copied' \in {NoPair} \cup (Partitions \X Queues)
      /\ stored' \in Pairs /\ (stored' # NoPair => stored'[1] # None)
  BY <1>1, <1>2 DEF BrowserInv, LinksArePairs
<1>10. \A w \in Visits : view'[w].kind = view[w].kind /\ view'[w].query \in {view[w].query, NoPair}
  BY <1>4, <1>5
<1>11. view'[c.visit].partition # None
  BY <1>3, <1>5
<1> HIDE DEF v, queue, found, chosen
<1>12. \A d \in calls' : d \in calls \/ (d.visit = c.visit /\ d.about # "partitions")
  BY <1>7
<1>13. visit' = visit /\ patient' = patient
  BY <1>1
<1>14. c.visit \in Visits
  BY <1>2
<1>15. /\ CallsTyped' /\ SpinnerMeansCalls' /\ spinner' \in BOOLEAN
       /\ view' \in [Visits -> View]
       /\ \A w \in Visits \ {c.visit} : /\ view'[w].partition = view[w].partition
                                        /\ view'[w].queue = view[w].queue
                                        /\ view'[w].listed = view[w].listed
  BY <1>4, <1>5, <1>7
<1> QED BY <1>6, <1>8, <1>9, <1>10, <1>11, <1>12, <1>13, <1>14, <1>15, StepInside

-----------------------------------------------------------------------------
(* The selects of the view on screen *)

\* The view on screen, before and after a step in it.
LEMMA OnScreen ==
  ASSUME BrowserInv
  PROVE  /\ visit \in Visits /\ visit \in 1..visit /\ view \in [Visits -> View]
         /\ view[visit] \in View /\ stored \in Pairs /\ copied \in Pairs
         /\ spinner \in BOOLEAN
<1>1. visit \in Visits /\ view \in [Visits -> View] /\ stored \in Pairs
      /\ copied \in Pairs /\ spinner \in BOOLEAN
  BY DEF BrowserInv, TypeOK
<1> QED BY <1>1, VisitsBefore

LEMMA SentFromScreen ==
  ASSUME BrowserInv, visit' = visit, NEW about \in Subjects, NEW p \in Partitions \cup {None},
         Send(Call(visit, about, p))
  PROVE  /\ calls' = calls \cup {Call(visit, about, p)}
         /\ CallsTyped' /\ SpinnerMeansCalls' /\ spinner' \in BOOLEAN
<1>1. calls' = calls \cup {Call(visit, about, p)} /\ spinner' = TRUE
  BY DEF Send
<1>2. Call(visit, about, p) \in [visit : 1..visit, about : Subjects,
                                 partition : Partitions \cup {None}]
  BY OnScreen DEF Call
<1>3. calls \subseteq [visit : 1..visit, about : Subjects, partition : Partitions \cup {None}]
  BY DEF BrowserInv, CallsTyped
<1> QED BY <1>1, <1>2, <1>3 DEF CallsTyped, SpinnerMeansCalls

\* A request for the partitions of the view on screen: it has selected nothing.
LEMMA PartitionsOnScreen ==
  ASSUME BrowserInv, NEW c \in calls, c.visit = visit, c.about = "partitions"
  PROVE  view[visit].partition = None /\ view[visit].queue = None
BY DEF BrowserInv, FirstCallAlone

LEMMA ChoosePartitionStep ==
  ASSUME BrowserInv, NEW p \in Partitions, ChoosePartition(p)
  PROVE  BrowserInv'
<1>1. /\ view[visit].partition # None /\ Send(Call(visit, "details", p))
      /\ view' = [view EXCEPT ![visit].partition = p, ![visit].queue = None]
      /\ UNCHANGED <<visit, copied, patient>>
  BY DEF ChoosePartition
<1>2. p # None /\ p \in Partitions \cup {None} /\ "details" \in Subjects
  BY ConstantsAssumption DEF ConstantsAssumption, Subjects
<1>3. stored' = IF view[visit].kind = "applications" THEN NoPair ELSE <<p, None>>
  BY <1>2 DEF ChoosePartition, Store
<1>4. /\ stored' \in Pairs /\ (stored' # NoPair => stored'[1] # None)
      /\ view[visit].kind # "applications" => stored'[1] = p
  BY <1>2, <1>3 DEF Pairs, NoPair
<1>5. /\ calls' = calls \cup {Call(visit, "details", p)}
      /\ CallsTyped' /\ SpinnerMeansCalls' /\ spinner' \in BOOLEAN
  BY <1>1, <1>2, SentFromScreen
<1>6. visit \in Visits /\ view \in [Visits -> View] /\ view[visit] \in View
  BY OnScreen
<1>7. /\ view' \in [Visits -> View]
      /\ \A w \in Visits \ {visit} : view'[w] = view[w]
      /\ view'[visit] = [view[visit] EXCEPT !.partition = p, !.queue = None]
  BY <1>1, <1>2, <1>6 DEF View
<1>8. /\ view'[visit].partition = p /\ view'[visit].queue = None
      /\ view'[visit].kind = view[visit].kind /\ view'[visit].query = view[visit].query
  BY <1>6, <1>7 DEF View
<1>9. \A d \in calls' : d \in calls \/ (d.visit = visit /\ d.about = "details")
  BY <1>5, CallFields
<1>10. \A d \in calls' : ~(d.visit = visit /\ d.about = "partitions")
  BY <1>1, <1>9, PartitionsOnScreen
<1>11. NextViewAgrees'
  BY <1>1, <1>2, <1>3, <1>4, <1>8 DEF NextViewAgrees, GetStoredPartition
<1>12. copied' \in {NoPair} \cup (Partitions \X Queues)
  BY <1>1 DEF BrowserInv, LinksArePairs
<1>13. \A w \in Visits : view'[w].kind = view[w].kind /\ view'[w].query \in {view[w].query, NoPair}
  BY <1>7, <1>8
<1> QED BY <1>1, <1>2, <1>4, <1>5, <1>6, <1>7, <1>8, <1>9, <1>10, <1>11, <1>12, <1>13, StepInside

LEMMA ChooseQueueStep ==
  ASSUME BrowserInv, NEW q \in Queues, ChooseQueue(q)
  PROVE  BrowserInv'
<1> DEFINE p == view[visit].partition
<1>1. /\ view[visit].kind = "applications" /\ view[visit].listed # None
      /\ Send(Call(visit, "apps", p)) /\ Store(p, q)
      /\ view' = [view EXCEPT ![visit].queue = q]
      /\ UNCHANGED <<visit, copied, patient>>
  BY DEF ChooseQueue
<1>2. visit \in Visits /\ view \in [Visits -> View] /\ view[visit] \in View
  BY OnScreen
<1>3. p \in Partitions \cup {None} /\ p # None /\ "apps" \in Subjects
  BY <1>1, <1>2 DEF BrowserInv, PartitionBeforeQueue, Subjects, View
<1>4. stored' = <<p, q>> /\ stored' \in Pairs /\ stored'[1] # None
  BY <1>1, <1>3 DEF Store, Pairs
<1>5. /\ view' \in [Visits -> View]
      /\ \A w \in Visits \ {visit} : view'[w] = view[w]
      /\ view'[visit] = [view[visit] EXCEPT !.queue = q]
  BY <1>1, <1>2 DEF View
<1>6. /\ view'[visit].partition = p /\ view'[visit].queue = q
      /\ view'[visit].kind = view[visit].kind /\ view'[visit].query = view[visit].query
  BY <1>2, <1>5 DEF View
<1> HIDE DEF p
<1>7. /\ calls' = calls \cup {Call(visit, "apps", p)}
      /\ CallsTyped' /\ SpinnerMeansCalls' /\ spinner' \in BOOLEAN
  BY <1>1, <1>3, SentFromScreen
<1>8. \A d \in calls' : d \in calls \/ (d.visit = visit /\ d.about = "apps")
  BY <1>7, CallFields
<1>9. \A d \in calls' : ~(d.visit = visit /\ d.about = "partitions")
  BY <1>3, <1>8, PartitionsOnScreen DEF p
<1>10. NextViewAgrees'
  BY <1>1, <1>4, <1>6 DEF NextViewAgrees, GetStoredPartition, Read
<1>11. copied' \in {NoPair} \cup (Partitions \X Queues)
  BY <1>1 DEF BrowserInv, LinksArePairs
<1>12. \A w \in Visits : view'[w].kind = view[w].kind /\ view'[w].query \in {view[w].query, NoPair}
  BY <1>5, <1>6
<1> QED BY <1>1, <1>2, <1>3, <1>4, <1>5, <1>6, <1>7, <1>8, <1>9, <1>10, <1>11, <1>12, StepInside

LEMMA DeselectQueueStep ==
  ASSUME BrowserInv, DeselectQueue
  PROVE  BrowserInv'
<1>1. /\ view[visit].kind = "applications" /\ view[visit].queue # None
      /\ view' = [view EXCEPT ![visit].queue = None]
      /\ stored' = NoPair
      /\ UNCHANGED <<visit, calls, copied, spinner, patient>>
  BY DEF DeselectQueue, Store
<1>2. visit \in Visits /\ view \in [Visits -> View] /\ view[visit] \in View /\ spinner \in BOOLEAN
  BY OnScreen
<1>3. view[visit].partition # None
  BY <1>1, <1>2 DEF BrowserInv, PartitionBeforeQueue
<1>4. /\ view' \in [Visits -> View]
      /\ \A w \in Visits \ {visit} : view'[w] = view[w]
      /\ view'[visit] = [view[visit] EXCEPT !.queue = None]
  BY <1>1, <1>2 DEF View
<1>5. /\ view'[visit].partition = view[visit].partition /\ view'[visit].queue = None
      /\ view'[visit].kind = view[visit].kind /\ view'[visit].query = view[visit].query
  BY <1>2, <1>4 DEF View
<1>6. \A d \in calls' : ~(d.visit = visit /\ d.about = "partitions")
  BY <1>1, <1>3, PartitionsOnScreen
<1>7. NextViewAgrees'
  BY <1>1, <1>5 DEF NextViewAgrees
<1>8. /\ copied' \in {NoPair} \cup (Partitions \X Queues)
      /\ stored' \in Pairs /\ ~(stored' # NoPair)
  BY <1>1, ValuesTyped DEF BrowserInv, LinksArePairs
<1>9. CallsTyped' /\ SpinnerMeansCalls' /\ spinner' \in BOOLEAN
  BY <1>1, <1>2 DEF BrowserInv, CallsTyped, SpinnerMeansCalls
<1>10. \A w \in Visits : view'[w].kind = view[w].kind /\ view'[w].query \in {view[w].query, NoPair}
  BY <1>4, <1>5
<1> QED BY <1>1, <1>2, <1>3, <1>4, <1>5, <1>6, <1>7, <1>8, <1>9, <1>10, StepInside

LEMMA CopyLinkStep ==
  ASSUME BrowserInv, CopyLink
  PROVE  BrowserInv'
<1>1. /\ view[visit].kind = "applications" /\ view[visit].queue # None
      /\ copied' = <<view[visit].partition, view[visit].queue>>
      /\ UNCHANGED <<visit, view, calls, stored, spinner, patient>>
  BY DEF CopyLink
<1>2. visit \in Visits /\ view[visit] \in View
  BY OnScreen
<1>3. copied' \in Partitions \X Queues
  BY <1>1, <1>2 DEF BrowserInv, PartitionBeforeQueue, View
<1>4. LinksArePairs' /\ TypeOK'
  BY <1>1, <1>3, ValuesTyped DEF BrowserInv, LinksArePairs, TypeOK
<1>5. CallsTyped' /\ SpinnerMeansCalls' /\ PartitionBeforeQueue' /\ FirstCallAlone'
      /\ LeftViewsSettled' /\ NextViewAgrees'
  BY <1>1 DEF BrowserInv, CallsTyped, SpinnerMeansCalls, PartitionBeforeQueue, FirstCallAlone,
              LeftViewsSettled, NextViewAgrees, GetStoredPartition, Read
<1> QED BY <1>4, <1>5 DEF BrowserInv

-----------------------------------------------------------------------------
(* Opening a view *)

\* A view opens with its first request, and those of the views before it go on,
\* or, after a reload, are gone.
LEMMA OpenedStep ==
  ASSUME BrowserInv, NEW kind \in Kinds, NEW query \in {NoPair} \cup (Partitions \X Queues),
         Opened(kind, query),
         NEW kept \in SUBSET calls, calls' = kept \cup {FirstCall(kind)},
         patient => Settled(visit) \/ kept = {},
         spinner' \in BOOLEAN, UNCHANGED <<stored, copied, patient>>
  PROVE  BrowserInv'
<1> DEFINE new == visit + 1
<1>1. /\ visit' = new /\ visit < MaxVisits
      /\ view' = [view EXCEPT ![new] = FreshView(kind, query)]
  BY DEF Opened
<1>2. /\ visit \in Visits /\ view \in [Visits -> View] /\ stored \in Pairs /\ copied \in Pairs
      /\ patient \in BOOLEAN
  BY DEF BrowserInv, TypeOK
<1>3. visit \in Nat /\ MaxVisits \in Nat
  BY <1>2, VisitsBefore
<1>4. new \in Visits /\ visit \in 1..new /\ new \in 1..new /\ new \notin 1..visit
      /\ 1..visit \subseteq 1..new /\ 1..visit \subseteq Visits
  BY <1>1, <1>2, <1>3 DEF Visits
<1> HIDE DEF new
<1>5. FreshView(kind, query) \in View /\ query \in Pairs
  BY ValuesTyped
<1>6. /\ view' \in [Visits -> View] /\ view'[new] = FreshView(kind, query)
      /\ \A w \in Visits \ {new} : view'[w] = view[w]
  BY <1>1, <1>2, <1>4, <1>5
<1>7. /\ view'[new].kind = kind /\ view'[new].query = query /\ view'[new].partition = None
      /\ view'[new].queue = None /\ view'[new].listed = None
  BY <1>6 DEF FreshView
<1> DEFINE first == FirstCall(kind)
<1>8. /\ first.visit = new /\ first.partition = None
      /\ first.about = IF kind = "plain" THEN "details" ELSE "partitions"
      /\ first = Call(new, first.about, None)
      /\ first \in [visit : 1..new, about : Subjects, partition : Partitions \cup {None}]
  BY <1>4 DEF FirstCall, Call, Subjects, new
<1> HIDE DEF first
<1>9. \A d \in calls : /\ d \in [visit : 1..visit, about : Subjects, partition : Partitions \cup {None}]
                       /\ d.visit \in Visits \ {new}
  BY <1>4 DEF BrowserInv, CallsTyped
<1>10. \A d \in calls' : d \in calls \/ d = first
  BY DEF first
<1>11. CallsTyped'
  <2> SUFFICES ASSUME NEW d \in calls'
               PROVE  d \in [visit : 1..new, about : Subjects, partition : Partitions \cup {None}]
    BY <1>1 DEF CallsTyped
  <2>1. CASE d \in calls
    BY <1>4, <1>9, <2>1
  <2>2. CASE d = first
    BY <1>8, <2>2
  <2> QED BY <1>10, <2>1, <2>2
<1>12. TypeOK' /\ SpinnerMeansCalls'
  BY <1>1, <1>2, <1>4, <1>6, <1>11 DEF TypeOK, CallsTyped, SpinnerMeansCalls
<1>13. LinksArePairs'
  <2>1. \A w \in Visits : view'[w].query \in {NoPair} \cup (Partitions \X Queues)
    BY <1>6, <1>7 DEF BrowserInv, LinksArePairs
  <2> QED BY <2>1 DEF BrowserInv, LinksArePairs
<1>14. PartitionBeforeQueue'
  <2>1. ASSUME NEW d \in calls', d.about # "partitions", view'[d.visit].kind # "plain"
        PROVE  view'[d.visit].partition # None
    <3>1. CASE d \in calls
      BY <1>6, <1>9, <2>1, <3>1 DEF BrowserInv, PartitionBeforeQueue
    <3>2. CASE d = first
      BY <1>7, <1>8, <2>1, <3>2
    <3> QED BY <1>10, <3>1, <3>2
  <2>2. ASSUME NEW w \in Visits, view'[w].kind # "plain",
               view'[w].listed # None \/ view'[w].queue # None
        PROVE  view'[w].partition # None
    BY <1>6, <1>7, <2>2 DEF BrowserInv, PartitionBeforeQueue
  <2> QED BY <2>1, <2>2 DEF PartitionBeforeQueue
<1>15. FirstCallAlone'
  <2> SUFFICES ASSUME NEW d \in calls', d.about = "partitions"
               PROVE  /\ d = Call(d.visit, "partitions", None)
                      /\ view'[d.visit].partition = None /\ view'[d.visit].queue = None
                      /\ \A e \in calls' : e.visit = d.visit => e = d
    BY DEF FirstCallAlone
  <2>1. CASE d \in calls
    <3>1. /\ d = Call(d.visit, "partitions", None)
          /\ view[d.visit].partition = None /\ view[d.visit].queue = None
          /\ \A e \in calls : e.visit = d.visit => e = d
      BY <2>1 DEF BrowserInv, FirstCallAlone
    <3> QED BY <1>6, <1>8, <1>9, <1>10, <2>1, <3>1
  <2>2. CASE d = first
    <3>1. \A e \in calls' : e.visit = new => e = first
      BY <1>9, <1>10
    <3> QED BY <1>7, <1>8, <2>2, <3>1
  <2> QED BY <1>10, <2>1, <2>2
<1>16. LeftViewsSettled'
  <2> SUFFICES ASSUME patient, NEW d \in calls', d.visit # new
               PROVE  d.about # "partitions" /\ view'[d.visit].query = NoPair
    BY <1>1 DEF LeftViewsSettled
  <2>1. d \in calls /\ Settled(visit)
    BY <1>8, <1>10 DEF first
  <2>2. CASE d.visit = visit
    <3>1. d.about # "partitions"
      BY <2>1, <2>2 DEF BrowserInv, FirstCallAlone, Settled
    <3> QED BY <1>6, <1>9, <2>1, <2>2, <3>1 DEF Settled
  <2>3. CASE d.visit # visit
    BY <1>6, <1>9, <2>1, <2>3 DEF BrowserInv, LeftViewsSettled
  <2> QED BY <2>2, <2>3
<1>17. NextViewAgrees'
  BY <1>1, <1>7 DEF NextViewAgrees
<1> QED BY <1>11, <1>12, <1>13, <1>14, <1>15, <1>16, <1>17 DEF BrowserInv

LEMMA EnterStep ==
  ASSUME BrowserInv, NEW kind \in Kinds, NEW query \in {NoPair} \cup (Partitions \X Queues),
         Enter(kind, query)
  PROVE  BrowserInv'
<1>1. /\ patient => Settled(visit)
      /\ Opened(kind, query) /\ calls' = calls \cup {FirstCall(kind)}
      /\ spinner' = (kind # "applications" \/ spinner)
      /\ UNCHANGED <<stored, copied, patient>>
  BY DEF Enter
<1>2. spinner' \in BOOLEAN
  BY <1>1, OnScreen
<1>3. calls \in SUBSET calls
  OBVIOUS
<1> QED BY <1>1, <1>2, <1>3, OpenedStep

LEMMA FollowLinkStep ==
  ASSUME BrowserInv, NEW q \in Queues, FollowLink(q)
  PROVE  BrowserInv'
<1>1. visit \in Visits /\ view[visit] \in View
  BY OnScreen
<1>2. view[visit].partition \in Partitions
  BY <1>1 DEF FollowLink, View
<1>3. Enter("applications", <<view[visit].partition, q>>)
  BY DEF FollowLink
<1> QED BY <1>2, <1>3, EnterStep DEF Kinds

\* A query put in the address bar, or taken out of it, while the view stays.
LEMMA RequeryStep ==
  ASSUME BrowserInv, NEW kind, NEW query \in {NoPair} \cup (Partitions \X Queues),
         Requery(kind, query)
  PROVE  BrowserInv'
<1>1. /\ view' = [view EXCEPT ![visit].query = query]
      /\ UNCHANGED <<visit, calls, stored, copied, spinner, patient>>
  BY DEF Requery
<1>2. /\ visit \in Visits /\ view \in [Visits -> View] /\ view[visit] \in View /\ query \in Pairs
      /\ \A c \in calls : c.visit \in Visits
  BY OnScreen, RequestOf, ValuesTyped
<1>3. /\ view' \in [Visits -> View]
      /\ \A w \in Visits \ {visit} : view'[w] = view[w]
      /\ view'[visit] = [view[visit] EXCEPT !.query = query]
  BY <1>1, <1>2 DEF View
<1>4. \A w \in Visits :
        /\ view'[w].kind = view[w].kind /\ view'[w].partition = view[w].partition
        /\ view'[w].queue = view[w].queue /\ view'[w].listed = view[w].listed
        /\ view'[w].query = IF w = visit THEN query ELSE view[w].query
  BY <1>2, <1>3 DEF View
<1>5. TypeOK' /\ CallsTyped' /\ SpinnerMeansCalls'
  BY <1>1, <1>3 DEF BrowserInv, TypeOK, CallsTyped, SpinnerMeansCalls
<1>6. LinksArePairs'
  BY <1>1, <1>4 DEF BrowserInv, LinksArePairs
<1>7. PartitionBeforeQueue' /\ FirstCallAlone'
  BY <1>1, <1>2, <1>4 DEF BrowserInv, PartitionBeforeQueue, FirstCallAlone
<1>8. LeftViewsSettled' /\ NextViewAgrees'
  BY <1>1, <1>2, <1>4 DEF BrowserInv, LeftViewsSettled, NextViewAgrees, GetStoredPartition, Read
<1> QED BY <1>5, <1>6, <1>7, <1>8 DEF BrowserInv

LEMMA NavigateStep ==
  ASSUME BrowserInv, NEW kind \in Kinds, Navigate(kind)
  PROVE  BrowserInv'
BY EnterStep, RequeryStep DEF Navigate

LEMMA PasteLinkStep ==
  ASSUME BrowserInv, PasteLink
  PROVE  BrowserInv'
<1>1. PICK link \in Links \cup ({copied} \ {NoPair}) :
        Enter("applications", link) \/ Requery("applications", link)
  BY DEF PasteLink
<1>2. link \in {NoPair} \cup (Partitions \X Queues)
  BY ConstantsAssumption DEF ConstantsAssumption, BrowserInv, LinksArePairs
<1>3. "applications" \in Kinds
  BY DEF Kinds
<1> QED BY <1>1, <1>2, <1>3, EnterStep, RequeryStep

LEMMA ReloadStep ==
  ASSUME BrowserInv, Reload
  PROVE  BrowserInv'
<1> DEFINE kind == view[visit].kind
           query == view[visit].query
<1>1. /\ Opened(kind, query) /\ calls' = {FirstCall(kind)}
      /\ spinner' = (kind # "applications")
      /\ UNCHANGED <<stored, copied, patient>>
  BY DEF Reload
<1>2. kind \in Kinds /\ query \in {NoPair} \cup (Partitions \X Queues)
  BY OnScreen DEF BrowserInv, LinksArePairs, View
<1> HIDE DEF kind, query
<1>3. {} \in SUBSET calls /\ calls' = {} \cup {FirstCall(kind)} /\ spinner' \in BOOLEAN
  BY <1>1
<1> QED BY <1>1, <1>2, <1>3, OpenedStep

-----------------------------------------------------------------------------
(* The theorems *)

LEMMA InitHolds ==
  ASSUME Init
  PROVE  BrowserInv
<1>1. PICK kind \in Opens, query \in {NoPair} \cup Links :
        /\ view = [v \in Visits |->
             IF v = 1 THEN FreshView(kind, query) ELSE FreshView("plain", NoPair)]
        /\ calls = {Call(1, IF kind = "plain" THEN "details" ELSE "partitions", None)}
        /\ spinner = (kind # "applications")
  BY DEF Init
<1>2. visit = 1 /\ stored \in StoredChoices /\ copied = NoPair /\ patient \in BOOLEAN
  BY DEF Init
<1>3. kind \in Kinds /\ query \in {NoPair} \cup (Partitions \X Queues) /\ query \in Pairs
  BY ConstantsAssumption, ValuesTyped DEF ConstantsAssumption
<1>4. 1 \in Visits /\ 1 \in 1..1
  BY ConstantsAssumption DEF ConstantsAssumption, Visits
<1>5. FreshView(kind, query) \in View /\ FreshView("plain", NoPair) \in View
  BY <1>3, ValuesTyped DEF Kinds
<1>6. /\ view \in [Visits -> View]
      /\ \A v \in Visits : view[v].partition = None /\ view[v].queue = None /\ view[v].listed = None
      /\ \A v \in Visits : view[v].query \in {NoPair, query}
      /\ view[1].kind = kind
  BY <1>1, <1>4, <1>5 DEF FreshView
<1>7. stored \in Pairs /\ (stored # NoPair => stored[1] # None)
  BY <1>2, ConstantsAssumption DEF ConstantsAssumption, Pairs, NoPair
<1> DEFINE about == IF kind = "plain" THEN "details" ELSE "partitions"
<1>8. \A c \in calls : /\ c \in [visit : 1..1, about : Subjects, partition : Partitions \cup {None}]
                       /\ c = Call(1, about, None) /\ c.visit = 1 /\ c.about = about
  BY <1>1, <1>4 DEF Call, Subjects
<1>9. TypeOK /\ CallsTyped /\ SpinnerMeansCalls /\ LinksArePairs
  <2> HIDE DEF about
  <2>1. calls # {} /\ spinner \in BOOLEAN
    BY <1>1
  <2> QED BY <1>2, <1>3, <1>4, <1>6, <1>7, <1>8, <2>1, ValuesTyped
      DEF TypeOK, CallsTyped, SpinnerMeansCalls, LinksArePairs
<1>10. PartitionBeforeQueue /\ FirstCallAlone
  BY <1>4, <1>6, <1>8 DEF PartitionBeforeQueue, FirstCallAlone
<1>11. LeftViewsSettled /\ NextViewAgrees
  BY <1>2, <1>4, <1>6, <1>8 DEF LeftViewsSettled, NextViewAgrees
<1> QED BY <1>9, <1>10, <1>11 DEF BrowserInv

\* One case for each action.
LEMMA NextStep ==
  ASSUME BrowserInv, [Next]_vars
  PROVE  BrowserInv'
<1>1. ASSUME NEW kind \in Opens, Navigate(kind)
      PROVE  BrowserInv'
  BY <1>1, NavigateStep, ConstantsAssumption DEF ConstantsAssumption
<1>2. ASSUME NEW q \in Queues, FollowLink(q) \/ ChooseQueue(q)
      PROVE  BrowserInv'
  BY <1>2, FollowLinkStep, ChooseQueueStep
<1>3. ASSUME NEW p \in Partitions, ChoosePartition(p)
      PROVE  BrowserInv'
  BY <1>3, ChoosePartitionStep
<1>4. CASE PasteLink \/ Reload \/ CopyLink \/ DeselectQueue
  BY <1>4, PasteLinkStep, ReloadStep, CopyLinkStep, DeselectQueueStep
<1>5. ASSUME NEW c \in calls, Handlers(c)
      PROVE  BrowserInv'
  <2>1. CASE Failed(c) \/ AppsAnswered(c) \/ NoPartitions(c)
    BY <2>1, AnsweredQuietly
  <2>2. CASE PartitionsAnswered(c)
    BY <2>2, PartitionsAnsweredStep
  <2>3. CASE DetailsAnswered(c) \/ QueuesMissing(c)
    BY <2>3, DetailsStep
  <2>4. CASE UseQuery(c)
    BY <2>4, UseQueryStep
  <2>5. CASE UseStored(c)
    BY <2>5, UseStoredStep
  <2> QED BY <1>5, <2>1, <2>2, <2>3, <2>4, <2>5 DEF Handlers
<1>6. CASE UNCHANGED vars
  BY <1>6 DEF vars, BrowserInv, TypeOK, CallsTyped, SpinnerMeansCalls, LinksArePairs,
              PartitionBeforeQueue, FirstCallAlone, LeftViewsSettled, NextViewAgrees,
              GetStoredPartition, Read
<1> QED BY <1>1, <1>2, <1>3, <1>4, <1>5, <1>6 DEF Next

\* The invariant that carries the others: what a request in flight knows of the
\* view it belongs to, on screen or left.
THEOREM BrowserInvariant == Spec => []BrowserInv
<1>1. Init => BrowserInv
  BY InitHolds
<1>2. BrowserInv /\ [Next]_vars => BrowserInv'
  BY NextStep
<1> QED BY <1>1, <1>2, PTL DEF Spec

\* The spinner never outlives the requests, those of left views included, and
\* every request belongs to a view that was opened.
THEOREM SpinnerCorrect == Spec => []CallsInv
<1>1. BrowserInv => CallsInv
  BY DEF BrowserInv, CallsInv
<1> QED BY <1>1, BrowserInvariant, PTL

\* localStorage keeps the partition and the queue on screen for the next view,
\* and nothing at all only where an applications view with no queue emptied it.
THEOREM StorageAgrees == Spec => []NextViewAgrees
<1>1. BrowserInv => NextViewAgrees
  BY DEF BrowserInv
<1> QED BY <1>1, BrowserInvariant, PTL

\* The late answers of the views a patient user has left change neither the view
\* on screen nor localStorage, whatever they were asked for.
THEOREM LeftViewsQuiet == Spec => LeftViewsKeepQuiet
<1> DEFINE Quiet == \A c \in calls \ calls' :
                      patient /\ visit' = visit /\ c.visit # visit
                        => stored' = stored /\ view'[visit] = view[visit]
<1>1. ASSUME BrowserInv, [Next]_vars
      PROVE  [Quiet]_vars
  <2> SUFFICES ASSUME NEW c \in calls \ calls', patient, visit' = visit, c.visit # visit
               PROVE  stored' = stored /\ view'[visit] = view[visit]
    OBVIOUS
  <2>1. visit \in Visits /\ visit \in Nat /\ view \in [Visits -> View]
    BY <1>1, OnScreen, VisitsBefore
  <2>2. visit + 1 # visit
    BY <2>1
  <2>3. ~Reload
    BY <2>2 DEF Reload, Opened
  <2>4. ~(CopyLink \/ DeselectQueue \/ UNCHANGED vars)
    BY DEF CopyLink, DeselectQueue, vars
  <2>5. ASSUME NEW kind, NEW query
        PROVE  ~(Enter(kind, query) \/ Requery(kind, query))
    BY <2>2 DEF Enter, Opened, Requery
  <2>6. ~PasteLink /\ \A kind : ~Navigate(kind)
    BY <2>5 DEF PasteLink, Navigate
  <2>7. \A q : ~(FollowLink(q) \/ ChooseQueue(q))
    BY <2>5 DEF FollowLink, ChooseQueue, Send
  <2>8. \A p : ~ChoosePartition(p)
    BY DEF ChoosePartition, Send
  <2>9. PICK d \in calls : Handlers(d)
    BY <1>1, <2>3, <2>4, <2>6, <2>7, <2>8 DEF Next
  <2>10. d = c
    BY <2>9 DEF Handlers, Answered, Failed, PartitionsAnswered, NoPartitions, DetailsAnswered,
                QueuesMissing, UseQuery, UseStored, AppsAnswered
  <2>11. c.about # "partitions" /\ view[c.visit].query = NoPair
    BY <1>1 DEF BrowserInv, LeftViewsSettled
  <2>12. c.visit \in Visits
    BY <1>1, RequestOf
  <2>13. CASE Failed(c) \/ AppsAnswered(c)
    BY <2>13 DEF Failed, AppsAnswered
  <2>14. CASE DetailsAnswered(c) \/ QueuesMissing(c)
    BY <2>1, <2>12, <2>14 DEF DetailsAnswered, QueuesMissing
  <2>15. CASE UseStored(c)
    BY <2>1, <2>12, <2>15 DEF UseStored
  <2>16. ~(PartitionsAnswered(c) \/ NoPartitions(c) \/ UseQuery(c))
    BY <2>11 DEF PartitionsAnswered, NoPartitions, UseQuery
  <2> QED BY <2>9, <2>10, <2>13, <2>14, <2>15, <2>16 DEF Handlers
<1> QED BY <1>1, BrowserInvariant, PTL DEF Spec, LeftViewsKeepQuiet
=============================================================================
