------------------------------ MODULE EventBus ------------------------------
(***************************************************************************)
(* EventBusService: one Subject per event name, created by the first       *)
(* getEvent, and a publish that reaches whoever is subscribed just then.   *)
(***************************************************************************)
CONSTANTS Events, Subscribers

VARIABLE eventRegistry  \* the events with a Subject, and its subscribers

Receivers(event) ==
  IF event \in DOMAIN eventRegistry THEN eventRegistry[event] ELSE {}

\* getEvent and subscribe: "wanted" gives the new subscribers of some events.
Subscribe(wanted) ==
  eventRegistry' =
    [event \in DOMAIN eventRegistry \cup DOMAIN wanted |->
       Receivers(event) \cup (IF event \in DOMAIN wanted THEN wanted[event] ELSE {})]

\* takeUntil(destroy$): the subscription ends, the Subject stays.
Unsubscribe(event, subscribers) ==
  eventRegistry' = [eventRegistry EXCEPT ![event] = @ \ subscribers]

Init == eventRegistry = <<>>

TypeOK ==
  /\ DOMAIN eventRegistry \subseteq Events
  /\ \A event \in DOMAIN eventRegistry : eventRegistry[event] \subseteq Subscribers
=============================================================================
