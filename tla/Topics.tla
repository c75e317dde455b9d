-------------------------------- MODULE Topics --------------------------------
(***************************************************************************)
(* The iceoryx2 services behind topics, which processes open, create and   *)
(* drop independently of each other: publishers and subscriptions, the     *)
(* functions that count them, programs that are no part of ROS 2, and the  *)
(* listing of topics; and what arrives when the two ends of a topic decide *)
(* for themselves how a message is encoded.                                *)
(*                                                                         *)
(* iceoryx2 is external: a service exists as long as somebody has it open, *)
(* its settings are those of its creator, and opening it fails if they do  *)
(* not meet the settings asked for.                                        *)
(***************************************************************************)
EXTENDS Introspection, FiniteSets

CONSTANTS
    TopicNames,     \* the topics of the application
    TopicTypes,     \* the message types they may have
    ForeignNames,   \* the names other programs give to their services, which
                    \* may begin like those of topics
    Endpoints,      \* bound: the publishers and subscriptions ever created
    Counters,       \* the threads that count endpoints
    MaxPorts        \* max_publishers and max_subscribers

\* Ports, counting threads and other programs are different users of a service,
\* "none" is no topic, and a topic has a name.
ASSUME TopicsAssumption ==
    /\ MaxPorts \in Nat \ {0} /\ TopicTypes \subseteq MessageTypes
    /\ Endpoints \cap Counters = {} /\ "other" \notin Endpoints \cup Counters
    /\ {"none", ""} \cap TopicNames = {}

VARIABLES
    users,     \* who has each service open; it exists while somebody has
    settings,  \* the settings each service was created with
    endpoint,  \* the publishers and subscriptions
    counting,  \* the topic a counting thread has open
    listing,   \* rmw_get_topic_names_and_types in progress
    type,      \* the message type of each topic
    wire,      \* how the messages sent on each topic are encoded
    received   \* history: what became of the messages taken

vars == <<users, settings, endpoint, counting, listing, type, wire, received>>

(***************************************************************************)
(* Names: prefix and rest of a service name                                *)
(***************************************************************************)

topic(t) == [prefix |-> "ros2://topics", rest |-> t]

NONE == "none"
nullopt == <<>>

\* Mutant of parse_topic_name: cut at the wrong end of the prefix.
ParseKeepsPrefix(name) ==
    IF name.prefix = "ros2://topics" /\ name.rest # "" THEN <<name.prefix>> ELSE nullopt

parse_topic_name(name) ==
    IF name.prefix = "ros2://topics" /\ name.rest # "" THEN <<name.rest>> ELSE nullopt

\* A service that another program names like a topic would be one.
ASSUME ForeignNamesAssumption == \A name \in ForeignNames : parse_topic_name(name) = nullopt

(***************************************************************************)
(* iceoryx2 services                                                       *)
(***************************************************************************)

PUBSUB == "PublishSubscribe"
EVENT == "Event"
Services ==
    [name : {topic(t) : t \in TopicNames}, pattern : {PUBSUB}]
        \cup [name : ForeignNames, pattern : {PUBSUB, EVENT}]
Service(t) == [name |-> topic(t), pattern |-> PUBSUB]

Exists(x) == users[x] # {}
Existing == {x \in Services : Exists(x)}

Unused == [kind |-> NONE, topic |-> NONE, support |-> NONE, phase |-> "unused",
           can_loan |-> FALSE]
NotListing == [phase |-> "idle", visited |-> {}, found |-> {}, ever |-> {}, always |-> {}]

Init ==
    /\ users = [x \in Services |-> {}]
    /\ settings = [x \in Services |-> NONE]
    /\ endpoint = [e \in Endpoints |-> Unused]
    /\ counting = [k \in Counters |-> NONE]
    /\ listing = NotListing
    /\ type \in [TopicNames -> TopicTypes]
    /\ wire = [t \in TopicNames |-> {}]
    /\ received = {}

\* While topics are listed: the services that have existed for some of the time
\* and those that have for all of it.
Observed ==
    listing' = IF listing.phase # "busy" THEN listing
               ELSE [listing EXCEPT !.ever = @ \cup {x \in Services : users'[x] # {}},
                                    !.always = @ \cap {x \in Services : users'[x] # {}}]

open_or_create(x, who, asked) ==
    /\ users' = [users EXCEPT ![x] = @ \cup {who}]
    /\ settings' = [settings EXCEPT ![x] = IF Exists(x) THEN @ ELSE asked]
    /\ Observed

\* With the last user the service goes, and the messages in it.
Drop(x, who) ==
    /\ users' = [users EXCEPT ![x] = @ \ {who}]
    /\ settings' = [settings EXCEPT ![x] = IF users[x] = {who} THEN NONE ELSE @]
    /\ wire' = [t \in TopicNames |->
                    IF x = Service(t) /\ users[x] = {who} THEN {} ELSE wire[t]]
    /\ Observed

\* Mutant of Compatible: existing services are taken as they are.
AlwaysCompatible(x, asked) == TRUE

\* The defaults of iceoryx2 are less than what publishers and subscriptions ask
\* for; a builder without settings asks for nothing.
Compatible(x, asked) == Exists(x) => asked = "default" \/ settings[x] = asked

(***************************************************************************)
(* Publishers and subscriptions                                            *)
(***************************************************************************)

\* The constructors of Publisher and Subscriber as far as the service, after
\* the caller has settled can_loan_messages.
Open(e, kind, t, support) ==
    /\ endpoint[e] = Unused
    /\ LET new == [kind |-> kind, topic |-> t, support |-> support, phase |-> "opened",
                   can_loan |-> is_pod_support(support, type[t])]
       IN  \/ /\ Compatible(Service(t), "rmw")
              /\ endpoint' = [endpoint EXCEPT ![e] = new]
              /\ open_or_create(Service(t), e, "rmw")
           \/ /\ ~Compatible(Service(t), "rmw")
              /\ endpoint' = [endpoint EXCEPT ![e] = [new EXCEPT !.phase = "refused"]]
              /\ UNCHANGED <<users, settings, listing>>
    /\ UNCHANGED <<counting, type, wire, received>>

Publisher(e, t, support) == Open(e, "publisher", t, support)
Subscriber(e, t, support) == Open(e, "subscription", t, support)

Peers(e) == {p \in Endpoints : /\ endpoint[p].kind = endpoint[e].kind
                               /\ endpoint[p].topic = endpoint[e].topic
                               /\ endpoint[p].phase \in {"ported", "live"}}

\* publisher_builder, subscriber_builder: the port, if there is room for one.
\* A subscription is complete with it.
CreatePort(e) ==
    /\ endpoint[e].phase = "opened"
    /\ \/ /\ Cardinality(Peers(e)) < MaxPorts
          /\ endpoint' = [endpoint EXCEPT ![e].phase =
                              IF endpoint[e].kind = "publisher" THEN "ported" ELSE "live"]
          /\ UNCHANGED <<users, settings, wire, listing>>
       \/ /\ Cardinality(Peers(e)) >= MaxPorts
          /\ endpoint' = [endpoint EXCEPT ![e].phase = "refused"]
          /\ Drop(Service(endpoint[e].topic), e)
    /\ UNCHANGED <<counting, type, received>>

\* The event service of a publisher and its notifier, either of which may fail
\* and take the port and the topic's service with it.
CreateNotifier(e) ==
    /\ endpoint[e].phase = "ported"
    /\ \/ /\ endpoint' = [endpoint EXCEPT ![e].phase = "live"]
          /\ UNCHANGED <<users, settings, wire, listing>>
       \/ /\ endpoint' = [endpoint EXCEPT ![e].phase = "refused"]
          /\ Drop(Service(endpoint[e].topic), e)
    /\ UNCHANGED <<counting, type, received>>

DestroyEndpoint(e) ==
    /\ endpoint[e].phase = "live"
    /\ endpoint' = [endpoint EXCEPT ![e].phase = "gone"]
    /\ Drop(Service(endpoint[e].topic), e)
    /\ UNCHANGED <<counting, type, received>>

\* rmw_publish: the bytes of the message, or its serialized form, for which a C
\* type support has no callbacks.
publish(e) ==
    LET p == endpoint[e]
    IN  /\ p.phase = "live" /\ p.kind = "publisher"
        /\ p.can_loan \/ p.support = "cpp"
        /\ wire' = [wire EXCEPT ![p.topic] = @ \cup {IF p.can_loan THEN "raw" ELSE "cdr"}]
        /\ UNCHANGED <<users, settings, endpoint, counting, listing, type, received>>

\* rmw_take: what the application finds in its message.  Pointers among raw
\* bytes lead nowhere in another process.
take(e) ==
    LET s == endpoint[e]
    IN  /\ s.phase = "live" /\ s.kind = "subscription"
        /\ s.can_loan \/ s.support = "cpp"
        /\ \E format \in wire[s.topic] :
              received' = received \cup
                  {IF s.can_loan
                   THEN IF format = "raw" /\ SelfContained(type[s.topic])
                        THEN "intact" ELSE "broken"
                   ELSE IF format = "cdr" THEN "intact" ELSE "broken"}
        /\ UNCHANGED <<users, settings, endpoint, counting, listing, type, wire>>

\* The warning in the calls for serialized messages: they are for topics whose
\* every message is serialized.
OnlySerialized(t) == ~is_pod[type[t]]

\* rmw_publish_serialized_message, rmw_take_serialized_message: the bytes as the
\* caller has them, or as they arrived, for which no callbacks are needed.
publish_serialized(e) ==
    LET p == endpoint[e]
    IN  /\ p.phase = "live" /\ p.kind = "publisher" /\ OnlySerialized(p.topic)
        /\ wire' = [wire EXCEPT ![p.topic] = @ \cup {"cdr"}]
        /\ UNCHANGED <<users, settings, endpoint, counting, listing, type, received>>

take_serialized(e) ==
    LET s == endpoint[e]
    IN  /\ s.phase = "live" /\ s.kind = "subscription" /\ OnlySerialized(s.topic)
        /\ \E format \in wire[s.topic] :
              received' = received \cup {IF format = "cdr" THEN "intact" ELSE "broken"}
        /\ UNCHANGED <<users, settings, endpoint, counting, listing, type, wire>>

(***************************************************************************)
(* graph.cpp                                                               *)
(***************************************************************************)

\* The service is opened, or created with the defaults, to count its ports.
Count(k, t) ==
    /\ counting[k] = NONE
    /\ Compatible(Service(t), "default")
    /\ counting' = [counting EXCEPT ![k] = t]
    /\ open_or_create(Service(t), k, "default")
    /\ UNCHANGED <<endpoint, type, wire, received>>

rmw_count_publishers(k, t) == Count(k, t)
rmw_count_subscribers(k, t) == Count(k, t)

\* Mutant of rmw_count_returns: the service stays open.
CountKeepsService(k) ==
    /\ counting[k] # NONE
    /\ counting' = [counting EXCEPT ![k] = NONE]
    /\ UNCHANGED <<users, settings, endpoint, listing, type, wire, received>>

\* With the call's end its handle on the service goes.
rmw_count_returns(k) ==
    /\ counting[k] # NONE
    /\ counting' = [counting EXCEPT ![k] = NONE]
    /\ Drop(Service(counting[k]), k)
    /\ UNCHANGED <<endpoint, type, received>>

rmw_get_topic_names_and_types ==
    /\ listing.phase # "busy"
    /\ listing' = [NotListing EXCEPT !.phase = "busy", !.ever = Existing, !.always = Existing]
    /\ UNCHANGED <<users, settings, endpoint, counting, type, wire, received>>

\* Mutant of IsTopic: services of the other kind are collected.
EventService(x) == x.pattern = EVENT

\* The predicate passed to collect_topic_names_and_types.
IsTopic(x) == x.pattern = PUBSUB

\* Its callback, for one service.  A name that does not parse is dereferenced
\* all the same, which ends the process.
collect_topic_names_and_types(x) ==
    /\ listing.phase = "busy" /\ Exists(x) /\ x \notin listing.visited
    /\ LET name == parse_topic_name(x.name)
       IN  listing' = IF IsTopic(x) /\ name = nullopt
                      THEN [NotListing EXCEPT !.phase = "crashed"]
                      ELSE [listing EXCEPT
                                !.visited = @ \cup {x},
                                !.found = IF IsTopic(x) THEN @ \cup {name[1]} ELSE @]
    /\ UNCHANGED <<users, settings, endpoint, counting, type, wire, received>>

\* Every service there all the time has been visited.
ListingReturns ==
    /\ listing.phase = "busy" /\ listing.always \subseteq listing.visited
    /\ listing' = [listing EXCEPT !.phase = "ok", !.visited = {}]
    /\ UNCHANGED <<users, settings, endpoint, counting, type, wire, received>>

\* Service::list fails, at whatever point, and the caller gets no topics.
ListingFails ==
    /\ listing.phase = "busy"
    /\ listing' = [NotListing EXCEPT !.phase = "error"]
    /\ UNCHANGED <<users, settings, endpoint, counting, type, wire, received>>

\* Other programs start and stop their services.
ForeignStarts(x) ==
    /\ ~Exists(x) /\ x.name \in ForeignNames
    /\ open_or_create(x, "other", "other")
    /\ UNCHANGED <<endpoint, counting, type, wire, received>>

ForeignStops(x) ==
    /\ "other" \in users[x]
    /\ Drop(x, "other")
    /\ UNCHANGED <<endpoint, counting, type, received>>

Next ==
    \/ \E e \in Endpoints :
          \/ \E t \in TopicNames, support \in {"c", "cpp"} :
                Publisher(e, t, support) \/ Subscriber(e, t, support)
          \/ CreatePort(e) \/ CreateNotifier(e) \/ DestroyEndpoint(e)
          \/ publish(e) \/ publish_serialized(e) \/ take(e) \/ take_serialized(e)
    \/ \E k \in Counters :
          \/ \E t \in TopicNames : rmw_count_publishers(k, t) \/ rmw_count_subscribers(k, t)
          \/ rmw_count_returns(k)
    \/ rmw_get_topic_names_and_types \/ ListingReturns \/ ListingFails
    \/ \E x \in Services :
          collect_topic_names_and_types(x) \/ ForeignStarts(x) \/ ForeignStops(x)

Spec == Init /\ [][Next]_vars

(***************************************************************************)
(* Properties                                                              *)
(***************************************************************************)

\* The variables have the types of what they stand for.
TypeOK ==
    /\ users \in [Services -> SUBSET (Endpoints \cup Counters \cup {"other"})]
    /\ settings \in [Services -> {NONE, "rmw", "default", "other"}]
    /\ \A x \in Services : settings[x] = NONE <=> ~Exists(x)
    /\ counting \in [Counters -> TopicNames \cup {NONE}]
    /\ listing.phase \in {"idle", "busy", "ok", "error", "crashed"}
    /\ listing.found \subseteq TopicNames
    /\ wire \in [TopicNames -> SUBSET {"raw", "cdr"}]

\* However processes interleave creating, counting and dropping, a port is only
\* ever on a service with the limits and the buffer sizes that publishers and
\* subscriptions ask for.
PortsConfigured ==
    \A e \in Endpoints :
        endpoint[e].phase \in {"opened", "ported", "live"}
            => settings[Service(endpoint[e].topic)] = "rmw"

\* Creating an endpoint fails for the settings of its service only while some
\* thread is counting endpoints of the topic: the service it may have created
\* with the defaults does not outlast the count.
RefusedOnlyWhileCounting ==
    [][\A e \in Endpoints :
          (endpoint[e].phase = "unused" /\ endpoint'[e].phase = "refused")
              => \E k \in Counters : counting[k] = endpoint'[e].topic]_vars

\* The topics listed are topics that existed while they were listed, and all
\* that existed all the while, whatever else comes and goes.
ListingExact ==
    listing.phase = "ok" =>
        /\ {t \in TopicNames : Service(t) \in listing.always} \subseteq listing.found
        /\ listing.found \subseteq {t \in TopicNames : Service(t) \in listing.ever}

\* Topics can be listed on a machine where other iceoryx2 applications have
\* publish-subscribe services, as interoperability with them requires.
ListingSurvives == listing.phase # "crashed"

\* A message that is taken without an error is the message that was published,
\* although publishers and subscriptions choose between copying and serializing
\* on their own, and with whatever type support.
MessagesIntact == "broken" \notin received
===============================================================================
