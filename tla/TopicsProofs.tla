----------------------------- MODULE TopicsProofs -----------------------------
(***************************************************************************)
(* Proofs about Topics, for any number of topics, endpoints, counting      *)
(* threads and services of other programs.                                 *)
(*                                                                         *)
(* Everything rests on who has a service open: an endpoint or a counting   *)
(* thread is a user of its topic's service (HoldersListed) and a topic's   *)
(* service has no other users (UsersHold).  So a service that an endpoint  *)
(* is on outlives what anybody else drops, and its settings with it.       *)
(***************************************************************************)
EXTENDS Topics, TLAPS

(***************************************************************************)
(* The inductive invariant                                                 *)
(***************************************************************************)

EndpointType ==
    [kind : {NONE, "publisher", "subscription"}, topic : TopicNames \cup {NONE},
     support : {NONE, "c", "cpp"},
     phase : {"unused", "opened", "ported", "live", "refused", "gone"},
     can_loan : BOOLEAN]
ListingType ==
    [phase : {"idle", "busy", "ok", "error", "crashed"}, visited : SUBSET Services,
     found : SUBSET TopicNames, ever : SUBSET Services, always : SUBSET Services]

\* What TypeOK leaves open.
Typed ==
    /\ endpoint \in [Endpoints -> EndpointType]
    /\ listing \in ListingType
    /\ type \in [TopicNames -> TopicTypes]

\* The endpoint has the service of its topic open.
Holding(e) == endpoint[e].phase \in {"opened", "ported", "live"}

\* Endpoints and counting threads are among the users of their services.
HoldersListed ==
    /\ \A e \in Endpoints : Holding(e) =>
          /\ endpoint[e].topic \in TopicNames
          /\ e \in users[Service(endpoint[e].topic)]
    /\ \A k \in Counters : counting[k] # NONE => k \in users[Service(counting[k])]

\* Nobody else is a user of a topic's service.
UsersHold ==
    \A t \in TopicNames : \A who \in users[Service(t)] :
        \/ who \in Endpoints /\ Holding(who) /\ endpoint[who].topic = t
        \/ who \in Counters /\ counting[who] = t

\* While topics are listed, what exists is in the record of what existed, and
\* every topic visited has been found.
ListingProgress ==
    listing.phase = "busy" =>
        /\ Existing \subseteq listing.ever
        /\ \A t \in TopicNames : Service(t) \in listing.visited => t \in listing.found

\* Nothing is found that did not exist.
FoundExisted == \A t \in listing.found : Service(t) \in listing.ever

\* The users part, the listing part and their conjunction.
UsersInv == TypeOK /\ Typed /\ HoldersListed /\ UsersHold /\ PortsConfigured
ListingInv == ListingProgress /\ FoundExisted /\ ListingExact
IndInv == UsersInv /\ ListingInv

(***************************************************************************)
(* Names and services                                                      *)
(***************************************************************************)

\* A topic's service is a service, of its topic only, and not one of another
\* program's; its name gives the topic back.
LEMMA ServiceOfTopic ==
    ASSUME NEW t \in TopicNames
    PROVE  /\ Service(t) \in Services
           /\ parse_topic_name(Service(t).name) = <<t>>
           /\ IsTopic(Service(t))
BY TopicsAssumption DEF Service, Services, topic, parse_topic_name, IsTopic, PUBSUB

\* Topics do not share a service.
LEMMA ServiceInjective ==
    ASSUME NEW t, NEW u, Service(t) = Service(u)
    PROVE  t = u
BY DEF Service, topic

\* A service is a topic's, or has a name of another program's, which is no
\* topic name.
LEMMA ServiceCases ==
    ASSUME NEW x \in Services
    PROVE  \/ \E t \in TopicNames : x = Service(t)
           \/ x.name \in ForeignNames /\ parse_topic_name(x.name) = nullopt
BY ForeignNamesAssumption DEF Service, Services

\* No topic's service has a name of another program's.
LEMMA TopicNotForeign ==
    ASSUME NEW t \in TopicNames
    PROVE  Service(t).name \notin ForeignNames
<1>1. parse_topic_name(Service(t).name) = <<t>> /\ <<t>> # nullopt
  BY ServiceOfTopic DEF nullopt
<1>2. QED
  BY <1>1, ForeignNamesAssumption

(***************************************************************************)
(* Opening and dropping a service                                          *)
(***************************************************************************)

Users == Endpoints \cup Counters \cup {"other"}

\* What TypeOK says of services.
ServicesOK ==
    /\ users \in [Services -> SUBSET Users]
    /\ settings \in [Services -> {NONE, "rmw", "default", "other"}]
    /\ \A x \in Services : settings[x] = NONE <=> ~Exists(x)

\* open_or_create adds a user, and sets the settings of a service it creates.
LEMMA OpenServices ==
    ASSUME ServicesOK, NEW x \in Services, NEW who \in Users,
           NEW asked \in {"rmw", "default", "other"}, open_or_create(x, who, asked)
    PROVE  /\ ServicesOK'
           /\ users'[x] = users[x] \cup {who}
           /\ \A y \in Services : y # x => users'[y] = users[y] /\ settings'[y] = settings[y]
           /\ settings'[x] = IF Exists(x) THEN settings[x] ELSE asked
BY DEF ServicesOK, open_or_create, Exists, NONE

\* Dropping a service removes its user and keeps the settings for the others.
LEMMA DropServices ==
    ASSUME ServicesOK, NEW x \in Services, NEW who \in users[x], Drop(x, who)
    PROVE  /\ ServicesOK'
           /\ users'[x] = users[x] \ {who}
           /\ \A y \in Services : y # x => users'[y] = users[y] /\ settings'[y] = settings[y]
           /\ users[x] # {who} => settings'[x] = settings[x]
           /\ \A t \in TopicNames : wire'[t] \subseteq wire[t]
           /\ wire \in [TopicNames -> SUBSET {"raw", "cdr"}]
                  => wire' \in [TopicNames -> SUBSET {"raw", "cdr"}]
BY DEF ServicesOK, Drop, Exists, NONE

\* However services come and go, the record of them keeps the listing's part.
LEMMA ObservedKeepsListing ==
    ASSUME listing \in ListingType, ListingInv, Observed
    PROVE  listing' \in ListingType /\ ListingInv'
<1> DEFINE now == {x \in Services : users'[x] # {}}
<1>1. Existing' = now
  BY DEF Existing, Exists
<1>2. CASE listing.phase # "busy"
  BY <1>2 DEF Observed, ListingInv, ListingProgress, FoundExisted, ListingExact
<1>3. CASE listing.phase = "busy"
  <2>1. listing' = [listing EXCEPT !.ever = @ \cup now, !.always = @ \cap now]
    BY <1>3 DEF Observed
  <2>2. now \subseteq Services
    OBVIOUS
  <2> HIDE DEF now
  <2>3. /\ listing' \in ListingType /\ listing'.phase = "busy"
        /\ listing'.visited = listing.visited /\ listing'.found = listing.found
        /\ listing'.ever = listing.ever \cup now
    BY <1>3, <2>1, <2>2 DEF ListingType
  <2>4. QED
    BY <1>1, <1>3, <2>3 DEF ListingInv, ListingProgress, FoundExisted, ListingExact
<1>4. QED
  BY <1>2, <1>3

\* What the invariant says of services, counting and wire.
LEMMA TypedParts ==
    ASSUME UsersInv
    PROVE  /\ ServicesOK
           /\ counting \in [Counters -> TopicNames \cup {NONE}]
           /\ wire \in [TopicNames -> SUBSET {"raw", "cdr"}]
BY DEF UsersInv, TypeOK, ServicesOK, Users

(***************************************************************************)
(* Steps that leave services alone                                         *)
(***************************************************************************)

\* The variables the users part is about, except for listing and wire.
userVars == <<users, settings, endpoint, counting, type>>

\* A step that leaves services, endpoints and counting threads alone.
LEMMA UnchangedKeepsUsers ==
    ASSUME UsersInv, UNCHANGED userVars, listing' \in ListingType,
           wire' \in [TopicNames -> SUBSET {"raw", "cdr"}]
    PROVE  UsersInv'
<1>1. Typed'
  BY DEF UsersInv, Typed, userVars
<1>2. TypeOK'
  BY DEF UsersInv, TypeOK, ListingType, Exists, userVars
<1>3. QED
  BY <1>1, <1>2 DEF UsersInv, userVars, HoldersListed, UsersHold, Holding, PortsConfigured

\* A listing that ends in a crash or an error leaves nothing behind.
LEMMA CrashedListing ==
    ASSUME NEW phase \in {"error", "crashed"},
           listing' = [phase |-> phase, visited |-> {}, found |-> {}, ever |-> {}, always |-> {}]
    PROVE  listing' \in ListingType /\ ListingInv'
<1>1. listing' \in ListingType
  BY DEF ListingType
<1>2. listing'.phase = phase /\ phase # "busy" /\ phase # "ok" /\ listing'.found = {}
  OBVIOUS
<1>3. QED
  BY <1>1, <1>2 DEF ListingInv, ListingProgress, FoundExisted, ListingExact

\* Listing: starting, visiting a service, returning, failing.
LEMMA ListingSteps ==
    ASSUME IndInv,
           \/ rmw_get_topic_names_and_types \/ ListingReturns \/ ListingFails
           \/ \E x \in Services : collect_topic_names_and_types(x)
    PROVE  IndInv'
<1> USE DEF IndInv
<1>0. listing \in ListingType
  BY DEF UsersInv, Typed
<1>1. Existing' = Existing /\ UNCHANGED userVars /\ wire' = wire
  BY DEF rmw_get_topic_names_and_types, ListingReturns, ListingFails,
         collect_topic_names_and_types, userVars, Existing, Exists
<1>2. SUFFICES listing' \in ListingType /\ ListingInv'
  BY <1>1, UnchangedKeepsUsers, TypedParts
<1>3. CASE rmw_get_topic_names_and_types
  <2>1. Existing \subseteq Services
    BY DEF Existing
  <2>2. listing' = [phase |-> "busy", visited |-> {}, found |-> {}, ever |-> Existing,
                    always |-> Existing]
    BY <1>3 DEF rmw_get_topic_names_and_types, NotListing
  <2>3. QED
    BY <1>1, <2>1, <2>2 DEF ListingType, ListingInv, ListingProgress, FoundExisted,
                            ListingExact
<1>4. CASE ListingReturns
  <2>1. /\ listing.phase = "busy" /\ listing.always \subseteq listing.visited
        /\ listing' \in ListingType /\ listing'.phase = "ok"
        /\ listing'.found = listing.found /\ listing'.ever = listing.ever
        /\ listing'.always = listing.always
    BY <1>0, <1>4 DEF ListingReturns, ListingType
  <2>2. ListingExact'
    BY <2>1 DEF ListingInv, ListingProgress, FoundExisted, ListingExact, ListingType
  <2>3. QED
    BY <2>1, <2>2 DEF ListingInv, ListingProgress, FoundExisted
<1>5. CASE \E x \in Services : collect_topic_names_and_types(x)
  <2> PICK x \in Services : collect_topic_names_and_types(x)
    BY <1>5
  <2>0. /\ listing.phase = "busy" /\ Exists(x) /\ x \in listing.ever
        /\ Existing \subseteq listing.ever
    BY DEF collect_topic_names_and_types, ListingInv, ListingProgress, Existing
  <2>1. CASE \E t \in TopicNames : x = Service(t)
    <3> PICK t \in TopicNames : x = Service(t)
      BY <2>1
    <3>1. /\ IsTopic(x) /\ parse_topic_name(x.name) = <<t>>
          /\ <<t>> # nullopt /\ <<t>>[1] = t
      BY ServiceOfTopic DEF nullopt
    <3>2. listing' = [listing EXCEPT !.visited = @ \cup {x}, !.found = @ \cup {t}]
      BY <3>1 DEF collect_topic_names_and_types
    <3>3. /\ listing' \in ListingType /\ listing'.phase = "busy"
          /\ listing'.visited = listing.visited \cup {x}
          /\ listing'.found = listing.found \cup {t}
          /\ listing'.ever = listing.ever
      BY <1>0, <2>0, <3>2 DEF ListingType
    <3>4. \A u \in TopicNames : Service(u) = x => u = t
      BY ServiceInjective
    <3>5. QED
      BY <1>1, <2>0, <3>3, <3>4 DEF ListingInv, ListingProgress, FoundExisted,
                                    ListingExact
  <2>2. CASE x.name \in ForeignNames /\ parse_topic_name(x.name) = nullopt
    <3>1. CASE IsTopic(x)
      BY <1>1, <2>2, <3>1, CrashedListing DEF collect_topic_names_and_types, NotListing
    <3>2. CASE ~IsTopic(x)
      <4>1. listing' = [listing EXCEPT !.visited = @ \cup {x}, !.found = @]
        BY <3>2 DEF collect_topic_names_and_types
      <4>2. /\ listing' \in ListingType /\ listing'.phase = "busy"
            /\ listing'.visited = listing.visited \cup {x}
            /\ listing'.found = listing.found
            /\ listing'.ever = listing.ever
        BY <1>0, <2>0, <4>1 DEF ListingType
      <4>3. \A u \in TopicNames : Service(u) # x
        BY <2>2, TopicNotForeign
      <4>4. QED
        BY <1>1, <2>0, <4>2, <4>3 DEF ListingInv, ListingProgress, FoundExisted, ListingExact
    <3>3. QED
      BY <3>1, <3>2
  <2>3. QED
    BY <2>1, <2>2, ServiceCases
<1>6. CASE ListingFails
  BY <1>6, CrashedListing DEF ListingFails, NotListing
<1>7. QED
  BY <1>3, <1>4, <1>5, <1>6

(***************************************************************************)
(* Endpoints                                                               *)
(***************************************************************************)

\* Two endpoints, or an endpoint and a counting thread, are different users.
LEMMA UsersDiffer ==
    /\ \A e \in Endpoints, k \in Counters : e # k
    /\ \A e \in Endpoints : e # "other"
    /\ \A k \in Counters : k # "other"
    /\ NONE \notin TopicNames
BY TopicsAssumption DEF NONE

\* Publisher and Subscriber.
LEMMA OpenStep ==
    ASSUME IndInv, NEW e \in Endpoints, NEW kind \in {"publisher", "subscription"},
           NEW t \in TopicNames, NEW support \in {"c", "cpp"}, Open(e, kind, t, support)
    PROVE  IndInv'
<1> USE DEF IndInv
<1> DEFINE new == [kind |-> kind, topic |-> t, support |-> support, phase |-> "opened",
                   can_loan |-> is_pod_support(support, type[t])]
<1>1. new \in EndpointType /\ new.phase = "opened" /\ new.topic = t
  BY DEF EndpointType, is_pod_support
<1>2. \/ /\ Compatible(Service(t), "rmw")
         /\ endpoint' = [endpoint EXCEPT ![e] = new]
         /\ open_or_create(Service(t), e, "rmw")
      \/ /\ endpoint' = [endpoint EXCEPT ![e] = [new EXCEPT !.phase = "refused"]]
         /\ UNCHANGED <<users, settings, listing>>
  BY DEF Open
<1>3. UNCHANGED <<counting, type, wire>> /\ ~Holding(e)
  BY DEF Open, Unused, Holding
<1>4. Service(t) \in Services /\ endpoint \in [Endpoints -> EndpointType]
  BY ServiceOfTopic DEF UsersInv, Typed
<1> HIDE DEF new
<1>5. CASE /\ Compatible(Service(t), "rmw")
           /\ endpoint' = [endpoint EXCEPT ![e] = new]
           /\ open_or_create(Service(t), e, "rmw")
  <2>1. listing' \in ListingType /\ ListingInv'
    BY <1>5, ObservedKeepsListing DEF open_or_create, UsersInv, Typed
  <2>2. /\ ServicesOK'
        /\ users'[Service(t)] = users[Service(t)] \cup {e}
        /\ \A y \in Services : y # Service(t) => users'[y] = users[y] /\ settings'[y] = settings[y]
        /\ settings'[Service(t)] = IF Exists(Service(t)) THEN settings[Service(t)] ELSE "rmw"
    BY <1>4, <1>5, OpenServices, TypedParts DEF Users
  <2>3. /\ endpoint' \in [Endpoints -> EndpointType]
        /\ endpoint'[e].phase = "opened" /\ endpoint'[e].topic = t
        /\ \A d \in Endpoints : d # e => endpoint'[d] = endpoint[d]
    BY <1>1, <1>4, <1>5
  <2>4. TypeOK' /\ Typed'
    BY <1>3, <2>1, <2>2, <2>3, TypedParts DEF UsersInv, TypeOK, Typed, ServicesOK, Users, ListingType
  <2>5. HoldersListed'
    <3>1. ASSUME NEW d \in Endpoints, Holding(d)'
          PROVE  endpoint'[d].topic \in TopicNames /\ d \in users'[Service(endpoint'[d].topic)]
      BY <1>4, <2>2, <2>3, <3>1, ServiceOfTopic DEF HoldersListed, UsersInv, Holding
    <3>2. ASSUME NEW k \in Counters, counting[k] # NONE
          PROVE  k \in users'[Service(counting[k])]
      <4>1. counting[k] \in TopicNames /\ k \in users[Service(counting[k])]
        BY <3>2, TypedParts DEF HoldersListed, UsersInv
      <4>2. QED
        BY <2>2, <4>1, ServiceOfTopic
    <3>3. QED
      BY <1>3, <3>1, <3>2 DEF HoldersListed
  <2>6. UsersHold'
    BY <1>3, <1>4, <2>2, <2>3, ServiceOfTopic, ServiceInjective DEF UsersHold, UsersInv, Holding
  <2>7. settings'[Service(t)] = "rmw"
    BY <1>5, <2>2 DEF Compatible
  <2>8. PortsConfigured'
    BY <2>2, <2>3, <2>7, ServiceOfTopic DEF PortsConfigured, UsersInv, HoldersListed, Holding
  <2>9. QED
    BY <2>1, <2>4, <2>5, <2>6, <2>8 DEF UsersInv
<1>6. CASE /\ endpoint' = [endpoint EXCEPT ![e] = [new EXCEPT !.phase = "refused"]]
           /\ UNCHANGED <<users, settings, listing>>
  <2>1. /\ endpoint' \in [Endpoints -> EndpointType]
        /\ endpoint'[e].phase = "refused"
        /\ \A d \in Endpoints : d # e => endpoint'[d] = endpoint[d]
    <3>1. [new EXCEPT !.phase = "refused"] \in EndpointType /\ [new EXCEPT !.phase = "refused"].phase = "refused"
      BY <1>1 DEF EndpointType
    <3>2. QED
      BY <3>1, <1>4, <1>6
  <2>2. TypeOK' /\ Typed'
    BY <1>3, <1>6, <2>1 DEF UsersInv, TypeOK, Typed, Exists
  <2>3. HoldersListed' /\ UsersHold' /\ PortsConfigured'
    BY <1>3, <1>6, <2>1 DEF HoldersListed, UsersHold, PortsConfigured, UsersInv, Holding
  <2>4. ListingInv'
    BY <1>6 DEF ListingInv, ListingProgress, FoundExisted, ListingExact, Existing, Exists
  <2>5. QED
    BY <2>2, <2>3, <2>4 DEF UsersInv
<1>7. QED
  BY <1>2, <1>5, <1>6

\* An endpoint goes: refused for want of a port, or destroyed.
LEMMA LeaveStep ==
    ASSUME IndInv, NEW e \in Endpoints, Holding(e), NEW phase \in {"refused", "gone"},
           endpoint' = [endpoint EXCEPT ![e].phase = phase],
           Drop(Service(endpoint[e].topic), e), UNCHANGED <<counting, type>>
    PROVE  IndInv'
<1> USE DEF IndInv
<1> DEFINE t == endpoint[e].topic
<1>1. t \in TopicNames /\ e \in users[Service(t)] /\ Service(t) \in Services
  BY ServiceOfTopic DEF UsersInv, HoldersListed
<1>2. endpoint \in [Endpoints -> EndpointType]
  BY DEF UsersInv, Typed
<1>3. listing' \in ListingType /\ ListingInv'
  BY ObservedKeepsListing DEF Drop, UsersInv, Typed
<1>4. /\ ServicesOK'
      /\ users'[Service(t)] = users[Service(t)] \ {e}
      /\ \A y \in Services : y # Service(t) => users'[y] = users[y] /\ settings'[y] = settings[y]
      /\ users[Service(t)] # {e} => settings'[Service(t)] = settings[Service(t)]
      /\ wire' \in [TopicNames -> SUBSET {"raw", "cdr"}]
  BY <1>1, DropServices, TypedParts
<1>5. /\ endpoint' \in [Endpoints -> EndpointType]
      /\ endpoint'[e].phase = phase
      /\ \A d \in Endpoints : d # e => endpoint'[d] = endpoint[d]
  BY <1>2 DEF EndpointType
<1>6. TypeOK' /\ Typed'
  BY <1>3, <1>4, <1>5 DEF UsersInv, TypeOK, Typed, ServicesOK, Users, ListingType
<1>7. HoldersListed'
  <2>1. ASSUME NEW d \in Endpoints, Holding(d)'
        PROVE  endpoint'[d].topic \in TopicNames /\ d \in users'[Service(endpoint'[d].topic)]
    <3>1. d # e
      BY <1>5, <2>1 DEF Holding
    <3>2. /\ endpoint'[d] = endpoint[d] /\ endpoint[d].topic \in TopicNames
          /\ d \in users[Service(endpoint[d].topic)]
      BY <1>5, <2>1, <3>1 DEF HoldersListed, UsersInv, Holding
    <3>3. Service(endpoint[d].topic) \in Services
      BY <3>2, ServiceOfTopic
    <3>4. d \in users'[Service(endpoint[d].topic)]
      BY <1>4, <3>1, <3>2, <3>3
    <3>5. QED
      BY <3>2, <3>4
  <2>2. ASSUME NEW k \in Counters, counting[k] # NONE
        PROVE  k \in users'[Service(counting[k])]
    <3>1. counting[k] \in TopicNames /\ k \in users[Service(counting[k])]
      BY <2>2, TypedParts DEF HoldersListed, UsersInv
    <3>2. QED
      BY <1>4, <3>1, ServiceOfTopic, UsersDiffer
  <2>3. QED
    BY <2>1, <2>2 DEF HoldersListed
<1>8. UsersHold'
  BY <1>1, <1>4, <1>5, ServiceOfTopic, ServiceInjective DEF UsersHold, UsersInv, Holding
<1>9. PortsConfigured'
  BY <1>1, <1>4, <1>5, ServiceOfTopic DEF PortsConfigured, UsersInv, HoldersListed, Holding
<1>10. QED
  BY <1>3, <1>6, <1>7, <1>8, <1>9 DEF UsersInv

\* An endpoint gets its port, or its notifier.
LEMMA PortStep ==
    ASSUME IndInv, NEW e \in Endpoints, Holding(e), NEW phase \in {"ported", "live"},
           endpoint' = [endpoint EXCEPT ![e].phase = phase],
           UNCHANGED <<users, settings, counting, listing, type, wire>>
    PROVE  IndInv'
<1> USE DEF IndInv
<1>1. endpoint \in [Endpoints -> EndpointType]
  BY DEF UsersInv, Typed
<1>2. /\ endpoint' \in [Endpoints -> EndpointType]
      /\ \A d \in Endpoints : Holding(d)' <=> Holding(d)
      /\ \A d \in Endpoints : endpoint'[d].topic = endpoint[d].topic
  BY <1>1 DEF EndpointType, Holding
<1>3. TypeOK' /\ Typed'
  BY <1>2 DEF UsersInv, TypeOK, Typed, Exists
<1>4. HoldersListed' /\ UsersHold'
  BY <1>2 DEF HoldersListed, UsersHold, UsersInv
<1>5. PortsConfigured'
  BY <1>2 DEF PortsConfigured, Holding, UsersInv
<1>6. ListingInv'
  BY DEF ListingInv, ListingProgress, FoundExisted, ListingExact, Existing, Exists
<1>7. QED
  BY <1>3, <1>4, <1>5, <1>6 DEF UsersInv

(***************************************************************************)
(* Counting threads and other programs                                     *)
(***************************************************************************)

\* rmw_count_publishers or rmw_count_subscribers opens a topic's service.
LEMMA CountStep ==
    ASSUME IndInv, NEW k \in Counters, NEW t \in TopicNames, Count(k, t)
    PROVE  IndInv'
<1> USE DEF IndInv
<1>0. Service(t) \in Services /\ counting[k] = NONE /\ UNCHANGED <<endpoint, type, wire>>
  BY ServiceOfTopic DEF Count
<1>1. listing' \in ListingType /\ ListingInv'
  BY ObservedKeepsListing DEF Count, open_or_create, UsersInv, Typed
<1>2. /\ ServicesOK'
      /\ users'[Service(t)] = users[Service(t)] \cup {k}
      /\ \A y \in Services : y # Service(t) => users'[y] = users[y] /\ settings'[y] = settings[y]
      /\ settings'[Service(t)] = IF Exists(Service(t)) THEN settings[Service(t)] ELSE "default"
  BY <1>0, OpenServices, TypedParts DEF Count, Users
<1>3. /\ counting' \in [Counters -> TopicNames \cup {NONE}] /\ counting'[k] = t
      /\ \A j \in Counters : j # k => counting'[j] = counting[j]
  BY TypedParts DEF Count
<1>4. TypeOK' /\ Typed'
  BY <1>0, <1>1, <1>2, <1>3 DEF UsersInv, TypeOK, Typed, ServicesOK, Users, ListingType
<1>5. HoldersListed'
  <2>1. ASSUME NEW d \in Endpoints, Holding(d)
        PROVE  endpoint[d].topic \in TopicNames /\ d \in users'[Service(endpoint[d].topic)]
    BY <1>2, <2>1, ServiceOfTopic DEF HoldersListed, UsersInv
  <2>2. ASSUME NEW j \in Counters, counting'[j] # NONE
        PROVE  j \in users'[Service(counting'[j])]
    <3>1. CASE j = k
      BY <1>2, <1>3, <3>1
    <3>2. CASE j # k
      <4>1. /\ counting'[j] = counting[j] /\ counting[j] \in TopicNames
            /\ j \in users[Service(counting[j])]
        BY <1>3, <2>2, <3>2, TypedParts DEF HoldersListed, UsersInv
      <4>2. Service(counting[j]) \in Services
        BY <4>1, ServiceOfTopic
      <4>3. j \in users'[Service(counting[j])]
        BY <1>2, <4>1, <4>2
      <4>4. QED
        BY <4>1, <4>3
    <3>3. QED
      BY <3>1, <3>2
  <2>3. QED
    BY <1>0, <2>1, <2>2 DEF HoldersListed, Holding
<1>6. UsersHold'
  <2> SUFFICES ASSUME NEW u \in TopicNames, NEW who \in users'[Service(u)]
               PROVE  \/ who \in Endpoints /\ Holding(who) /\ endpoint[who].topic = u
                      \/ who \in Counters /\ counting'[who] = u
    BY <1>0 DEF UsersHold, Holding
  <2>1. CASE who \in users[Service(u)]
    <3>1. \/ who \in Endpoints /\ Holding(who) /\ endpoint[who].topic = u
          \/ who \in Counters /\ counting[who] = u
      BY <2>1 DEF UsersHold, UsersInv
    <3>2. QED
      BY <1>0, <1>3, <3>1, UsersDiffer
  <2>2. CASE who \notin users[Service(u)]
    <3>1. Service(u) = Service(t) /\ who = k
      BY <1>2, <2>2, ServiceOfTopic
    <3>2. QED
      BY <1>3, <3>1, ServiceInjective
  <2>3. QED
    BY <2>1, <2>2
<1>7. PortsConfigured'
  <2> SUFFICES ASSUME NEW e \in Endpoints, Holding(e)
               PROVE  settings'[Service(endpoint[e].topic)] = "rmw"
    BY <1>0 DEF PortsConfigured, Holding
  <2>1. /\ endpoint[e].topic \in TopicNames /\ e \in users[Service(endpoint[e].topic)]
        /\ settings[Service(endpoint[e].topic)] = "rmw"
    BY DEF UsersInv, HoldersListed, PortsConfigured, Holding
  <2>2. Service(endpoint[e].topic) \in Services /\ Exists(Service(endpoint[e].topic))
    BY <2>1, ServiceOfTopic DEF Exists
  <2>3. QED
    BY <1>2, <2>1, <2>2
<1>8. QED
  BY <1>1, <1>4, <1>5, <1>6, <1>7 DEF UsersInv

\* It drops the service and returns.
LEMMA CountReturnStep ==
    ASSUME IndInv, NEW k \in Counters, rmw_count_returns(k)
    PROVE  IndInv'
<1> USE DEF IndInv
<1> DEFINE t == counting[k]
<1>0. /\ t \in TopicNames /\ k \in users[Service(t)] /\ Service(t) \in Services
      /\ UNCHANGED <<endpoint, type>>
  BY ServiceOfTopic, TypedParts DEF rmw_count_returns, UsersInv, HoldersListed
<1>1. listing' \in ListingType /\ ListingInv'
  BY ObservedKeepsListing DEF rmw_count_returns, Drop, UsersInv, Typed
<1>2. /\ ServicesOK'
      /\ users'[Service(t)] = users[Service(t)] \ {k}
      /\ \A y \in Services : y # Service(t) => users'[y] = users[y] /\ settings'[y] = settings[y]
      /\ users[Service(t)] # {k} => settings'[Service(t)] = settings[Service(t)]
      /\ wire' \in [TopicNames -> SUBSET {"raw", "cdr"}]
  BY <1>0, DropServices, TypedParts DEF rmw_count_returns
<1>3. /\ counting' \in [Counters -> TopicNames \cup {NONE}] /\ counting'[k] = NONE
      /\ \A j \in Counters : j # k => counting'[j] = counting[j]
  BY TypedParts DEF rmw_count_returns
<1> HIDE DEF t
<1>4. TypeOK' /\ Typed'
  BY <1>0, <1>1, <1>2, <1>3 DEF UsersInv, TypeOK, Typed, ServicesOK, Users, ListingType
<1>5. HoldersListed'
  <2>1. ASSUME NEW d \in Endpoints, Holding(d)
        PROVE  endpoint[d].topic \in TopicNames /\ d \in users'[Service(endpoint[d].topic)]
    BY <1>2, <2>1, ServiceOfTopic, UsersDiffer DEF HoldersListed, UsersInv
  <2>2. ASSUME NEW j \in Counters, counting'[j] # NONE
        PROVE  j \in users'[Service(counting'[j])]
    <3>1. /\ j # k /\ counting'[j] = counting[j] /\ counting[j] \in TopicNames
          /\ j \in users[Service(counting[j])]
      BY <1>3, <2>2, TypedParts DEF HoldersListed, UsersInv
    <3>2. Service(counting[j]) \in Services
      BY <3>1, ServiceOfTopic
    <3>3. j \in users'[Service(counting[j])]
      BY <1>2, <3>1, <3>2
    <3>4. QED
      BY <3>1, <3>3
  <2>3. QED
    BY <1>0, <2>1, <2>2 DEF HoldersListed, Holding
<1>6. UsersHold'
  <2> SUFFICES ASSUME NEW u \in TopicNames, NEW who \in users'[Service(u)]
               PROVE  \/ who \in Endpoints /\ Holding(who) /\ endpoint[who].topic = u
                      \/ who \in Counters /\ counting'[who] = u
    BY <1>0 DEF UsersHold, Holding
  <2>1. who \in users[Service(u)] /\ (u = t => who # k)
    BY <1>2, ServiceOfTopic
  <2>2. \/ who \in Endpoints /\ Holding(who) /\ endpoint[who].topic = u
        \/ who \in Counters /\ counting[who] = u
    BY <2>1 DEF UsersHold, UsersInv
  <2>3. QED
    BY <1>3, <2>1, <2>2 DEF t
<1>7. PortsConfigured'
  <2> SUFFICES ASSUME NEW e \in Endpoints, Holding(e)
               PROVE  settings'[Service(endpoint[e].topic)] = "rmw"
    BY <1>0 DEF PortsConfigured, Holding
  <2>1. /\ endpoint[e].topic \in TopicNames /\ e \in users[Service(endpoint[e].topic)]
        /\ settings[Service(endpoint[e].topic)] = "rmw"
    BY DEF UsersInv, HoldersListed, PortsConfigured, Holding
  <2>2. e # k /\ Service(endpoint[e].topic) \in Services
    BY <2>1, ServiceOfTopic, UsersDiffer
  <2>3. QED
    BY <1>2, <2>1, <2>2
<1>8. QED
  BY <1>1, <1>4, <1>5, <1>6, <1>7 DEF UsersInv

\* What other programs open and drop is no topic's service.
LEMMA ForeignStep ==
    ASSUME IndInv, NEW x \in Services, ForeignStarts(x) \/ ForeignStops(x)
    PROVE  IndInv'
<1> USE DEF IndInv
<1>0. UNCHANGED <<endpoint, counting, type>>
  BY DEF ForeignStarts, ForeignStops
<1>1. listing' \in ListingType /\ ListingInv'
  BY ObservedKeepsListing DEF ForeignStarts, ForeignStops, open_or_create, Drop, UsersInv, Typed
<1>2. \A t \in TopicNames : Service(t) # x
  <2>1. CASE ForeignStarts(x)
    BY <2>1, TopicNotForeign DEF ForeignStarts
  <2>2. CASE ForeignStops(x)
    BY <2>2, UsersDiffer DEF ForeignStops, UsersInv, UsersHold
  <2>3. QED
    BY <2>1, <2>2
<1>3. /\ ServicesOK' /\ wire' \in [TopicNames -> SUBSET {"raw", "cdr"}]
      /\ \A y \in Services : y # x => users'[y] = users[y] /\ settings'[y] = settings[y]
  <2>1. CASE ForeignStarts(x)
    BY <2>1, OpenServices, TypedParts DEF ForeignStarts, Users
  <2>2. CASE ForeignStops(x)
    BY <2>2, DropServices, TypedParts DEF ForeignStops
  <2>3. QED
    BY <2>1, <2>2
<1>4. TypeOK' /\ Typed'
  BY <1>0, <1>1, <1>3 DEF UsersInv, TypeOK, Typed, ServicesOK, Users, ListingType
<1>5. \A t \in TopicNames : /\ users'[Service(t)] = users[Service(t)]
                            /\ settings'[Service(t)] = settings[Service(t)]
  BY <1>2, <1>3, ServiceOfTopic
<1>6. HoldersListed' /\ UsersHold' /\ PortsConfigured'
  BY <1>0, <1>5, TypedParts DEF HoldersListed, UsersHold, PortsConfigured, UsersInv, Holding
<1>7. QED
  BY <1>1, <1>4, <1>6 DEF UsersInv

\* rmw_publish and rmw_publish_serialized_message.
LEMMA PublishStep ==
    ASSUME IndInv, NEW e \in Endpoints, publish(e) \/ publish_serialized(e)
    PROVE  IndInv'
<1> USE DEF IndInv
<1>1. wire' \in [TopicNames -> SUBSET {"raw", "cdr"}]
  BY TypedParts DEF publish, publish_serialized
<1>2. UsersInv'
  BY <1>1, UnchangedKeepsUsers DEF publish, publish_serialized, userVars, UsersInv, Typed
<1>3. ListingInv'
  BY DEF publish, publish_serialized, ListingInv, ListingProgress, FoundExisted, ListingExact, Existing, Exists
<1>4. QED
  BY <1>2, <1>3

(***************************************************************************)
(* The invariant                                                           *)
(***************************************************************************)

\* The inductive invariant holds before any service exists,
LEMMA Initially == Init => IndInv
<1> SUFFICES ASSUME Init PROVE IndInv
  OBVIOUS
<1> USE DEF Init
<1>1. /\ \A e \in Endpoints : endpoint[e] = Unused
      /\ \A k \in Counters : counting[k] = NONE
      /\ \A t \in TopicNames : users[Service(t)] = {}
  BY ServiceOfTopic
<1>2. TypeOK
  BY DEF TypeOK, NotListing, Exists
<1>3. Typed
  BY DEF Typed, EndpointType, ListingType, NotListing, Unused
<1>4. HoldersListed /\ UsersHold /\ PortsConfigured
  BY <1>1 DEF HoldersListed, UsersHold, PortsConfigured, Holding, Unused
<1>5. ListingInv
  BY DEF ListingInv, ListingProgress, FoundExisted, ListingExact, NotListing
<1>6. QED
  BY <1>2, <1>3, <1>4, <1>5 DEF IndInv, UsersInv

\* in a stuttering step,
LEMMA Stutter == IndInv /\ UNCHANGED vars => IndInv'
BY DEF IndInv, UsersInv, TypeOK, Typed, HoldersListed, UsersHold, PortsConfigured, Holding,
       ListingInv, ListingProgress, FoundExisted, ListingExact,
       Existing, Exists, vars

\* and in every step of an endpoint, a counting thread, a listing or another program.
LEMMA Step == IndInv /\ Next => IndInv'
<1> SUFFICES ASSUME IndInv, Next PROVE IndInv'
  OBVIOUS
<1>1. ASSUME NEW e \in Endpoints, NEW t \in TopicNames, NEW support \in {"c", "cpp"},
             Publisher(e, t, support) \/ Subscriber(e, t, support)
      PROVE  IndInv'
  BY <1>1, OpenStep DEF Publisher, Subscriber
<1>2. ASSUME NEW e \in Endpoints, CreatePort(e) \/ CreateNotifier(e) PROVE IndInv'
  <2>1. Holding(e) /\ UNCHANGED <<counting, type>>
    BY <1>2 DEF CreatePort, CreateNotifier, Holding
  <2>2. ASSUME NEW phase \in {"ported", "live"},
               endpoint' = [endpoint EXCEPT ![e].phase = phase],
               UNCHANGED <<users, settings, wire, listing>>
        PROVE  IndInv'
    BY <2>1, <2>2, PortStep
  <2>3. CASE /\ endpoint' = [endpoint EXCEPT ![e].phase = "refused"]
             /\ Drop(Service(endpoint[e].topic), e)
    BY <2>1, <2>3, LeaveStep
  <2>4. QED
    BY <1>2, <2>2, <2>3 DEF CreatePort, CreateNotifier
<1>3. ASSUME NEW e \in Endpoints, DestroyEndpoint(e) PROVE IndInv'
  BY <1>3, LeaveStep DEF DestroyEndpoint, Holding
<1>4. ASSUME NEW e \in Endpoints, publish(e) \/ publish_serialized(e) PROVE IndInv'
  BY <1>4, PublishStep
<1>5. ASSUME NEW e \in Endpoints, take(e) \/ take_serialized(e) PROVE IndInv'
  <2>1. UsersInv'
    BY <1>5, UnchangedKeepsUsers, TypedParts DEF take, take_serialized, userVars, IndInv, UsersInv, Typed
  <2>2. ListingInv'
    BY <1>5 DEF take, take_serialized, IndInv, ListingInv, ListingProgress, FoundExisted, ListingExact, Existing, Exists
  <2>3. QED
    BY <2>1, <2>2 DEF IndInv
<1>6. ASSUME NEW k \in Counters, NEW t \in TopicNames,
             rmw_count_publishers(k, t) \/ rmw_count_subscribers(k, t)
      PROVE  IndInv'
  BY <1>6, CountStep DEF rmw_count_publishers, rmw_count_subscribers
<1>7. ASSUME NEW k \in Counters, rmw_count_returns(k) PROVE IndInv'
  BY <1>7, CountReturnStep
<1>8. CASE \/ rmw_get_topic_names_and_types \/ ListingReturns \/ ListingFails
           \/ \E x \in Services : collect_topic_names_and_types(x)
  BY <1>8, ListingSteps
<1>9. ASSUME NEW x \in Services, ForeignStarts(x) \/ ForeignStops(x) PROVE IndInv'
  BY <1>9, ForeignStep
<1>10. QED
  BY <1>1, <1>2, <1>3, <1>4, <1>5, <1>6, <1>7, <1>8, <1>9 DEF Next

\* The users of services are known and a listing in progress is right in every
\* reachable state, however processes interleave opening, dropping and listing.
THEOREM Invariance == Spec => []IndInv
BY Initially, Step, Stutter, PTL DEF Spec

\* The variables of the topics have their types in every reachable state.
THEOREM TypeCorrect == Spec => []TypeOK
<1>1. IndInv => TypeOK
  BY DEF IndInv, UsersInv
<1>2. QED
  BY <1>1, Invariance, PTL

\* However processes interleave creating endpoints, counting them and dropping
\* services (open_or_create and the drops of its callers), a port is on a
\* service with the settings publisher.cpp and subscriber.cpp ask for.
THEOREM PortsAreConfigured == Spec => []PortsConfigured
<1>1. IndInv => PortsConfigured
  BY DEF IndInv, UsersInv
<1>2. QED
  BY <1>1, Invariance, PTL

\* rmw_get_topic_names_and_types lists what existed while it ran, and all that
\* existed all the while.
THEOREM ListingIsExact == Spec => []ListingExact
<1>1. IndInv => ListingExact
  BY DEF IndInv, ListingInv
<1>2. QED
  BY <1>1, Invariance, PTL

\* One step creates an endpoint and has it refused only for a service that a
\* counting thread, and no endpoint, has open.
LEMMA RefusalStep ==
    ASSUME IndInv, Next \/ UNCHANGED vars, NEW e \in Endpoints,
           endpoint[e].phase = "unused", endpoint'[e].phase = "refused"
    PROVE  \E k \in Counters : counting[k] = endpoint'[e].topic
<1>0. endpoint \in [Endpoints -> EndpointType]
  BY DEF IndInv, UsersInv, Typed
<1>1. PICK kind \in {"publisher", "subscription"}, t \in TopicNames, support \in {"c", "cpp"} :
          Open(e, kind, t, support)
  <2>1. ASSUME NEW d \in Endpoints, CreatePort(d) \/ CreateNotifier(d) \/ DestroyEndpoint(d)
        PROVE  FALSE
    <3>1. d # e
      BY <2>1 DEF CreatePort, CreateNotifier, DestroyEndpoint
    <3>2. endpoint'[e] = endpoint[e]
      BY <1>0, <2>1, <3>1 DEF CreatePort, CreateNotifier, DestroyEndpoint
    <3>3. QED
      BY <3>2
  <2>2. ASSUME NEW d \in Endpoints, publish(d) \/ publish_serialized(d) \/ take(d) \/ take_serialized(d)
        PROVE  FALSE
    BY <2>2 DEF publish, publish_serialized, take, take_serialized
  <2>3. ASSUME NEW k \in Counters,
               rmw_count_returns(k) \/ \E t \in TopicNames : Count(k, t)
        PROVE  FALSE
    BY <2>3 DEF Count, rmw_count_returns
  <2>4. CASE \/ rmw_get_topic_names_and_types \/ ListingReturns \/ ListingFails
           \/ UNCHANGED vars
             \/ \E x \in Services :
                   collect_topic_names_and_types(x) \/ ForeignStarts(x) \/ ForeignStops(x)
    BY <2>4 DEF rmw_get_topic_names_and_types, ListingReturns, ListingFails, vars,
                collect_topic_names_and_types, ForeignStarts, ForeignStops
  <2>5. ASSUME NEW d \in Endpoints, NEW kind \in {"publisher", "subscription"},
               NEW t \in TopicNames, NEW support \in {"c", "cpp"}, Open(d, kind, t, support)
        PROVE  d = e
    <3>1. ASSUME d # e PROVE endpoint'[e] = endpoint[e]
      BY <1>0, <2>5, <3>1 DEF Open
    <3>2. QED
      BY <3>1
  <2>6. QED
    BY <2>1, <2>2, <2>3, <2>4, <2>5 DEF Next, Publisher, Subscriber, rmw_count_publishers,
                                                 rmw_count_subscribers
<1>2. ~Compatible(Service(t), "rmw") /\ endpoint'[e].topic = t
  BY <1>0, <1>1 DEF Open
<1>3. Exists(Service(t)) /\ settings[Service(t)] # "rmw"
  BY <1>2 DEF Compatible
<1>4. PICK who \in users[Service(t)] : TRUE
  BY <1>3 DEF Exists
<1>5. \/ who \in Endpoints /\ Holding(who) /\ endpoint[who].topic = t
      \/ who \in Counters /\ counting[who] = t
  BY DEF IndInv, UsersInv, UsersHold
<1>6. ~(who \in Endpoints /\ Holding(who) /\ endpoint[who].topic = t)
  BY <1>3 DEF IndInv, UsersInv, PortsConfigured, Holding
<1>7. QED
  BY <1>2, <1>5, <1>6

\* The service that rmw_count_publishers or rmw_count_subscribers creates with
\* the defaults stands in an endpoint's way only while the count lasts.
THEOREM RefusalsNeedCounting == Spec => RefusedOnlyWhileCounting
<1>1. IndInv /\ [Next]_vars =>
        [\A e \in Endpoints :
            (endpoint[e].phase = "unused" /\ endpoint'[e].phase = "refused")
                => \E k \in Counters : counting[k] = endpoint'[e].topic]_vars
  BY RefusalStep
<1>2. QED
  BY <1>1, Invariance, PTL DEF Spec, RefusedOnlyWhileCounting

(***************************************************************************)
(* Encodings                                                               *)
(*                                                                         *)
(* Nothing tells the two ends of a topic how a message is encoded.  They   *)
(* agree because each derives it from the type alone: an endpoint that     *)
(* copies has a type that is_pod accepts (LoansByType), and one that can   *)
(* serialize but does not copy has a type that it rejects; so a topic      *)
(* carries one encoding (OneEncoding).                                     *)
(***************************************************************************)

LoansByType ==
    \A e \in Endpoints : Holding(e) =>
        /\ endpoint[e].can_loan => is_pod[type[endpoint[e].topic]]
        /\ (endpoint[e].support = "cpp" /\ ~endpoint[e].can_loan)
              => ~is_pod[type[endpoint[e].topic]]

OneEncoding ==
    \A t \in TopicNames :
        /\ "raw" \in wire[t] => is_pod[type[t]]
        /\ "cdr" \in wire[t] => ~is_pod[type[t]]

EncodingInv == LoansByType /\ OneEncoding /\ MessagesIntact

\* A type that is copied byte by byte holds no pointer.  Run topics would violate
\* MessagesIntact if this failed for one of its types; it does fail for wide
\* strings, which is_pod accepts.
CopiedTypesSelfContained == \A t \in TopicTypes : is_pod[t] => SelfContained(t)

\* A step that opens no endpoint and puts nothing on the wire.
LEMMA FewerKeepsEncoding ==
    ASSUME EncodingInv, type' = type, received' = received,
           \A t \in TopicNames : wire'[t] \subseteq wire[t],
           \A e \in Endpoints : Holding(e)' =>
              /\ Holding(e)
              /\ endpoint'[e].can_loan = endpoint[e].can_loan
              /\ endpoint'[e].support = endpoint[e].support
              /\ endpoint'[e].topic = endpoint[e].topic
    PROVE  EncodingInv'
<1>1. LoansByType'
  BY DEF EncodingInv, LoansByType
<1>2. OneEncoding'
  BY DEF EncodingInv, OneEncoding
<1>3. QED
  BY <1>1, <1>2 DEF EncodingInv, MessagesIntact

\* A new endpoint decides on the encoding by the type of its topic.
LEMMA OpenKeepsEncoding ==
    ASSUME IndInv, EncodingInv, NEW e \in Endpoints, NEW kind, NEW t \in TopicNames,
           NEW support \in {"c", "cpp"}, Open(e, kind, t, support)
    PROVE  EncodingInv'
<1>0. endpoint \in [Endpoints -> EndpointType] /\ UNCHANGED <<type, wire, received>>
  BY DEF IndInv, UsersInv, Typed, Open
<1>1. /\ endpoint'[e].can_loan = is_pod_support(support, type[t])
      /\ endpoint'[e].support = support /\ endpoint'[e].topic = t
      /\ \A d \in Endpoints : d # e => endpoint'[d] = endpoint[d]
  BY <1>0 DEF Open
<1>2. LoansByType'
  <2> SUFFICES ASSUME NEW d \in Endpoints, Holding(d)'
               PROVE  /\ endpoint'[d].can_loan => is_pod[type[endpoint'[d].topic]]
                      /\ (endpoint'[d].support = "cpp" /\ ~endpoint'[d].can_loan)
                            => ~is_pod[type[endpoint'[d].topic]]
    BY <1>0 DEF LoansByType
  <2>1. CASE d = e
    BY <1>1, <2>1 DEF is_pod_support
  <2>2. CASE d # e
    BY <1>1, <2>2 DEF EncodingInv, LoansByType, Holding
  <2>3. QED
    BY <2>1, <2>2
<1>3. QED
  BY <1>0, <1>2 DEF EncodingInv, OneEncoding, MessagesIntact

\* A publish writes the encoding that the type of the topic asks for.
LEMMA PublishKeepsEncoding ==
    ASSUME IndInv, EncodingInv, NEW e \in Endpoints, publish(e)
    PROVE  EncodingInv'
<1> DEFINE t == endpoint[e].topic
           copied == endpoint[e].can_loan
<1>1. /\ Holding(e) /\ t \in TopicNames /\ UNCHANGED <<endpoint, type, received>>
      /\ copied \/ endpoint[e].support = "cpp"
  BY DEF publish, Holding, IndInv, UsersInv, HoldersListed
<1>2. /\ wire'[t] = wire[t] \cup {IF copied THEN "raw" ELSE "cdr"}
      /\ \A u \in TopicNames : u # t => wire'[u] = wire[u]
  BY <1>1, TypedParts DEF publish, IndInv
<1>3. (copied => is_pod[type[t]]) /\ (~copied => ~is_pod[type[t]])
  BY <1>1 DEF EncodingInv, LoansByType
<1> HIDE DEF t, copied
<1>4. OneEncoding'
  BY <1>1, <1>2, <1>3 DEF EncodingInv, OneEncoding
<1>5. QED
  BY <1>1, <1>4 DEF EncodingInv, LoansByType, Holding, MessagesIntact

\* A take reads the encoding that was written.
LEMMA TakeKeepsEncoding ==
    ASSUME CopiedTypesSelfContained, IndInv, EncodingInv, NEW e \in Endpoints, take(e)
    PROVE  EncodingInv'
<1> DEFINE t == endpoint[e].topic
           copied == endpoint[e].can_loan
<1>1. /\ Holding(e) /\ t \in TopicNames /\ UNCHANGED <<endpoint, type, wire>>
      /\ copied \/ endpoint[e].support = "cpp"
  BY DEF take, Holding, IndInv, UsersInv, HoldersListed
<1>2. (copied => is_pod[type[t]]) /\ (~copied => ~is_pod[type[t]])
  BY <1>1 DEF EncodingInv, LoansByType
<1>3. copied => SelfContained(type[t])
  BY <1>1, <1>2 DEF CopiedTypesSelfContained, IndInv, UsersInv, Typed
<1>4. PICK format \in wire[t] :
          received' = received \cup
              {IF copied
               THEN IF format = "raw" /\ SelfContained(type[t]) THEN "intact" ELSE "broken"
               ELSE IF format = "cdr" THEN "intact" ELSE "broken"}
  BY DEF take
<1> HIDE DEF t, copied
<1>5. format \in {"raw", "cdr"}
  BY <1>1, TypedParts DEF IndInv
<1>6. IF copied THEN format = "raw" ELSE format = "cdr"
  BY <1>1, <1>2, <1>5 DEF EncodingInv, OneEncoding
<1>7. received' = received \cup {"intact"}
  BY <1>3, <1>4, <1>6
<1>8. MessagesIntact'
  BY <1>7 DEF EncodingInv, MessagesIntact
<1>9. QED
  BY <1>1, <1>8 DEF EncodingInv, LoansByType, OneEncoding, Holding

\* The serialized calls are used on topics whose type is not copied.
LEMMA SerializedKeepsEncoding ==
    ASSUME IndInv, EncodingInv, NEW e \in Endpoints,
           publish_serialized(e) \/ take_serialized(e)
    PROVE  EncodingInv'
<1> DEFINE t == endpoint[e].topic
<1>1. /\ t \in TopicNames /\ UNCHANGED <<endpoint, type>> /\ ~is_pod[type[t]]
  BY DEF publish_serialized, take_serialized, OnlySerialized, Holding, IndInv, UsersInv,
         HoldersListed
<1>2. CASE publish_serialized(e)
  <2>1. /\ wire'[t] = wire[t] \cup {"cdr"} /\ received' = received
        /\ \A u \in TopicNames : u # t => wire'[u] = wire[u]
    BY <1>1, <1>2, TypedParts DEF publish_serialized, IndInv
  <2> HIDE DEF t
  <2>2. OneEncoding'
    BY <1>1, <2>1 DEF EncodingInv, OneEncoding
  <2>3. QED
    BY <1>1, <2>1, <2>2 DEF EncodingInv, LoansByType, Holding, MessagesIntact
<1>3. CASE take_serialized(e)
  <2>1. PICK format \in wire[t] :
            received' = received \cup {IF format = "cdr" THEN "intact" ELSE "broken"}
    BY <1>3 DEF take_serialized
  <2>2. wire' = wire
    BY <1>3 DEF take_serialized
  <2> HIDE DEF t
  <2>3. format = "cdr"
    BY <1>1, TypedParts DEF IndInv, EncodingInv, OneEncoding
  <2>4. MessagesIntact'
    BY <2>1, <2>3 DEF EncodingInv, MessagesIntact
  <2>5. QED
    BY <1>1, <2>2, <2>4 DEF EncodingInv, LoansByType, OneEncoding, Holding
<1>4. QED
  BY <1>2, <1>3

\* Every step keeps the encoding part.
LEMMA StepKeepsEncoding ==
    ASSUME CopiedTypesSelfContained, IndInv, EncodingInv, Next \/ UNCHANGED vars
    PROVE  EncodingInv'
<1>0. endpoint \in [Endpoints -> EndpointType]
  BY DEF IndInv, UsersInv, Typed
<1>1. ASSUME NEW e \in Endpoints, NEW t \in TopicNames, NEW support \in {"c", "cpp"},
             Publisher(e, t, support) \/ Subscriber(e, t, support)
      PROVE  EncodingInv'
  BY <1>1, OpenKeepsEncoding DEF Publisher, Subscriber
<1>2. ASSUME NEW e \in Endpoints, CreatePort(e) \/ CreateNotifier(e) \/ DestroyEndpoint(e)
      PROVE  EncodingInv'
  <2>1. /\ Holding(e) /\ UNCHANGED <<type, received>>
        /\ \E phase \in {"ported", "live", "refused", "gone"} :
              endpoint' = [endpoint EXCEPT ![e].phase = phase]
    BY <1>2 DEF CreatePort, CreateNotifier, DestroyEndpoint, Holding
  <2>2. \A t \in TopicNames : wire'[t] \subseteq wire[t]
    BY <1>2 DEF CreatePort, CreateNotifier, DestroyEndpoint, Drop
  <2>3. \A d \in Endpoints : Holding(d)' =>
              /\ Holding(d)
              /\ endpoint'[d].can_loan = endpoint[d].can_loan
              /\ endpoint'[d].support = endpoint[d].support
              /\ endpoint'[d].topic = endpoint[d].topic
    BY <1>0, <2>1 DEF EndpointType, Holding
  <2>4. QED
    BY <2>1, <2>2, <2>3, FewerKeepsEncoding
<1>3. ASSUME NEW e \in Endpoints, publish(e) \/ publish_serialized(e) PROVE EncodingInv'
  BY <1>3, PublishKeepsEncoding, SerializedKeepsEncoding
<1>4. ASSUME NEW e \in Endpoints, take(e) \/ take_serialized(e) PROVE EncodingInv'
  BY <1>4, TakeKeepsEncoding, SerializedKeepsEncoding
<1>5. CASE \/ \E k \in Counters :
                rmw_count_returns(k) \/ \E t \in TopicNames : Count(k, t)
           \/ rmw_get_topic_names_and_types \/ ListingReturns \/ ListingFails
           \/ UNCHANGED vars
           \/ \E x \in Services :
                collect_topic_names_and_types(x) \/ ForeignStarts(x) \/ ForeignStops(x)
  <2>1. UNCHANGED <<endpoint, type, received>>
    BY <1>5 DEF Count, rmw_count_returns, rmw_get_topic_names_and_types, ListingReturns,
                ListingFails, vars, collect_topic_names_and_types, ForeignStarts, ForeignStops
  <2>2. \A t \in TopicNames : wire'[t] \subseteq wire[t]
    BY <1>5 DEF Count, rmw_count_returns, rmw_get_topic_names_and_types, ListingReturns,
                ListingFails, vars, collect_topic_names_and_types, ForeignStarts, ForeignStops, Drop
  <2>3. QED
    BY <2>1, <2>2, FewerKeepsEncoding DEF Holding
<1>6. QED
  BY <1>1, <1>2, <1>3, <1>4, <1>5 DEF Next, rmw_count_publishers, rmw_count_subscribers

\* If is_pod accepts only types without pointers, a message taken without an
\* error is the one published, whichever endpoints with whichever type support
\* (is_pod_support) are on the topic, and whether or not they use the serialized
\* calls where the warning in these allows it.
THEOREM MessagesAreIntact ==
    ASSUME CopiedTypesSelfContained
    PROVE  Spec => []MessagesIntact
<1>1. Init => EncodingInv
  BY ServiceOfTopic DEF Init, EncodingInv, LoansByType, OneEncoding, MessagesIntact, Holding, Unused
<1>2. IndInv /\ EncodingInv /\ [Next]_vars => EncodingInv'
  BY StepKeepsEncoding
<1>3. EncodingInv => MessagesIntact
  BY DEF EncodingInv
<1>4. QED
  BY <1>1, <1>2, <1>3, Invariance, PTL DEF Spec
===============================================================================
