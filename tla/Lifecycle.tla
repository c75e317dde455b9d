------------------------------ MODULE Lifecycle -------------------------------
(***************************************************************************)
(* Creating and destroying what the rmw calls work on: init options, the   *)
(* context, and the handles of nodes, guard conditions, wait sets,         *)
(* publishers, subscriptions, clients and services.                        *)
(*                                                                         *)
(* A handle is acquired piece by piece (memory, iceoryx2 entities); each   *)
(* piece may be refused, and the call then has to give back the earlier    *)
(* ones.  Several threads create at once.  The application follows the rmw *)
(* contract: it uses only live handles, destroys a node after what it      *)
(* created on it, and shuts a context down between other calls on it,      *)
(* though handles of that context may still be alive.                      *)
(***************************************************************************)
EXTENDS Naturals, Sequences, FiniteSets

CONSTANTS
    Options,      \* the rmw_init_options_t of the application
    Contexts,     \* its rmw_context_t
    Handles,      \* bound: the handles it ever creates
    Kinds,        \* the kinds of handle it creates
    InstanceIds,  \* the instance ids it sets in the options
    IdSpace,      \* how many ids the guard condition counter has (2^32)
    MaxStrings,   \* bound: enclave strings ever allocated
    MaxInits,     \* bound: successful calls of rmw_init
    Namespaces,   \* the namespaces of its nodes, as sequences of segments
    ForeignInstances,  \* the iceoryx2 nodes of other programs, likewise
    NoHandle

AllKinds == {"node", "guard_condition", "wait_set", "publisher", "subscription",
             "client", "service"}

ASSUME LifecycleAssumption ==
    /\ Kinds \subseteq AllKinds
    /\ IdSpace \in Nat \ {0} /\ MaxStrings \in Nat /\ MaxInits \in Nat
    /\ NoHandle \notin Handles
    /\ Handles \cap (0 .. MaxInits) = {}
    /\ Namespaces \subseteq Seq(STRING)
    /\ InstanceIds \subseteq STRING \ {"nodes"}   \* they are numbers in decimal

VARIABLES
    options,    \* per options struct: its identifier is set, its enclave
    context,    \* per context struct: its identifier is set, its impl
    impls,      \* the context implementations constructed so far
    strings,    \* the number of enclave strings allocated so far
    handle,     \* the handles
    listeners,  \* the services each wait set has stored a listener for
    held,       \* every piece acquired and not yet given back
    dangling    \* history: the handles whose use reached a destroyed context

vars == <<options, context, impls, strings, handle, listeners, held, dangling>>

Null == 0
ZeroOptions == [identifier |-> FALSE, enclave |-> Null]
ZeroContext == [identifier |-> FALSE, impl |-> Null]
Unused == [kind |-> "none", phase |-> "unused", node |-> NoHandle, context |-> Null,
           impl |-> Null, step |-> 0, id |-> 0, ns |-> <<>>]

Init ==
    /\ options = [o \in Options |-> ZeroOptions]
    /\ context = [c \in Contexts |-> ZeroContext]
    /\ impls = <<>>
    /\ strings = 0
    /\ handle = [h \in Handles |-> Unused]
    /\ listeners = [h \in Handles |-> {}]
    /\ held = {}
    /\ dangling = {}

IsZero(element) == ~element.identifier
IsInitialized(c) == context[c].impl # Null
ImplAlive(i) == <<i, "impl">> \in held

(***************************************************************************)
(* init.cpp: options and contexts                                          *)
(***************************************************************************)

StringPiece(e) == IF e = Null THEN {} ELSE {<<e, "enclave">>}

\* A failed copy of the default enclave goes unnoticed.
rmw_init_options_init(o) ==
    /\ IsZero(options[o])
    /\ \E e \in {Null, strings + 1} :
          /\ e <= MaxStrings
          /\ strings' = IF e = Null THEN strings ELSE e
          /\ options' = [options EXCEPT ![o] = [identifier |-> TRUE, enclave |-> e]]
          /\ held' = held \cup StringPiece(e)
    /\ UNCHANGED <<context, impls, handle, listeners, dangling>>

\* The copy is shallow: both structs point to one enclave.
rmw_init_options_copy(src, dst) ==
    /\ ~IsZero(options[src]) /\ IsZero(options[dst])
    /\ options' = [options EXCEPT ![dst] = options[src]]
    /\ UNCHANGED <<context, impls, strings, handle, listeners, held, dangling>>

\* Mutant of rmw_init_options_fini: the enclave is freed with the struct.
FiniFreesEnclave(o) ==
    /\ ~IsZero(options[o])
    /\ options' = [options EXCEPT ![o] = ZeroOptions]
    /\ held' = held \ StringPiece(options[o].enclave)
    /\ UNCHANGED <<context, impls, strings, handle, listeners, dangling>>

rmw_init_options_fini(o) ==
    /\ ~IsZero(options[o])
    /\ options' = [options EXCEPT ![o] = ZeroOptions]
    /\ UNCHANGED <<context, impls, strings, handle, listeners, held, dangling>>

\* The two iceoryx2 nodes of an Iceoryx2 instance.
Iceoryx2Steps == <<"local_node", "ipc_node">>

\* A context's implementation: its memory and its Iceoryx2 instance.
ImplPieces(i) == {<<i, piece>> : piece \in {"impl"} \cup {Iceoryx2Steps[k] : k \in 1 .. 2}}

\* The identifier is set before anything can fail and stays set.  The context
\* also gets a copy of the enclave, which nothing reads or frees.
rmw_init(o, c, instance) ==
    /\ ~IsZero(options[o]) /\ options[o].enclave # Null
    /\ IsZero(context[c])
    /\ \/ /\ context' = [context EXCEPT ![c].identifier = TRUE]
          /\ UNCHANGED <<impls, held>>
       \/ /\ Len(impls) < MaxInits
          /\ impls' = Append(impls, [id |-> instance, counter |-> 0])
          /\ context' = [context EXCEPT ![c] = [identifier |-> TRUE, impl |-> Len(impls) + 1]]
          /\ held' = held \cup ImplPieces(Len(impls) + 1)
    /\ UNCHANGED <<options, strings, handle, listeners, dangling>>

\* No call on the context is in progress.
Quiet(c) == \A h \in Handles : handle[h].phase = "creating" => handle[h].context # c

rmw_shutdown(c) ==
    /\ ~IsZero(context[c]) /\ Quiet(c)
    /\ held' = held \ ImplPieces(context[c].impl)
    /\ context' = [context EXCEPT ![c].impl = Null]
    /\ UNCHANGED <<options, impls, strings, handle, listeners, dangling>>

\* Mutant of rmw_context_fini: a context that was not shut down is accepted.
FiniWithoutShutdown(c) ==
    /\ ~IsZero(context[c]) /\ Quiet(c)
    /\ context' = [context EXCEPT ![c] = ZeroContext]
    /\ UNCHANGED <<options, impls, strings, handle, listeners, held, dangling>>

rmw_context_fini(c) ==
    /\ ~IsZero(context[c]) /\ ~IsInitialized(c) /\ Quiet(c)
    /\ context' = [context EXCEPT ![c] = ZeroContext]
    /\ UNCHANGED <<options, impls, strings, handle, listeners, held, dangling>>

(***************************************************************************)
(* The steps in which each kind of handle is created, in the code's order  *)
(***************************************************************************)

GuardConditionSteps == <<"trigger_id", "event_service", "notifier">>
NodeSteps == Iceoryx2Steps \o GuardConditionSteps
WaitSetSteps == <<"waitset">>
PublisherSteps == <<"pubsub_service", "publisher", "event_service", "notifier">>
SubscriberSteps == <<"pubsub_service", "subscriber">>

Steps(kind) ==
    CASE kind = "node" -> <<"handle", "name", "namespace", "impl">> \o NodeSteps
      [] kind = "guard_condition" -> <<"handle", "impl">> \o GuardConditionSteps
      [] kind = "wait_set" -> <<"handle", "impl">> \o WaitSetSteps
      [] kind = "publisher" -> <<"handle", "name", "impl">> \o PublisherSteps
      [] kind = "subscription" -> <<"handle", "name", "impl">> \o SubscriberSteps
      [] OTHER -> <<"handle", "name">>

\* These steps leave nothing behind: the id is a number, and the service is a
\* local variable that the port created on it keeps alive.
Transient == {"trigger_id", "event_service", "pubsub_service"}
Pieces(kind) == {Steps(kind)[k] : k \in DOMAIN Steps(kind)} \ Transient

\* What destroying the implementation object gives back.
ImplOf(kind) == Pieces(kind) \ {"handle", "name", "namespace"}

\* Whether a guard condition, of its own or in a node, comes with the handle.
HasGuardCondition(kind) == kind \in {"guard_condition", "node"}

Live(h) == handle[h].phase = "live"
LiveNode(n) == Live(n) /\ handle[n].kind = "node"
LiveWaitSet(w) == Live(w) /\ handle[w].kind = "wait_set"

(***************************************************************************)
(* Creation                                                                *)
(***************************************************************************)

Begin(h, kind, n, c, ns) ==
    /\ handle[h] = Unused /\ kind \in Kinds
    /\ handle' = [handle EXCEPT ![h] =
            [Unused EXCEPT !.kind = kind, !.phase = "creating", !.node = n,
                           !.context = c, !.impl = context[c].impl, !.ns = ns]]
    /\ UNCHANGED <<options, context, impls, strings, listeners, held, dangling>>

rmw_create_node(h, c, ns) ==
    /\ IsInitialized(c)
    /\ Begin(h, "node", NoHandle, c, ns)

\* Mutant of rmw_create_guard_condition: the identifier is checked and not impl.
CreateChecksIdentifier(h, c) ==
    /\ ~IsZero(context[c])
    /\ Begin(h, "guard_condition", NoHandle, c, <<>>)

rmw_create_guard_condition(h, c) ==
    /\ ~IsZero(context[c]) /\ IsInitialized(c)
    /\ Begin(h, "guard_condition", NoHandle, c, <<>>)

rmw_create_wait_set(h, c) ==
    /\ IsInitialized(c)
    /\ Begin(h, "wait_set", NoHandle, c, <<>>)

rmw_create_publisher(h, n) ==
    /\ LiveNode(n) /\ IsInitialized(handle[n].context)
    /\ Begin(h, "publisher", n, handle[n].context, <<>>)

rmw_create_subscription(h, n) ==
    /\ LiveNode(n) /\ IsInitialized(handle[n].context)
    /\ Begin(h, "subscription", n, handle[n].context, <<>>)

\* Clients and services are created without a look at the context.
rmw_create_client(h, n) ==
    /\ LiveNode(n)
    /\ Begin(h, "client", n, handle[n].context, <<>>)

rmw_create_service(h, n) ==
    /\ LiveNode(n)
    /\ Begin(h, "service", n, handle[n].context, <<>>)

NextStep(h) == Steps(handle[h].kind)[handle[h].step + 1]
Advance(h) ==
    LET done == handle[h].step + 1 = Len(Steps(handle[h].kind))
    IN  [handle[h] EXCEPT !.step = @ + 1, !.phase = IF done THEN "live" ELSE @]

\* Only guard conditions, of their own or in a node, work with the context.
Reaches(h, i) ==
    dangling' = IF ImplAlive(i) THEN dangling ELSE dangling \cup {h}

\* Mutant of generate_guard_condition_id: the number of guard conditions alive.
CountsAlive(h) ==
    LET i == handle[h].impl
        alive == {g \in Handles : /\ HasGuardCondition(handle[g].kind)
                                  /\ Live(g) /\ handle[g].impl = i}
    IN  /\ handle[h].phase = "creating" /\ NextStep(h) = "trigger_id"
        /\ handle' = [handle EXCEPT ![h] = [Advance(h) EXCEPT !.id = Cardinality(alive)]]
        /\ Reaches(h, i)
        /\ UNCHANGED <<options, context, impls, strings, listeners, held>>

\* Mutant of generate_guard_condition_id: a counter without a width.
CounterUnbounded(h) ==
    LET i == handle[h].impl
    IN  /\ handle[h].phase = "creating" /\ NextStep(h) = "trigger_id"
        /\ handle' = [handle EXCEPT ![h] = [Advance(h) EXCEPT !.id = impls[i].counter]]
        /\ impls' = [impls EXCEPT ![i].counter = @ + 1]
        /\ Reaches(h, i)
        /\ UNCHANGED <<options, context, strings, listeners, held>>

\* An atomic counter of the context, which wraps around.
generate_guard_condition_id(h) ==
    LET i == handle[h].impl
    IN  /\ handle[h].phase = "creating" /\ NextStep(h) = "trigger_id"
        /\ handle' = [handle EXCEPT ![h] =
                [Advance(h) EXCEPT !.id = IF i = Null THEN 0 ELSE impls[i].counter % IdSpace]]
        /\ impls' = [k \in DOMAIN impls |->
                IF k = i THEN [impls[k] EXCEPT !.counter = @ + 1] ELSE impls[k]]
        /\ Reaches(h, i)
        /\ UNCHANGED <<options, context, strings, listeners, held>>

\* allocate, allocate_copy and create_in_place, where they succeed.
Acquire(h) ==
    /\ handle[h].phase = "creating" /\ NextStep(h) # "trigger_id"
    /\ handle' = [handle EXCEPT ![h] = Advance(h)]
    /\ held' = held \cup ({<<h, NextStep(h)>>} \ {<<h, step>> : step \in Transient})
    /\ UNCHANGED <<options, context, impls, strings, listeners, dangling>>

\* What each create function gives back when a step fails.  The name of a
\* publisher or subscription is not among it.
\* Mutant of Abandoned: the namespace is left out of the clean-up.
AbandonedButNamespace(kind) ==
    IF kind \in {"publisher", "subscription"}
    THEN {"handle"} \cup ImplOf(kind)
    ELSE Pieces(kind) \ {"namespace"}

Abandoned(kind) ==
    IF kind \in {"publisher", "subscription"}
    THEN {"handle"} \cup ImplOf(kind)
    ELSE Pieces(kind)

Gone(h) == [Unused EXCEPT !.kind = handle[h].kind, !.phase = "gone", !.impl = handle[h].impl]

\* Where they fail: the handle is null, nothing else happens.
Refused(h) ==
    /\ handle[h].phase = "creating" /\ NextStep(h) # "trigger_id"
    /\ handle' = [handle EXCEPT ![h] = Gone(h)]
    /\ held' = held \ {<<h, piece>> : piece \in Abandoned(handle[h].kind)}
    /\ UNCHANGED <<options, context, impls, strings, listeners, dangling>>

(***************************************************************************)
(* Names of iceoryx2 instances, by segments, and the listing of nodes      *)
(***************************************************************************)

context_name(i) == <<"ros2:", "context", impls[i].id>>
node_name(h) == context_name(handle[h].impl) \o <<"nodes">> \o handle[h].ns \o <<"name">>

Marks(name) == {k \in DOMAIN name : name[k] = "nodes"}
NodeName(name, mark) ==
    {[ns |-> SubSeq(name, mark + 1, Len(name) - 1), name |-> name[Len(name)]]}

HasPrefix(name) == Len(name) >= 2 /\ name[1] = "ros2:" /\ name[2] = "context"

\* What another program names like a node would be one.
ASSUME ForeignInstancesAssumption == \A name \in ForeignInstances : ~HasPrefix(name)

\* Mutant of parse_name: the last "nodes" of the name is looked for.
ParseFromLastNodes(name) ==
    UNION {NodeName(name, k) :
           k \in {m \in Marks(name) : HasPrefix(name) /\ \A j \in Marks(name) : j <= m}}

\* No node name for the instance of a context or of another program.
parse_name(name) ==
    UNION {NodeName(name, k) :
           k \in {m \in Marks(name) : HasPrefix(name) /\ \A j \in Marks(name) : m <= j}}

\* rmw_get_node_names: every instance that is alive in this or another process.
collect_node_names ==
    LET instances == {node_name(h) : h \in {g \in Handles : <<g, "ipc_node">> \in held}}
                        \cup {context_name(i) : i \in {k \in 1 .. Len(impls) : ImplAlive(k)}}
                        \cup ForeignInstances
    IN  UNION {parse_name(name) : name \in instances}

(***************************************************************************)
(* Use and destruction                                                     *)
(***************************************************************************)

\* A new handle onto the guard condition inside the node, on every call.
rmw_node_get_graph_guard_condition(n) ==
    /\ LiveNode(n) /\ IsInitialized(handle[n].context)
    /\ held' = held \cup {<<n, "graph_handle">>}
    /\ UNCHANGED <<options, context, impls, strings, handle, listeners, dangling>>

\* names::guard_condition and names::topic (the application has one topic).
ServiceName(h) ==
    IF HasGuardCondition(handle[h].kind)
    THEN <<"guard_condition", impls[handle[h].impl].id, handle[h].id>>
    ELSE <<"topic">>

\* rmw_wait maps an entity: a listener that is not stored yet is created on
\* m_context, a reference; it is stored if nothing fails.
get_storage_index(w, h) ==
    /\ LiveWaitSet(w) /\ Live(h)
    /\ HasGuardCondition(handle[h].kind) \/ handle[h].kind = "subscription"
    /\ ServiceName(h) \notin listeners[w]
    /\ Reaches(w, handle[w].impl)
    /\ \/ listeners' = [listeners EXCEPT ![w] = @ \cup {ServiceName(h)}]
       \/ UNCHANGED listeners
    /\ UNCHANGED <<options, context, impls, strings, handle, held>>

Destroy(h, pieces) ==
    /\ Live(h)
    /\ handle' = [handle EXCEPT ![h] = Gone(h)]
    /\ held' = held \ {<<h, piece>> : piece \in pieces}
    /\ listeners' = [listeners EXCEPT ![h] = {}]
    /\ UNCHANGED <<options, context, impls, strings, dangling>>

rmw_destroy_node(h) ==
    /\ LiveNode(h)
    /\ \A e \in Handles : handle[e].node = h => handle[e].phase = "gone"
    /\ Destroy(h, Pieces("node"))

rmw_destroy_guard_condition(h) ==
    /\ handle[h].kind = "guard_condition"
    /\ Destroy(h, Pieces("guard_condition"))

\* The handle itself stays.
rmw_destroy_wait_set(h) ==
    /\ handle[h].kind = "wait_set"
    /\ Destroy(h, ImplOf("wait_set"))

\* The topic name stays.
rmw_destroy_publisher(h) ==
    /\ handle[h].kind = "publisher"
    /\ Destroy(h, {"handle"} \cup ImplOf("publisher"))

rmw_destroy_subscription(h) ==
    /\ handle[h].kind = "subscription"
    /\ Destroy(h, {"handle"} \cup ImplOf("subscription"))

rmw_destroy_client(h) ==
    /\ handle[h].kind = "client"
    /\ Destroy(h, Pieces("client"))

rmw_destroy_service(h) ==
    /\ handle[h].kind = "service"
    /\ Destroy(h, Pieces("service"))

ContextCall(h) ==
    \E c \in Contexts :
        \/ \E ns \in Namespaces : rmw_create_node(h, c, ns)
        \/ rmw_create_guard_condition(h, c) \/ rmw_create_wait_set(h, c)

NodeCall(h, n) ==
    \/ rmw_create_publisher(h, n) \/ rmw_create_subscription(h, n)
    \/ rmw_create_client(h, n) \/ rmw_create_service(h, n)

DestroyCall(h) ==
    \/ rmw_destroy_node(h) \/ rmw_destroy_guard_condition(h) \/ rmw_destroy_wait_set(h)
    \/ rmw_destroy_publisher(h) \/ rmw_destroy_subscription(h)
    \/ rmw_destroy_client(h) \/ rmw_destroy_service(h)

Next ==
    \/ \E o \in Options :
          \/ rmw_init_options_init(o) \/ rmw_init_options_fini(o)
          \/ \E dst \in Options : rmw_init_options_copy(o, dst)
          \/ \E c \in Contexts, instance \in InstanceIds : rmw_init(o, c, instance)
    \/ \E c \in Contexts : rmw_shutdown(c) \/ rmw_context_fini(c)
    \/ \E h \in Handles :
          \/ ContextCall(h)
          \/ \E n \in Handles : NodeCall(h, n) \/ get_storage_index(n, h)
          \/ generate_guard_condition_id(h) \/ Acquire(h) \/ Refused(h)
          \/ rmw_node_get_graph_guard_condition(h)
          \/ DestroyCall(h)

Spec == Init /\ [][Next]_vars

(***************************************************************************)
(* Properties                                                              *)
(***************************************************************************)

Phases == {"unused", "creating", "live", "gone"}
Strings == 0 .. strings

\* The variables have the types of the structs and members they stand for.
TypeOK ==
    /\ options \in [Options -> [identifier : BOOLEAN, enclave : Strings]]
    /\ context \in [Contexts -> [identifier : BOOLEAN, impl : 0 .. Len(impls)]]
    /\ impls \in Seq([id : InstanceIds, counter : Nat])
    /\ strings \in 0 .. MaxStrings
    /\ handle \in [Handles -> [kind : Kinds \cup {"none"}, phase : Phases,
                               node : Handles \cup {NoHandle}, context : Contexts \cup {Null},
                               impl : 0 .. Len(impls), step : 0 .. 9, id : 0 .. (IdSpace - 1),
                               ns : Namespaces \cup {<<>>}]]
    /\ dangling \subseteq Handles

\* What stays behind for good: the topic name of a publisher or subscription,
\* the handle of a wait set, the handles onto a node's graph guard condition.
Leaked(kind) ==
    CASE kind \in {"publisher", "subscription"} -> {"name"}
      [] kind = "wait_set" -> {"handle"}
      [] kind = "node" -> {"graph_handle"}
      [] OTHER -> {}

HeldBy(h) == {piece \in Pieces(handle[h].kind) \cup {"graph_handle"} : <<h, piece>> \in held}

\* A live handle has all its pieces, whoever else was created, refused or
\* destroyed meanwhile; once it is destroyed, or its creation has failed at any
\* step, only the known leaks of the create and destroy functions remain.
PiecesAccounted ==
    \A h \in Handles :
        /\ Live(h) => Pieces(handle[h].kind) \subseteq HeldBy(h)
        /\ handle[h].phase = "gone" => HeldBy(h) \subseteq Leaked(handle[h].kind)

\* Every context implementation alive belongs to exactly one rmw_context_t, and
\* none is lost by failed or repeated calls of rmw_init, rmw_shutdown and
\* rmw_context_fini.
ImplsOwned ==
    /\ {i \in 1 .. Len(impls) : ImplAlive(i)} = {context[c].impl : c \in Contexts} \ {Null}
    /\ \A c, d \in Contexts : context[c].impl = context[d].impl /\ IsInitialized(c) => c = d

\* Copies of init options share one enclave string (rmw_init_options_copy is
\* shallow): none is left pointing to freed memory when another is finalized.
EnclavesAlive ==
    \A o \in Options : StringPiece(options[o].enclave) \subseteq held

\* The guard conditions with an id, in a node or on their own.
Identified ==
    {h \in Handles : /\ HasGuardCondition(handle[h].kind) /\ handle[h].phase # "gone"
                     /\ <<h, "notifier">> \in held}

\* No two guard conditions are notified through the same event service, unless
\* they belong to contexts initialised with the same instance id, or the counter
\* of their context has wrapped.
ServicesDistinct ==
    \A g, h \in Identified :
        (g # h /\ ServiceName(g) = ServiceName(h))
            => \/ handle[g].impl # handle[h].impl
               \/ impls[handle[g].impl].counter > IdSpace

\* Every node alive is listed with its namespace and name, also where the
\* namespace looks like a part of the prefix, and what is listed belongs to a
\* node alive or being created.
NodesListed ==
    LET namespaces(phases) == {handle[h].ns : h \in {g \in Handles :
            handle[g].kind = "node" /\ handle[g].phase \in phases}}
    IN  /\ namespaces({"live"}) \subseteq {n.ns : n \in collect_node_names}
        /\ {n.ns : n \in collect_node_names} \subseteq namespaces({"live", "creating"})
        /\ \A n \in collect_node_names : n.name = "name"

\* The only calls that reach a destroyed context are those of a wait set that
\* has outlived it: creation is refused once the context is shut down, and
\* destruction does not need it.
OnlyWaitSetsDangle ==
    \A h \in dangling : handle[h].kind = "wait_set" /\ ~ImplAlive(handle[h].impl)

\* The context outlives the wait sets bound to it, as far as rmw_wait uses it.
ContextOutlivesWaitSets == dangling = {}
===============================================================================
