# A TLA+ verification of rmw_iceoryx2

rmw_iceoryx2 implements the ROS 2 middleware interface (rmw) on top of iceoryx2,
a shared-memory communication library. This directory holds TLA+ models of its
core, the TLC configurations that check them, and TLAPS proofs about them.
Paths below are relative to `rmw_iceoryx2_cxx/`.

## The system

| component | state it keeps | operations | what makes it correct |
|---|---|---|---|
| wait set (`src/impl/runtime/waitset.cpp`, `src/rmw/waitset.cpp`) | listener storage (only grows), `m_mapping` (staged listeners), the context of one wait call | `rmw_wait`: map, wait, dispatch, unmap, rewrite the arrays | no notification lost or made up; entries reported at their own positions; returns when it should |
| publisher, subscription (`src/impl/runtime/{publisher,subscriber}.cpp`, `src/rmw/{publisher,subscription}.cpp`) | a sample registry each, an iceoryx2 port, a notifier | publish by copy, serialized, on loan; borrow and return; take by copy, deserialized, serialized, on loan | messages whole and in order; loaned memory owned by one side at a time; nothing leaked |
| sample registry (`include/.../sample_registry.hpp`) | samples by payload address | store, retrieve, release | a sample is released once |
| guard condition | a notifier on a local event service | trigger | reaches every wait set listening |
| context, node | iceoryx2 nodes, id counter | init, shutdown, create, destroy | outlive what refers to them |
| graph, names | none (reads iceoryx2's registry) | list, count | only topic services, consistent service settings |
| introspection, serialization | none | `is_pod`, sizes, CDR conversion | `is_pod` exactly for self-contained types |
| clients, services, events, qos, logging, feature, gid | handles or none | stubs | - |

They interact through iceoryx2. A publisher sends a sample and then notifies the
event service of the topic; a guard condition notifies an event service of its
own. A wait set has one listener per service, created when an entity of the
service is first mapped. After a wakeup the executor takes messages from the
subscriptions. Publishers, guard conditions and wait sets run in different
threads and processes and share no lock.

What is hard here: notifications racing with the drain and the timeout of a wait
set; state that outlives a failed call; calls of several steps of which one
fails; memory that changes hands between publisher, application, buffers,
history and subscriber; limits of iceoryx2 that a leak uses up. `PROJECT.json`
lists these hazards at their lines.

## Modules

| module | models | used by |
|---|---|---|
| `Wakeups` | abstract: what `rmw_wait` promises its caller | `WaitSet` (refinement) |
| `WaitSet` | one wait set, `rmw_wait` step by step, and the notifying threads | `MCWaitSet`, `WaitSetProofs` |
| `PubSub` | the publishers, subscribers and payload memory of a topic | `MCPubSub`, `Spin`, `PubSubProofs` |
| `Spin` | `PubSub` and `Wakeups` composed with an executor | `MCSpin`, `SpinProofs` |
| `Lifecycle` | options, contexts and handles: creation, clean-up, destruction, shutdown | `MCLifecycle`, `LifecycleProofs` |
| `Introspection` | message types and `is_pod` | `Topics` |
| `Topics` | the services of topics: opening, counting, listing, encoding | `MCTopics`, `TopicsProofs` |
| `WaitSetProofs` | theorems about `WaitSet` | |
| `PubSubProofs` | theorems about `PubSub` | `SpinProofs` |
| `SpinProofs` | theorems about `Spin` | |
| `TopicsProofs` | theorems about `Topics` | |
| `LifecycleProofs` | theorems about `Lifecycle` | |
| `MCWaitSet`, `MCPubSub`, `MCSpin`, `MCLifecycle`, `MCTopics` | instances for TLC | |

### WaitSet

`storage` is the two listener vectors (the service name of each entry; indices
start at 1), `mapping` is `m_mapping`, `array` the in-out arrays of guard
conditions and subscriptions, `events` the attachments for which `on_event` is
still to be called, `result` is `ctx.result`, and `pending` is the set of
listeners that hold notifications. `pc` says where the call is. `owed` and
`tainted` are history variables: the services notified and not yet reported, and
whether a call has run with a mapping that a failed call left behind.

`RmwWait` checks the arguments; `Map` is one turn of a mapping loop (find or
create the listener, map it unless it is mapped); `MapDone` ends a loop;
`WaitNoop`, `WaitForever`, `Attach` are the beginning of `WaitSet::wait`;
`WakeUp` and `TimeoutExpires` are iceoryx2's run, which calls `OnTimeout`
(`Stop`) and `OnTrigger` (drain, remember); `RmwWaitReturns` unmaps everything
and rewrites the arrays. `MapFails`, `AttachFails`, `RunFails`, `OnTriggerFails`
and `Interrupted` are the failures, enabled by the constant `Faults`. `Notify`
may happen between any two of these steps.

The order of `m_mapping` and of `ctx.result` decides nothing and is left out. Of
a listener only whether it holds notifications is kept: `process_trigger` drains
all of them. Whether the timer or a listener is dispatched first is open, and a
failed drain may or may not have consumed the notifications: iceoryx2 promises
neither. The event, service and client arrays are always set to null and are
left out.

### PubSub

`registry` is the `SampleRegistry` of each endpoint as a set of addresses,
`lent` the addresses the application holds, `buffer` and `history` the queues of
iceoryx2, `content` what is written at each address, `notifying` the publishers
between send and notify, `got` the last message taken (history).
Each rmw function is an action; a publish is two, since a subscriber may take
the message before it is notified. iceoryx2 is external and modelled as used:
memory is reused when neither a registry nor a buffer nor a history refers to
it, full queues drop their oldest element, loans and borrowed samples are
limited. A message is its publisher, its number and the format of its payload:
raw, or cdr when serialized. `can_loan` is the answer of `is_pod` for the type of
the topic, either one, settled when the endpoints are created;
`SerializedOnly` is the use that the warnings at `src/rmw/publisher.cpp:312` and
`src/rmw/subscription.cpp:335` allow. The application writes only to memory it
has borrowed and not given up, but may pass any address to the return and
publish functions. `rmw_publish_loaned_message` does not ask whether the type can
be loaned; where it cannot, nobody has the address of a sample in the registry,
and the call can only fail.

### Spin

`Spin` extends `PubSub` with an instance of `Wakeups`, whose sources are the
subscriptions: the second half of a publish (`Announce`) notifies the listeners,
`FirstWait` is the call that creates a listener, `WaitReturns` the report of a
subscription, and the `Executor...` actions take from a reported one. `silent`
(history) holds the subscriptions with a message that no listener was told of,
because notifying failed or the listener was not there yet. The executor is
external and takes until nothing is left. An executor that takes one message per
report, as those of rclcpp do, relies on more than `rmw_wait` gives:
notifications that come together are drained together and reported once, so
the other messages wait in the buffer for the next publish.

### Lifecycle

`options` and `context` are the structs of the application, `impls` the context
implementations ever constructed with their guard condition counters, `handle`
the handles, `held` every piece of memory and every iceoryx2 entity acquired and
not given back, `listeners` what a wait set has stored, `dangling` (history) the
handles whose use reached a destroyed context.

The functions of `src/rmw/init.cpp` are an action each. Creating a handle is
`rmw_create_...` (the checks), then one `Acquire` per step of `Steps(kind)` in
the code's order, `generate_guard_condition_id` where the constructor asks the
context for an id, and `Refused` when a step fails, with the clean-up of the
create function. Threads create different handles at once. Each
`rmw_destroy_...` gives back what the code gives back. `get_storage_index` is the
part of `rmw_wait` that uses the context. `node_name`, `parse_name` and
`collect_node_names` are the names of iceoryx2 nodes and the listing of ROS nodes,
among which are the iceoryx2 nodes of other programs (`ForeignInstances`).

Left out: the copy of the enclave that `rmw_init` makes (nothing reads or frees
it), and what the allocation functions of rmw (external) leave in the fields of
a handle not filled yet, taken to be zero since the clean-up reads them.

Known leaks, stated by `Leaked`: the topic name of a publisher or subscription,
the handle of a wait set, and the handles that
`rmw_node_get_graph_guard_condition` creates on each call. Another is the enclave
string of the init options: `rmw_init_options_fini` (`src/rmw/init.cpp:64`) only
zeroes the struct. `EnclavesAlive` says that no options struct has a string that
was freed; since copies share it, freeing it there would need a count of them. A `rmw_init` that
fails leaves the context's identifier set; it has to be finalized before another
attempt.

### Topics and Introspection

`Introspection` describes a type as a sequence of members and gives `is_pod`
with its helpers, and independently `SelfContained`: no member at any depth holds
a pointer.

In `Topics`, `users` says who has a service open (a service exists while somebody
has), `settings` the settings of its creator, `endpoint` the publishers and
subscriptions, `counting` the threads in `rmw_count_publishers` or
`rmw_count_subscribers`, `listing` a call of `rmw_get_topic_names_and_types`, and
`wire` the encodings of messages on a topic. `Publisher` and `Subscriber` open
the service, `CreatePort` creates the port, and `CreateNotifier` the event service
and the notifier of a publisher, whose failure drops the port again; counting opens the service with the
defaults and drops it in a second step; the listing visits services one by one
while they come and go, and may fail at any point. `publish` and `take` choose the
encoding by what each endpoint decided at its creation. Endpoints with a C type
support can neither copy nor serialize, so their `rmw_publish` and `rmw_take`
fail. `publish_serialized` and `take_serialized` need no type support and work for
them too; the model uses them where the warnings in the source
(`src/rmw/publisher.cpp:312`, `src/rmw/subscription.cpp:335`) allow it on any
topic: where `rmw_publish` serializes as well.

The services of other programs have names that are no topic names
(`ForeignNames`): without the prefix, or the prefix alone, for which
`parse_topic_name` has a case of its own. That a listing does not check the result
of parsing is the action's `crashed` phase. The event services of topics, which
have the topics' names, are left out: the predicate of the listing passes over
them.

The model shows, without a run of its own, that counting the endpoints of a topic
nobody uses makes it exist for a moment, and a listing at that moment contains it.

## Runs

| run | checks | result |
|---|---|---|
| `waitset` | `TypeOK`, `MappingAttachable`, `NoLostWakeup`, `OkReportsOnlyNotified` with all failures | hold |
| `waitset_returns` | `FailsOnlyIfEndless`, `WaitReturns`, `WakeupReported`, and `KeepsWakeups`: `WaitSet` implements `Wakeups`; failing drains and signals | hold |
| `waitset_stale` | `EachCallOwnMappings` | violated: a failed call leaves its mapping to the next |
| `waitset_same_topic` | `AllTriggeredReturned` | violated: of two subscriptions of a topic one is reported |
| `loans` | `TypeOK`, `BuffersInOrder`, `LoansExclusive`, `NoLeakedLoans`, `PayloadStable`; one publisher, self-contained type (loans and copies) or type to be serialized, all failures | hold |
| `stuck` | `BuffersDrained` when deserializing may fail | violated: each failure leaves a borrowed sample in the registry, until every receive fails |
| `spin` | `Announced`, `MessagesTaken`, and with two publishers `BuffersInOrder`, `LoansExclusive`; both kinds of type, failing publishes, notifications and receives | hold |
| `lifecycle` | `TypeOK`, `PiecesAccounted`, `ImplsOwned`, `EnclavesAlive`, `ServicesDistinct`, `NodesListed`, `OnlyWaitSetsDangle`; every step of a creation may fail | hold |
| `shutdown` | `ContextOutlivesWaitSets` | violated: `rmw_shutdown` destroys the context a wait set refers to, and the next `rmw_wait` with a new entity uses it |
| `topics` | `TypeOK`, `PortsConfigured`, `ListingExact`, `MessagesIntact`, `RefusedOnlyWhileCounting` | hold |
| `wide_strings` | `MessagesIntact` for types with wide strings | violated: `is_dynamic_string` does not know them, so pointers are copied to other processes |
| `foreign_services` | `ListingSurvives` with a publish-subscribe service of another iceoryx2 program | violated: its name is no topic name, and the empty result of the parser is dereferenced |

The violated properties state what a comment, a test or the README of the
repository says; `PROJECT.json` quotes the lines under `findings`. Four more
behaviours of the same kind show in the models without a run of their own: each
error of `rmw_serialize` leaves the loan it was to fill in the registry of the
publisher, with nobody to give it back, until no more loans are allowed and every
`rmw_publish` fails (`PublishSerialized`; the counterpart of run `stuck`); a
publish whose notification fails returns an error although the
message has been sent (`PublishNotifies`); a call without timeout returns
`RMW_RET_TIMEOUT` if draining the only triggered listener fails
(`OnTriggerFails`); and a call that timed out or was ended by a signal leaves its
arrays as they were, with no entry null (`RmwWaitReturns`), so that only
`RMW_RET_OK` tells a caller anything about the entries.

Every property of a passing run has a mutant: a variant of one definition with
a plausible bug (`MapWithoutLookup`, `TimeoutDrains`, `ReleaseKeeps`, ...),
written before the definition it replaces, under which TLC finds the property
violated.

### Bounds

Wait set: two guard conditions, two subscriptions of one topic and one of
another; `MCWaitSet` lists the calls: arrays of different lengths and orders,
entries sharing a listener, a null entry, empty arrays, each kind of timeout.
The number of calls and of notifications is not bounded: all variables range
over finite sets. Two calls with different arrays are enough for a stale mapping
to meet another array, three entries for a dispatch to be stopped in the middle.

Publish-subscribe: `MaxMessages` is 3, more
than the buffer of 2 holds, so that it overflows; the code uses 10 for buffer and
history. The history is 1. Limits of 1 or 2 loans and borrowed samples are reached.
There are as many chunks as `ChunksAssumption` asks for and no more, so that
memory is reused. Chunks are interchangeable (symmetry), except in the liveness
runs.

Spin: two publishers, one subscription, one message each, a limit of one borrowed
sample: the second message may be sent before, while or after the first is
notified, reported or taken. There is no history. Deserializing and resizing do
not fail here, since that alone stops a subscription (run `stuck`).

Lifecycle: three handles of any kinds (a node with two entities, two nodes and a
wait set, and so on), a context that can be initialised twice, two copies of the
options with one enclave. There are two ids, so that the counter wraps, and the
namespace of nodes contains the segment `nodes` that `parse_name` looks for, as
does the name of another program's iceoryx2 node.

Topics: one topic with a type that has, two levels down, only plain members, a
bounded or unbounded sequence or a string, or that has a bounded sequence itself;
two endpoints for one place (`MaxPorts`); two
counting threads; one name of another program for services of both patterns: in
run `topics` the bare prefix of topic names, else a name without it.
Services are independent of each other, so one topic is enough.

Deadlock is checked except where a behaviour ends at a bound: when all messages
are published and taken (`Spin`) or all handles are used up (`Lifecycle`).

### Fairness

`WaitSet`: the thread in `rmw_wait` is scheduled and expired timers fire (weak
fairness of the call's steps, failures excluded), and the executor calls again.
Nothing is assumed of notifying threads: `WaitReturns` says that a call without
timeout returns if there is a notification. `WakeupReported` speaks of
callers that wait for the entity again and again, and of executions in which
failures and signals come to an end: a signal before each dispatch would
otherwise end every call. `PubSub`: a publish ends, and the
application of a subscription keeps taking and returns its loans. `Spin`: the same,
`rmw_wait` returns once notified (shown for `WaitSet` by `WaitReturns` and
`WakeupReported`), and the executor handles what has been reported. Nothing makes a
publisher publish or an executor wait for the first time.

## Proofs

Every invariant and every action property of a passing run is also a theorem,
for all values of the constants that satisfy the named assumptions of the
modules, and so are the refinements. The inductive invariants were model-checked
on the instances of the runs before they were proved.

| module | theorem | property |
|---|---|---|
| `WaitSetProofs` | `TypeCorrect`, `AlwaysAttachable`, `WakeupsKept`, `OkReportsNotified` | `TypeOK`, `MappingAttachable`, `NoLostWakeup`, `OkReportsOnlyNotified` |
| | `OnlyEndlessFails` | `FailsOnlyIfEndless` |
| | `Refinement` | `KeepsWakeups`: `WaitSet` implements `Wakeups`, if no call can fail with entries mapped (`NoFailingCalls`) |
| `PubSubProofs` | `TypeCorrect`, `LoansAreExclusive`, `BuffersAreInOrder` | `TypeOK`, `LoansExclusive`, `BuffersInOrder` |
| | `PayloadsAreStable` | `PayloadStable`, an action property |
| | `NoLoanLeaks` | `NoLeakedLoans`, which excludes failing conversions |
| `SpinProofs` | `SpinImplementsPubSub`, `SpinImplementsWakeups` | the composition implements `PubSub` and `Wakeups` |
| | `NothingUnannounced` | `Announced` |
| `TopicsProofs` | `TypeCorrect`, `PortsAreConfigured`, `ListingIsExact` | `TypeOK`, `PortsConfigured`, `ListingExact` |
| | `RefusalsNeedCounting` | `RefusedOnlyWhileCounting`, an action property |
| | `MessagesAreIntact` | `MessagesIntact`, if types that are copied hold no pointers (`CopiedTypesSelfContained`) |
| `LifecycleProofs` | `TypeCorrect`, `ImplsAreOwned`, `EnclavesStayAlive`, `WaitSetsAloneDangle` | `TypeOK`, `ImplsOwned`, `EnclavesAlive`, `OnlyWaitSetsDangle` |
| | `PiecesAreAccounted`, `ServicesAreDistinct`, `NodesAreListed` | `PiecesAccounted`, `ServicesDistinct`, `NodesListed` |

### WaitSetProofs

The assumptions are those of `WaitSet`: null is no waitable, each waitable has a
service name, calls are arrays of waitables or null with one of the timeouts.

The inductive invariant is `IndInv`. `NoLostWakeup` is not inductive: that a
drained listener is in `result` and that `result` is reported in full needs
`MappingSound` (each mapping names an entry and the listener of the same
service), `EventsSound` (events are raised for listeners that hold
notifications, once each) and `ResultSound` (no results before the dispatch, so
error returns discard none). `MappingAttachable` needs that the storage never
holds two listeners of a service. Lemma `ReportedAreResults` says that what the
caller reads off the arrays is what was dispatched, unless a stale mapping was
used.

The refinement maps the abstract debt to what the listeners and the call in
progress hold (`Outstanding`), not to the history variable; lemma
`OutstandingIsOwed` shows that both agree. `OnlyEndlessFails` adds the invariant
`NothingPassedOver`: while nothing is mapped the loops have met no entry.

### PubSubProofs and SpinProofs

Assumed are disjoint publishers and subscribers and limits that are natural
numbers; the proofs need neither a bound on messages nor the size of the data
segment (`ChunksAssumption`), which only says when a loan succeeds.

`LoansExclusive` and `BuffersInOrder` depend on each other: a payload keeps its
place in the order only because nobody can write to it, and it may be written
because it is in no buffer. Two parts are added to them. `LentStored` says that
the application holds what is stored, so that an address it fills or publishes is
in the registry of that publisher only; it distinguishes whether loans are in use,
since a failed conversion leaves in a registry what nobody was lent. `TakenSent`
says that nothing was taken that was not sent, so that the next message is newer
than what each subscriber has. `OrderedAfterPush` and `OrderedAfterTake` are the
lemmas about one queue, whether it overflows or not.

`PayloadStable` follows from `WritesOnlyInvisible`: in a state of the invariant no
step writes to memory that a subscriber can read. `NoLeakedLoans` excepts topics
whose messages are converted while serializing, deserializing or resizing may
fail, each of which leaves its sample in a registry (run `stuck` shows where that
leads). For the other topics it is either part of `LentStored` (loans in use), or
needs that the registries are empty between calls (`RegistriesEmpty`).

`Spin` is shown to implement both of its components; the first refinement carries
the invariant of `PubSub` over, so its theorems hold of the composition as well.
`Announced` is inductive together with it: only a publish fills a buffer, and it
leaves the publisher in `notifying`; only the executor that was told of a
subscription takes from it.

### TopicsProofs

Assumed is that endpoints, counting threads and the other programs are different
users, that the placeholder `none` is no topic, that topics have a name, and that
other programs do not name a service like a topic (`ForeignNamesAssumption`).

`PortsConfigured` and `RefusedOnlyWhileCounting` rest on who has a service open: an
endpoint or counting thread is a user of its topic's service (`HoldersListed`)
and a topic's service has no other users (`UsersHold`). So a service that an
endpoint is on exists, with its settings, whatever others drop; and one whose
settings an endpoint cannot use has only counting threads as users. The listing
needs `ListingProgress` (what exists while topics are listed is in the record of
what existed, and each topic visited has been found) and `FoundExisted`.

`MessagesIntact` has its own invariant: nothing on the wire says how a message is
encoded, and the ends agree because each derives it from the type alone
(`LoansByType`, `OneEncoding`), and the serialized calls are used only where it is
serialized. Its hypothesis is that `is_pod` accepts no type
with pointers. That is false for wide strings (run `wide_strings`). It is true of
the types of run `topics`: otherwise TLC would have found `MessagesIntact`
violated there, as it does for the mutant that takes a bounded sequence for an
array.

### LifecycleProofs

Assumed is that `Kinds` are kinds of rmw, that handles are told apart from the
numbers of context implementations, that namespaces are sequences of strings and
that instance ids are strings other than `nodes`: they are decimal numbers
(`src/rmw/init.cpp`), and `parse_name` looks for the first segment `nodes` after
the prefix. Other programs' iceoryx2 nodes do not have that prefix
(`ForeignInstancesAssumption`).

`PiecesAccounted` speaks of live and destroyed handles only; to be inductive it
needs the account at every point of a creation (`PiecesExact`: a handle has what
the steps so far have acquired), for which `StepFacts` sums up the steps of all
seven kinds. `OnlyWaitSetsDangle` needs that a guard condition or node is created
on a context that stays initialised until it is done, since its constructor asks
the context for an id (`CreatingOnContext`, `ImplsOwned`). `ServicesDistinct`
needs that the ids of a context are below its counter and differ, until the
counter has wrapped (`IdsDistinct`). For `NodesListed`, lemma `ParseNode` shows
that `parse_name` gives back namespace and name for every namespace, also one that
contains the segment `nodes`; `ParseContext` and `ParseForeign` show that it finds
nothing in the other names.

### Only model-checked

- Liveness: `WaitReturns`, `WakeupReported`, `BuffersDrained`, `MessagesTaken`. The
  prover handles neither fairness nor `ENABLED`.
- What `is_pod` computes for every type without wide strings, hence the hypothesis
  of `MessagesAreIntact`: that needs induction over types.
- The properties of the runs that end in a violation, which are false.

## The plan: further proofs

1. A weaker hypothesis for `Refinement`: after a failed call, `WaitSet` may report
   an entry at the position of another; what it still promises then.
2. How many loans a failed conversion can leave in a registry, which bounds the
   time to the state that run `stuck` shows.
3. Counting: how far the leaks of `Leaked` add up over a long run.

## Not modelled

- The stubs: constant answers of the client, service, event, quality-of-service,
  feature, logging, content-filter and take-sequence entry points.
- Gid comparison, logging, the texts of errors.
- Sizes: the slice length of a publisher is the size of the C++ struct, and what
  happens to a longer serialized message is decided inside iceoryx2; it is the
  `loan` failure of `PubSub`. A subscription copies as many bytes as were
  published; every topic of the model has one type.
- Failures of allocation while result arrays of a listing are filled: they leave
  the arrays partly filled to the caller and touch no other state.
- Two threads in calls on one endpoint: rmw does not promise this, and the
  registry has no lock.
- The encoding of Fast CDR and the inside of iceoryx2: external.
- Demo nodes and benchmarks.
