------------------------------- MODULE WaitSet -------------------------------
(***************************************************************************)
(* rmw_wait on one wait set: the listener storage and the mapping that     *)
(* class WaitSet keeps between calls, the steps of one rmw_wait call, and  *)
(* the threads that notify event services meanwhile (a triggered guard     *)
(* condition, a published message).                                        *)
(*                                                                         *)
(* A wait set owns one iceoryx2 listener per kind of waitable and service  *)
(* name.  A listener is identified by <<kind, index>>, its place in        *)
(* m_guard_condition_listeners or m_subscriber_listeners.  Indices are     *)
(* 1-based here and 0-based in the code.                                   *)
(***************************************************************************)
EXTENDS Naturals, Sequences

CONSTANTS
    GuardConditions,  \* the guard conditions a caller may wait on
    Subscribers,      \* the subscriptions a caller may wait on
    ServiceName,      \* the event service each of them is notified through
    Calls,            \* the argument tuples rmw_wait is called with
    Faults,           \* the iceoryx2 calls that may fail
    Null              \* nullptr

GUARD_CONDITION == "GUARD_CONDITION"
SUBSCRIBER == "SUBSCRIBER"
WaitableEntity == {GUARD_CONDITION, SUBSCRIBER}

Waitables == GuardConditions \cup Subscribers
Services == {ServiceName[w] : w \in Waitables}

\* The optional wait_timeout: absent, zero or positive.
Timeouts == {"none", "zero", "finite"}

\* The external calls that can fail: creating the event service or listener,
\* attaching to the iceoryx2 waitset, running it, draining a listener; and a
\* run that a signal cuts short.
FaultKinds == {"create", "attach", "run", "drain", "interrupt"}

\* One of the in-out pointer arrays of rmw_wait per kind.
Arrays == [WaitableEntity -> Seq(Waitables \cup {Null})]

ASSUME WaitablesAssumption ==
    /\ Null \notin Waitables
    /\ DOMAIN ServiceName = Waitables

ASSUME FaultsAssumption == Faults \subseteq FaultKinds

ASSUME CallsAssumption == Calls \subseteq [array : Arrays, timeout : Timeouts]

VARIABLES
    storage,   \* the service names of the stored listeners, per kind
    mapping,   \* m_mapping, as a set: no code depends on its order
    pending,   \* the listeners holding notifications not yet drained
    pc,        \* where the call in progress is; "idle" between calls
    index,     \* the loop index of the mapping loops
    array,     \* the in-out arrays of the current or last call
    timeout,   \* its timeout
    events,    \* attachments on_event is still to be called for
    result,    \* ctx.result, as a set of mappings
    ret,       \* the last return code
    owed,      \* history: notified through a listener, not yet reported
    tainted    \* history: some call started with another call's mapping

waitVars == <<index, array, timeout, events, result, ret>>
vars == <<storage, mapping, pending, pc, index, array, timeout, events, result,
          ret, owed, tainted>>

\* The id of the interval that attach_timeout attaches.
TIMEOUT_ID == <<"TIMEOUT", 0>>
ListenerIds == WaitableEntity \X (Nat \ {0})
RmwMapping == [kind : WaitableEntity, storage_index : Nat \ {0}, rmw_index : Nat \ {0}]

Loop(kind) ==
    IF kind = GUARD_CONDITION THEN "map_guard_conditions" ELSE "map_subscriptions"
AfterLoop(kind) ==
    IF kind = GUARD_CONDITION THEN Loop(SUBSCRIBER) ELSE "wait"

Init ==
    /\ storage = [kind \in WaitableEntity |-> <<>>]
    /\ mapping = {}
    /\ pending = {}
    /\ pc = "idle"
    /\ index = 1
    /\ array = [kind \in WaitableEntity |-> <<>>]
    /\ timeout = "none"
    /\ events = {}
    /\ result = {}
    /\ ret = "NONE"
    /\ owed = {}
    /\ tainted = FALSE

(***************************************************************************)
(* Notifications                                                           *)
(***************************************************************************)

\* The notification of an event service reaches the listeners that exist.
Listening(kind, service) ==
    {<<kind, i>> : i \in {j \in DOMAIN storage[kind] : storage[kind][j] = service}}

\* GuardCondition::trigger, and the notification that ends Publisher::
\* publish_loan and publish_copy; from any thread, at any time.
Notify(kind, service) ==
    LET reached == Listening(kind, service)
    IN  /\ pending' = pending \cup reached
        /\ owed' = IF reached = {} THEN owed ELSE owed \cup {<<kind, service>>}
        /\ UNCHANGED <<storage, mapping, pc, tainted>>
        /\ UNCHANGED waitVars

TriggerGuardCondition(g) == Notify(GUARD_CONDITION, ServiceName[g])
NotifyTopic(s) == Notify(SUBSCRIBER, ServiceName[s])

(***************************************************************************)
(* rmw_wait: argument checks and the two mapping loops                     *)
(***************************************************************************)

HasNull(call) ==
    \E kind \in WaitableEntity :
        \E i \in DOMAIN call.array[kind] : call.array[kind][i] = Null

\* rmw_wait is entered; a null entry is rejected before anything is mapped.
RmwWait(call) ==
    /\ pc = "idle"
    /\ array' = call.array
    /\ timeout' = call.timeout
    /\ \/ /\ HasNull(call)
          /\ ret' = "INVALID_ARGUMENT"
          /\ UNCHANGED <<pc, tainted>>
       \/ /\ ~HasNull(call)
          /\ pc' = Loop(GUARD_CONDITION)
          /\ ret' = "NONE"
          /\ tainted' = (tainted \/ mapping # {})
    /\ index' = 1
    /\ result' = {}
    /\ events' = {}
    /\ UNCHANGED <<storage, mapping, pending, owed>>

\* Mutant of map_stored_listener: no look-up before push_back.
MapWithoutLookup(kind, storage_index, rmw_index) ==
    mapping' = mapping \cup {[kind |-> kind, storage_index |-> storage_index,
                              rmw_index |-> rmw_index]}

\* map_stored_listener: a listener that is mapped already is not mapped again.
map_stored_listener(kind, storage_index, rmw_index) ==
    mapping' =
        IF \E m \in mapping : m.kind = kind /\ m.storage_index = storage_index
        THEN mapping
        ELSE mapping \cup {[kind |-> kind, storage_index |-> storage_index,
                            rmw_index |-> rmw_index]}

\* The place at which get_storage_index finds or puts the listener.
IsStored(kind, service) == \E i \in DOMAIN storage[kind] : storage[kind][i] = service

\* Mutant of get_storage_index: a new listener's index is that of its predecessor.
StorageIndexTooSmall(kind, service) ==
    IF IsStored(kind, service)
    THEN CHOOSE i \in DOMAIN storage[kind] : storage[kind][i] = service
    ELSE Len(storage[kind])

get_storage_index(kind, service) ==
    IF IsStored(kind, service)
    THEN CHOOSE i \in DOMAIN storage[kind] : storage[kind][i] = service
    ELSE Len(storage[kind]) + 1

\* WaitSet::map for the entry at index, creating its listener if need be.
Map(kind) ==
    /\ pc = Loop(kind)
    /\ index \in DOMAIN array[kind]
    /\ LET service == ServiceName[array[kind][index]]
       IN  /\ map_stored_listener(kind, get_storage_index(kind, service), index)
           /\ storage' = IF IsStored(kind, service) THEN storage
                         ELSE [storage EXCEPT ![kind] = Append(@, service)]
    /\ index' = index + 1
    /\ UNCHANGED <<pending, pc, array, timeout, events, result, ret, owed, tainted>>

\* An error return: the arrays and m_mapping stay as they are.
ReturnError ==
    /\ pc' = "idle"
    /\ ret' = "ERROR"
    /\ UNCHANGED <<storage, mapping, pending, index, array, timeout, events, result,
                   owed, tainted>>

\* SERVICE_CREATION_FAILURE or LISTENER_CREATION_FAILURE of a new listener.
MapFails(kind) ==
    /\ "create" \in Faults
    /\ pc = Loop(kind)
    /\ index \in DOMAIN array[kind]
    /\ ~IsStored(kind, ServiceName[array[kind][index]])
    /\ ReturnError

MapDone(kind) ==
    /\ pc = Loop(kind)
    /\ index \notin DOMAIN array[kind]
    /\ pc' = AfterLoop(kind)
    /\ index' = 1
    /\ UNCHANGED <<storage, mapping, pending, array, timeout, events, result, ret,
                   owed, tainted>>

(***************************************************************************)
(* WaitSet::wait                                                           *)
(***************************************************************************)

IdOf(m) == <<m.kind, m.storage_index>>
NothingMapped == mapping = {}

\* attach_notification refuses a file descriptor that is attached already, and
\* get_stored_listener an index outside the storage.
Attachable ==
    /\ \A m, n \in mapping : IdOf(m) = IdOf(n) => m = n
    /\ \A m \in mapping : m.storage_index \in DOMAIN storage[m.kind]

\* Nothing is mapped and the timeout is zero: a no-op.
WaitNoop ==
    /\ pc = "wait" /\ NothingMapped /\ timeout = "zero"
    /\ pc' = "dispatch"
    /\ UNCHANGED <<storage, mapping, pending, owed, tainted>>
    /\ UNCHANGED waitVars

\* Mutant of WaitForever: the error is returned whatever the timeout.
NothingToWaitOn ==
    /\ pc = "wait" /\ NothingMapped
    /\ ReturnError

\* Nothing is mapped and there is no timeout: it would block forever.
WaitForever ==
    /\ pc = "wait" /\ NothingMapped /\ timeout = "none"
    /\ ReturnError

ToBeAttached == pc = "wait" /\ (~NothingMapped \/ timeout = "finite")

\* attach_timeout and attach_mapped_listeners succeed.
Attach ==
    /\ ToBeAttached /\ Attachable
    /\ pc' = "blocked"
    /\ UNCHANGED <<storage, mapping, pending, owed, tainted>>
    /\ UNCHANGED waitVars

AttachFails ==
    /\ ToBeAttached
    /\ "attach" \in Faults \/ ~Attachable
    /\ ReturnError

Ready == {IdOf(m) : m \in mapping} \cap pending

\* wait_and_process_once finds listeners to report: it calls on_event for each
\* of them, and for the timeout if that has expired too.
WakeUp ==
    /\ pc = "blocked"
    /\ Ready # {}
    /\ \/ events' = Ready
       \/ timeout # "none" /\ events' = Ready \cup {TIMEOUT_ID}
    /\ pc' = "dispatch"
    /\ UNCHANGED <<storage, mapping, pending, index, array, timeout, result, ret,
                   owed, tainted>>

\* Mutant of TimeoutExpires: a timeout of zero is taken for no timeout.
ZeroNeverExpires ==
    /\ pc = "blocked"
    /\ Ready = {} /\ timeout = "finite"
    /\ events' \in {{}, {TIMEOUT_ID}}
    /\ pc' = "dispatch"
    /\ UNCHANGED <<storage, mapping, pending, index, array, timeout, result, ret,
                   owed, tainted>>

\* The timeout expires and no listener is ready.  Both the attached interval
\* and the timeout of the run measure it; either may be the first to end it.
TimeoutExpires ==
    /\ pc = "blocked"
    /\ Ready = {} /\ timeout # "none"
    /\ events' \in {{}, {TIMEOUT_ID}}
    /\ pc' = "dispatch"
    /\ UNCHANGED <<storage, mapping, pending, index, array, timeout, result, ret,
                   owed, tainted>>

\* A signal ends the run, which is no error to the caller.
Interrupted ==
    /\ "interrupt" \in Faults
    /\ pc = "blocked"
    /\ pc' = "dispatch"
    /\ UNCHANGED <<storage, mapping, pending, owed, tainted>>
    /\ UNCHANGED waitVars

RunFails ==
    /\ "run" \in Faults
    /\ pc = "blocked"
    /\ ReturnError

\* Mutant of OnTimeout: the listeners not looked at are drained all the same.
TimeoutDrains ==
    /\ pc = "dispatch"
    /\ TIMEOUT_ID \in events
    /\ events' = {}
    /\ pending' = pending \ events
    /\ UNCHANGED <<storage, mapping, pc, index, array, timeout, result, ret, owed, tainted>>

\* on_event for the timeout: Stop, no further listener is looked at.
OnTimeout ==
    /\ pc = "dispatch"
    /\ TIMEOUT_ID \in events
    /\ events' = {}
    /\ UNCHANGED <<storage, mapping, pending, pc, index, array, timeout, result, ret,
                   owed, tainted>>

\* Mutant of OnTrigger: Stop instead of Continue after a trigger.
StopAfterTrigger(m) ==
    /\ pc = "dispatch"
    /\ m \in mapping /\ IdOf(m) \in events
    /\ events' = {}
    /\ pending' = pending \ {IdOf(m)}
    /\ result' = result \cup {m}
    /\ UNCHANGED <<storage, mapping, pc, index, array, timeout, ret, owed, tainted>>

\* on_event for a listener: process_trigger drains it, however often it was
\* notified, and the mapping joins the result.
OnTrigger(m) ==
    /\ pc = "dispatch"
    /\ m \in mapping /\ IdOf(m) \in events
    /\ events' = events \ {IdOf(m)}
    /\ pending' = pending \ {IdOf(m)}
    /\ result' = result \cup {m}
    /\ UNCHANGED <<storage, mapping, pc, index, array, timeout, ret, owed, tainted>>

\* try_wait_all fails: nothing is reported, on_event continues.  The failed
\* call may have consumed the notifications; these are then iceoryx2's loss.
OnTriggerFails(m) ==
    /\ "drain" \in Faults
    /\ pc = "dispatch"
    /\ m \in mapping /\ IdOf(m) \in events
    /\ events' = events \ {IdOf(m)}
    /\ \/ UNCHANGED <<pending, owed>>
       \/ /\ pending' = pending \ {IdOf(m)}
          /\ owed' = owed \ {<<m.kind, storage[m.kind][m.storage_index]>>}
    /\ UNCHANGED <<storage, mapping, pc, index, array, timeout, result, ret, tainted>>

(***************************************************************************)
(* rmw_wait: unmap, and tell the caller what was triggered                 *)
(***************************************************************************)

unmap_all == mapping' = {}

\* Mutant of Triggered: one set of indices for both kinds.
TriggeredEitherKind(kind, i) == \E m \in result : m.rmw_index = i

Triggered(kind, i) == \E m \in result : m.kind = kind /\ m.rmw_index = i

\* Entries that were not triggered become nullptr.
KeepTriggered(arr) ==
    [kind \in WaitableEntity |->
        [i \in DOMAIN arr[kind] |-> IF Triggered(kind, i) THEN arr[kind][i] ELSE Null]]

\* What a caller reads off the arrays: the services of the entries left.
Reported(arr) ==
    UNION {{<<kind, ServiceName[arr[kind][i]]>> :
                i \in {j \in DOMAIN arr[kind] : arr[kind][j] # Null}} :
           kind \in WaitableEntity}

ServiceOf(id) == <<id[1], storage[id[1]][id[2]]>>
PendingServices == {ServiceOf(id) : id \in pending}

\* on_event has been called for every attachment: rmw_wait resets the mapping
\* and rewrites the arrays, but only if there were triggers.
RmwWaitReturns ==
    /\ pc = "dispatch" /\ events = {}
    /\ unmap_all
    /\ pc' = "idle"
    /\ \/ /\ result = {}
          /\ ret' = "TIMEOUT"
          /\ UNCHANGED <<array, owed>>
       \/ /\ result # {}
          /\ ret' = "OK"
          /\ array' = KeepTriggered(array)
          /\ owed' = owed \ (Reported(array') \ PendingServices)
    /\ UNCHANGED <<storage, pending, index, timeout, events, result, tainted>>

(***************************************************************************)
(* Specification                                                           *)
(***************************************************************************)

\* The steps of a call that no failure of iceoryx2 is involved in.
CallStep ==
    \/ \E kind \in WaitableEntity : Map(kind) \/ MapDone(kind)
    \/ WaitNoop \/ WaitForever \/ Attach \/ WakeUp \/ TimeoutExpires \/ OnTimeout
    \/ \E m \in mapping : OnTrigger(m)
    \/ RmwWaitReturns

FaultStep ==
    \/ \E kind \in WaitableEntity : MapFails(kind)
    \/ AttachFails \/ RunFails \/ Interrupted
    \/ \E m \in mapping : OnTriggerFails(m)

CallBegins == \E call \in Calls : RmwWait(call)

Notification ==
    \/ \E g \in GuardConditions : TriggerGuardCondition(g)
    \/ \E s \in Subscribers : NotifyTopic(s)

Next == CallBegins \/ CallStep \/ FaultStep \/ Notification

Spec == Init /\ [][Next]_vars

\* The thread in rmw_wait is scheduled, an expired timer fires, and the
\* executor calls rmw_wait again; nothing is assumed of the notifying threads.
Fairness == WF_vars(CallStep) /\ WF_vars(CallBegins)
FairSpec == Spec /\ Fairness

(***************************************************************************)
(* Properties                                                              *)
(***************************************************************************)

TypeOK ==
    /\ storage \in [WaitableEntity -> Seq(Services)]
    /\ mapping \subseteq RmwMapping
    /\ pending \subseteq ListenerIds
    /\ pc \in {"idle", Loop(GUARD_CONDITION), Loop(SUBSCRIBER), "wait", "blocked",
               "dispatch"}
    /\ index \in Nat \ {0}
    /\ array \in Arrays
    /\ timeout \in Timeouts
    /\ events \subseteq ListenerIds \cup {TIMEOUT_ID}
    /\ result \subseteq RmwMapping
    /\ ret \in {"NONE", "OK", "TIMEOUT", "ERROR", "INVALID_ARGUMENT"}
    /\ owed \subseteq WaitableEntity \X Services
    /\ tainted \in BOOLEAN

\* The mapping a call attaches is attachable whatever calls came before, failed
\* ones included: no listener occurs in it twice (attach_notification would
\* refuse the second) and every index is one of the storage, which only grows
\* and never holds two listeners of a service.
MappingAttachable ==
    /\ Attachable
    /\ \A kind \in WaitableEntity : \A i, j \in DOMAIN storage[kind] :
            storage[kind][i] = storage[kind][j] => i = j

\* No wakeup is lost: once the wait set has a listener for a service, each of
\* its notifications is waiting in the listener, or drained by the call in
\* progress, until a call reports it; timeouts, Stop, signals, error returns and
\* notifications racing with the drain lose none.  (While no call has run with
\* the mapping a failed call left behind.)
NoLostWakeup ==
    ~tainted =>
        \A o \in owed : \/ o \in PendingServices
                        \/ pc # "idle" /\ \E m \in result : ServiceOf(IdOf(m)) = o

\* A call that returns RMW_RET_OK leaves an entry in the arrays, and each entry
\* it leaves was notified since it was last reported: no spurious wakeup, no
\* trigger reported against another entity's slot.
OkReports ==
    /\ Reported(array') # {}
    /\ Reported(array') \subseteq owed
OkReportsOnlyNotified ==
    [][pc = "dispatch" /\ pc' = "idle" /\ ret' = "OK" /\ ~tainted => OkReports]_vars

\* If listeners can be created and attached and the waitset runs, rmw_wait fails
\* only where it has to: nothing to wait on and no timeout.
NoFailingCalls == Faults \subseteq {"drain", "interrupt"}
FailsOnlyIfEndless ==
    pc = "idle" /\ ret = "ERROR" /\ NoFailingCalls =>
        /\ timeout = "none"
        /\ \A kind \in WaitableEntity : array[kind] = <<>>

\* A call that can time out, or that has a notification to report, returns.
WaitReturns ==
    /\ pc # "idle" /\ timeout # "none" ~> pc = "idle"
    /\ pc = "blocked" /\ Ready # {} ~> pc = "idle"

\* A call waits on a service until it is notified.
WaitsFor(kind, s) ==
    /\ pc = "blocked" /\ timeout = "none"
    /\ \E m \in mapping : m.kind = kind /\ storage[kind][m.storage_index] = s

\* A notification that reached a listener is reported to a caller that keeps
\* waiting for it, however busy the other entities are and whatever other calls
\* it makes in between; unless a drain that failed has lost it, or a signal ends
\* every call.
WakeupReported ==
    <>[][~FaultStep]_vars =>
        \A kind \in WaitableEntity : \A s \in Services :
            []<>WaitsFor(kind, s) =>
                (<<kind, s>> \in owed ~>
                    \/ pc = "idle" /\ ret = "OK" /\ <<kind, s>> \in Reported(array)
                    \/ <<kind, s>> \notin owed)

(***************************************************************************)
(* The inductive invariant behind MappingAttachable, NoLostWakeup and      *)
(* OkReportsOnlyNotified.                                                  *)
(***************************************************************************)

\* A notification is held by a listener of the storage, and owed to the caller.
PendingSound ==
    /\ \A id \in pending : id[2] \in DOMAIN storage[id[1]]
    /\ PendingServices \subseteq owed

\* on_event runs only in "dispatch": it is called for listeners that still hold
\* their notifications, and never twice for one listener.
EventsSound ==
    /\ pc # "dispatch" => events = {}
    /\ events \ {TIMEOUT_ID} \subseteq pending
    /\ \A m \in result : IdOf(m) \notin events

\* Results come from the mapping of the call in progress and are owed; before
\* "dispatch", where error returns are possible, there are none.
ResultSound ==
    /\ pc \notin {"idle", "dispatch"} => result = {}
    /\ pc = "dispatch" => /\ result \subseteq mapping
                          /\ \A m \in result : ServiceOf(IdOf(m)) \in owed

\* During a call no entry is null, and each mapping names the entry and the
\* listener of one service, unless it is left over from a failed call.
MappingSound ==
    pc # "idle" =>
        /\ \A kind \in WaitableEntity : \A i \in DOMAIN array[kind] :
                array[kind][i] \in Waitables
        /\ ~tainted => \A m \in mapping :
                /\ m.rmw_index \in DOMAIN array[m.kind]
                /\ ServiceName[array[m.kind][m.rmw_index]] = storage[m.kind][m.storage_index]

IndInv ==
    /\ TypeOK
    /\ MappingAttachable
    /\ PendingSound
    /\ EventsSound
    /\ ResultSound
    /\ MappingSound
    /\ NoLostWakeup

(***************************************************************************)
(* rmw_wait keeps the promise of module Wakeups.                           *)
(***************************************************************************)

Stored == {x \in WaitableEntity \X Services : IsStored(x[1], x[2])}

\* What the listeners hold and the call in progress has drained from them.
Outstanding ==
    PendingServices \cup {ServiceOf(IdOf(m)) : m \in IF pc = "idle" THEN {} ELSE result}

W == INSTANCE Wakeups WITH
        Sources <- WaitableEntity \X Services,
        MayLose <- "drain" \in Faults,
        listening <- Stored,
        owed <- Outstanding,
        reported <- IF pc = "idle" /\ ret = "OK" THEN Reported(array) ELSE {}

\* As long as no call fails with its entries mapped, the wait set behaves as
\* Wakeups says: what its listeners and the call in progress hold is what it owes,
\* whatever arrives when, and is given up only by reporting it to the caller.
KeepsWakeups == W!Spec

(***************************************************************************)
(* Claims of the comments and tests that the code does not keep.  Each is  *)
(* the property of a run in which TLC finds a counterexample.              *)
(***************************************************************************)

\* "Reset all mappings - each wait call provides a different set of mappings":
\* what a call reports is about its own arrays, also after a call that failed.
EachCallOwnMappings ==
    [][pc = "dispatch" /\ pc' = "idle" /\ ret' = "OK" => OkReports]_vars

\* "@returns All triggered waitables.": if one of two subscriptions of a topic
\* is reported, so is the other, both having been triggered.
AllTriggeredReturned ==
    [][pc = "dispatch" /\ pc' = "idle" /\ ret' = "OK" /\ ~tainted =>
        \A i, j \in DOMAIN array[SUBSCRIBER] :
            ServiceName[array[SUBSCRIBER][i]] = ServiceName[array[SUBSCRIBER][j]] =>
                (array'[SUBSCRIBER][i] = Null <=> array'[SUBSCRIBER][j] = Null)]_vars
===============================================================================
