---------------------------- MODULE WaitSetProofs ----------------------------
(* Proofs about WaitSet: its type invariant, that the mapping can always be  *)
(* attached, that no wakeup is lost and that only notified entities are      *)
(* reported, for every set of waitables, calls and failures of iceoryx2.     *)
EXTENDS WaitSet, SequenceTheorems, TLAPS

\* The service of a waitable is a service.
LEMMA ServiceNameType ==
    ASSUME NEW w \in Waitables
    PROVE  ServiceName[w] \in Services
  BY DEF Services

\* Appending a service to a kind's storage: what was stored keeps its index.
LEMMA StorageAppend ==
    ASSUME NEW st \in [WaitableEntity -> Seq(Services)],
           NEW kind \in WaitableEntity, NEW service \in Services,
           NEW st1, st1 = [st EXCEPT ![kind] = Append(@, service)]
    PROVE  /\ st1 \in [WaitableEntity -> Seq(Services)]
           /\ \A k \in WaitableEntity : \A i \in DOMAIN st[k] :
                i \in DOMAIN st1[k] /\ st1[k][i] = st[k][i]
           /\ Len(st[kind]) + 1 \in Nat \ {0}
           /\ Len(st[kind]) + 1 \in DOMAIN st1[kind]
           /\ Len(st[kind]) + 1 \notin DOMAIN st[kind]
           /\ st1[kind][Len(st[kind]) + 1] = service
           /\ \A k \in WaitableEntity : \A i \in DOMAIN st1[k] :
                \/ i \in DOMAIN st[k]
                \/ k = kind /\ i = Len(st[kind]) + 1
  OBVIOUS

\* Nothing is stored, mapped or notified in the beginning.
LEMMA InitInductive == Init => IndInv
<1> SUFFICES ASSUME Init PROVE IndInv
  OBVIOUS
<1>1. TypeOK
  <2>1. storage \in [WaitableEntity -> Seq(Services)] /\ array \in Arrays
    BY DEF Init, Arrays
  <2>2. tainted \in BOOLEAN
    BY DEF Init
  <2>3. index \in Nat \ {0} /\ timeout \in Timeouts
    BY DEF Init, Timeouts
  <2>. QED
    BY <2>1, <2>2, <2>3 DEF Init, TypeOK
<1>2. MappingAttachable /\ PendingSound
  BY DEF Init, MappingAttachable, Attachable, PendingSound, PendingServices
<1>3. EventsSound /\ ResultSound /\ MappingSound /\ NoLostWakeup
  BY DEF Init, EventsSound, ResultSound, MappingSound, NoLostWakeup
<1>. QED
  BY <1>1, <1>2, <1>3 DEF IndInv

\* A step that changes no variable keeps the invariant.
LEMMA StutterInductive == IndInv /\ UNCHANGED vars => IndInv'
  BY DEF vars, IndInv, TypeOK, MappingAttachable, Attachable, PendingSound, EventsSound,
         ResultSound, MappingSound, NoLostWakeup, PendingServices, ServiceOf

\* What the invariant speaks of besides the point a call has reached.
tables == <<storage, mapping, pending, array, timeout, events, result, owed, tainted>>

\* A call that only moves on, before on_event is first called, keeps the
\* invariant, and so does one that returns an error: it has no results yet.
LEMMA CallAdvances ==
    ASSUME IndInv, UNCHANGED tables,
           pc \notin {"idle", "dispatch"},
           pc' \in {"idle", Loop(SUBSCRIBER), "wait", "blocked", "dispatch"},
           index' \in Nat \ {0},
           ret' \in {ret, "ERROR"}
    PROVE  IndInv'
<1>1. TypeOK' /\ MappingAttachable'
  BY DEF IndInv, tables, TypeOK, MappingAttachable, Attachable
<1>2. PendingSound' /\ NoLostWakeup'
  BY DEF IndInv, tables, PendingSound, ResultSound, NoLostWakeup, PendingServices, ServiceOf
<1>3. EventsSound' /\ ResultSound' /\ MappingSound'
  BY DEF IndInv, tables, EventsSound, ResultSound, MappingSound
<1>. QED
  BY <1>1, <1>2, <1>3 DEF IndInv

\* The call goes on to its next step, and changes nothing else.
LEMMA AdvanceInductive ==
    ASSUME IndInv,
           NEW kind \in WaitableEntity,
           \/ MapDone(kind) \/ MapFails(kind) \/ WaitNoop \/ WaitForever
           \/ Attach \/ AttachFails \/ Interrupted \/ RunFails
    PROVE  IndInv'
<1>1. index \in Nat \ {0}
  BY DEF IndInv, TypeOK
<1>. QED
  BY <1>1, CallAdvances
  DEF MapDone, MapFails, WaitNoop, WaitForever, Attach, AttachFails, Interrupted, RunFails,
      ToBeAttached, ReturnError, waitVars, tables, Loop, AfterLoop, GUARD_CONDITION,
      SUBSCRIBER, WaitableEntity

\* A notification at any moment of the call.
LEMMA NotifyInductive ==
    ASSUME IndInv, NEW kind \in WaitableEntity, NEW service \in Services,
           Notify(kind, service)
    PROVE  IndInv'
<1> DEFINE reached == Listening(kind, service)
<1>1. /\ pending' = pending \cup reached
      /\ owed' = IF reached = {} THEN owed ELSE owed \cup {<<kind, service>>}
      /\ UNCHANGED <<storage, mapping, pc, tainted, index, array, timeout, events, result, ret>>
  BY DEF Notify, waitVars
<1>2. \A id \in reached : /\ id \in ListenerIds
                          /\ id[2] \in DOMAIN storage[id[1]]
                          /\ ServiceOf(id) = <<kind, service>>
  BY DEF IndInv, TypeOK, Listening, ListenerIds, ServiceOf
<1>3. TypeOK' /\ MappingAttachable'
  BY <1>1, <1>2 DEF IndInv, TypeOK, MappingAttachable, Attachable
<1>4. PendingSound' /\ NoLostWakeup'
  BY <1>1, <1>2 DEF IndInv, PendingSound, NoLostWakeup, PendingServices, ServiceOf
<1>5. EventsSound' /\ ResultSound' /\ MappingSound'
  BY <1>1 DEF IndInv, EventsSound, ResultSound, MappingSound, ServiceOf
<1>. QED
  BY <1>3, <1>4, <1>5 DEF IndInv

\* The beginning of rmw_wait.
LEMMA RmwWaitInductive ==
    ASSUME IndInv, NEW call \in Calls, RmwWait(call)
    PROVE  IndInv'
<1>1. call.array \in Arrays /\ call.timeout \in Timeouts
  BY CallsAssumption
<1>2. TypeOK' /\ MappingAttachable'
  <2>1. tainted' \in BOOLEAN
    BY Zenon DEF RmwWait, IndInv, TypeOK
  <2>2. MappingAttachable'
    BY DEF RmwWait, IndInv, MappingAttachable, Attachable
  <2>. QED
    BY <1>1, <2>1, <2>2 DEF RmwWait, IndInv, TypeOK
<1>3. PendingSound' /\ EventsSound' /\ ResultSound'
  BY DEF RmwWait, Loop, GUARD_CONDITION, IndInv, PendingSound, EventsSound, ResultSound,
         PendingServices, ServiceOf
<1>4. MappingSound'
  <2>. SUFFICES ASSUME pc' # "idle" PROVE MappingSound'
    BY DEF MappingSound
  <2>1. ~HasNull(call) /\ array' = call.array /\ (~tainted' => mapping' = {})
    BY DEF RmwWait
  <2>2. \A kind \in WaitableEntity : \A i \in DOMAIN array'[kind] :
            array'[kind][i] \in Waitables
    BY <1>1, <2>1 DEF HasNull, Arrays
  <2>. QED
    BY <2>1, <2>2 DEF MappingSound
<1>5. NoLostWakeup'
  BY DEF RmwWait, IndInv, NoLostWakeup, PendingServices, ServiceOf
<1>. QED
  BY <1>2, <1>3, <1>4, <1>5 DEF IndInv

\* get_storage_index finds the one listener of a service, or the next free place.
LEMMA StorageIndexFound ==
    ASSUME NEW kind \in WaitableEntity, NEW service, IsStored(kind, service)
    PROVE  /\ get_storage_index(kind, service) \in DOMAIN storage[kind]
           /\ storage[kind][get_storage_index(kind, service)] = service
  BY DEF IsStored, get_storage_index

\* A turn of a mapping loop: find or create the listener, map it.
LEMMA MapInductive ==
    ASSUME IndInv, NEW kind \in WaitableEntity, Map(kind)
    PROVE  IndInv'
<1> DEFINE service == ServiceName[array[kind][index]]
           place == get_storage_index(kind, service)
           new == [kind |-> kind, storage_index |-> place, rmw_index |-> index]
<1> USE DEF IndInv
<1>1. /\ pc \notin {"idle", "dispatch"} /\ pc' = pc
      /\ index \in DOMAIN array[kind] /\ index' = index + 1 /\ index \in Nat \ {0}
      /\ service \in Services
      /\ UNCHANGED <<pending, array, timeout, events, result, ret, owed, tainted>>
      /\ result = {} /\ events = {}
  <2>1. /\ pc \notin {"idle", "dispatch"} /\ pc' = pc
        /\ index \in DOMAIN array[kind] /\ index' = index + 1 /\ index \in Nat \ {0}
        /\ UNCHANGED <<pending, array, timeout, events, result, ret, owed, tainted>>
    BY DEF Map, Loop, TypeOK
  <2>2. array[kind][index] \in Waitables
    BY <2>1 DEF MappingSound
  <2>. QED
    BY <2>1, <2>2, ServiceNameType DEF ResultSound, EventsSound
<1>2. /\ mapping' = IF \E m \in mapping : m.kind = kind /\ m.storage_index = place
                    THEN mapping ELSE mapping \cup {new}
      /\ storage' = IF IsStored(kind, service) THEN storage
                    ELSE [storage EXCEPT ![kind] = Append(@, service)]
  BY DEF Map, map_stored_listener
<1>3. storage \in [WaitableEntity -> Seq(Services)]
  BY DEF TypeOK
<1>4. /\ storage' \in [WaitableEntity -> Seq(Services)]
      /\ \A k \in WaitableEntity : \A i \in DOMAIN storage[k] :
            i \in DOMAIN storage'[k] /\ storage'[k][i] = storage[k][i]
      /\ place \in Nat \ {0} /\ place \in DOMAIN storage'[kind]
      /\ storage'[kind][place] = service
      /\ \A k \in WaitableEntity : \A i, j \in DOMAIN storage'[k] :
            storage'[k][i] = storage'[k][j] => i = j
  <2>1. CASE IsStored(kind, service)
    BY <1>2, <1>3, <2>1, StorageIndexFound DEF MappingAttachable
  <2>2. CASE ~IsStored(kind, service)
    <3>1. place = Len(storage[kind]) + 1
      BY <2>2 DEF get_storage_index
    <3>2. storage' = [storage EXCEPT ![kind] = Append(@, service)]
      BY <1>2, <2>2
    <3>. HIDE DEF place, service
    <3>3. \A i \in DOMAIN storage[kind] : storage[kind][i] # service
      BY <2>2 DEF IsStored
    <3>. QED
      BY <1>1, <1>3, <3>1, <3>2, <3>3, StorageAppend DEF MappingAttachable
  <2>. QED
    BY <2>1, <2>2
<1>. HIDE DEF place, service
<1>5. new \in RmwMapping
  BY <1>1, <1>4 DEF RmwMapping
<1>6. TypeOK'
  BY <1>1, <1>2, <1>4, <1>5 DEF TypeOK
<1>7. MappingAttachable'
  <2>1. \A m, n \in mapping' : IdOf(m) = IdOf(n) => m = n
    BY <1>2 DEF MappingAttachable, Attachable, IdOf
  <2>2. \A m \in mapping' : m.storage_index \in DOMAIN storage'[m.kind]
    BY <1>2, <1>4 DEF MappingAttachable, Attachable, TypeOK, RmwMapping
  <2>. QED
    BY <1>4, <2>1, <2>2 DEF MappingAttachable, Attachable, IdOf
<1>8. \A id \in pending : id[2] \in DOMAIN storage'[id[1]] /\ ServiceOf(id)' = ServiceOf(id)
  BY <1>1, <1>4 DEF PendingSound, TypeOK, ListenerIds, ServiceOf
<1>9. PendingServices' = PendingServices
  BY <1>1, <1>8 DEF PendingServices
<1>10. PendingSound' /\ NoLostWakeup' /\ EventsSound' /\ ResultSound'
  BY <1>1, <1>8, <1>9 DEF PendingSound, NoLostWakeup, EventsSound, ResultSound
<1>11. MappingSound'
  <2>1. \A m \in mapping : /\ m.storage_index \in DOMAIN storage[m.kind]
                           /\ m.kind \in WaitableEntity
    BY DEF MappingAttachable, Attachable, TypeOK, RmwMapping
  <2>2. ~tainted => \A m \in mapping' :
            /\ m.rmw_index \in DOMAIN array[m.kind]
            /\ ServiceName[array[m.kind][m.rmw_index]] = storage'[m.kind][m.storage_index]
    BY <1>1, <1>2, <1>4, <2>1 DEF MappingSound, service
  <2>. QED
    BY <1>1, <2>2 DEF MappingSound
<1>. QED
  BY <1>6, <1>7, <1>10, <1>11

\* The run delivers on_event calls: listeners that are ready, or the timeout.
LEMMA WakeUpInductive ==
    ASSUME IndInv, WakeUp \/ TimeoutExpires
    PROVE  IndInv'
<1>1. /\ pc = "blocked" /\ pc' = "dispatch"
      /\ UNCHANGED <<storage, mapping, pending, index, array, timeout, result, ret, owed,
                     tainted>>
      /\ events' \subseteq pending \cup {TIMEOUT_ID}
  BY DEF WakeUp, TimeoutExpires, Ready
<1>2. TypeOK' /\ MappingAttachable'
  BY <1>1 DEF IndInv, TypeOK, MappingAttachable, Attachable
<1>3. PendingSound' /\ NoLostWakeup'
  BY <1>1 DEF IndInv, PendingSound, NoLostWakeup, PendingServices, ServiceOf
<1>4. EventsSound' /\ ResultSound' /\ MappingSound'
  BY <1>1 DEF IndInv, EventsSound, ResultSound, MappingSound
<1>. QED
  BY <1>2, <1>3, <1>4 DEF IndInv

\* The timer is dispatched.
LEMMA OnTimeoutInductive ==
    ASSUME IndInv, OnTimeout
    PROVE  IndInv'
<1>1. TypeOK' /\ MappingAttachable'
  BY DEF OnTimeout, IndInv, TypeOK, MappingAttachable, Attachable
<1>2. PendingSound' /\ NoLostWakeup'
  BY DEF OnTimeout, IndInv, PendingSound, NoLostWakeup, PendingServices, ServiceOf
<1>3. EventsSound' /\ ResultSound' /\ MappingSound'
  BY DEF OnTimeout, IndInv, EventsSound, ResultSound, MappingSound, ServiceOf
<1>. QED
  BY <1>1, <1>2, <1>3 DEF IndInv

\* Two listeners of the storage with the same kind and service are the same.
LEMMA OneListenerPerService ==
    ASSUME IndInv, NEW a \in ListenerIds, NEW b \in ListenerIds,
           a[2] \in DOMAIN storage[a[1]], b[2] \in DOMAIN storage[b[1]],
           ServiceOf(a) = ServiceOf(b)
    PROVE  a = b
  BY DEF IndInv, MappingAttachable, ServiceOf, ListenerIds

\* A mapping names a listener of the storage.
LEMMA MappedListener ==
    ASSUME IndInv, NEW m \in mapping
    PROVE  /\ IdOf(m) \in ListenerIds
           /\ IdOf(m)[2] \in DOMAIN storage[IdOf(m)[1]]
           /\ ServiceOf(IdOf(m)) = <<m.kind, storage[m.kind][m.storage_index]>>
  BY DEF IndInv, TypeOK, MappingAttachable, Attachable, RmwMapping, IdOf, ListenerIds, ServiceOf

\* A listener is dispatched, drained and remembered,
LEMMA OnTriggerInductive ==
    ASSUME IndInv, NEW m \in mapping, OnTrigger(m)
    PROVE  IndInv'
<1> USE DEF IndInv
<1>1. /\ pc = "dispatch" /\ IdOf(m) \in events
      /\ events' = events \ {IdOf(m)}
      /\ pending' = pending \ {IdOf(m)}
      /\ result' = result \cup {m}
      /\ UNCHANGED <<storage, mapping, pc, index, array, timeout, ret, owed, tainted>>
  BY DEF OnTrigger
<1>2. IdOf(m) \in pending
  BY <1>1 DEF EventsSound, IdOf, TIMEOUT_ID, TypeOK, RmwMapping, WaitableEntity,
              GUARD_CONDITION, SUBSCRIBER
<1>3. TypeOK' /\ MappingAttachable'
  BY <1>1 DEF TypeOK, MappingAttachable, Attachable
<1>4. PendingSound' /\ NoLostWakeup'
  BY <1>1 DEF PendingSound, NoLostWakeup, PendingServices, ServiceOf
<1>5. ResultSound'
  <2>1. ServiceOf(IdOf(m)) \in owed
    BY <1>2 DEF PendingSound, PendingServices
  <2>. QED
    BY <1>1, <2>1 DEF ResultSound, ServiceOf
<1>6. EventsSound' /\ MappingSound'
  BY <1>1 DEF EventsSound, MappingSound
<1>. QED
  BY <1>3, <1>4, <1>5, <1>6

\* or draining it fails.
LEMMA OnTriggerFailsInductive ==
    ASSUME IndInv, NEW m \in mapping, OnTriggerFails(m)
    PROVE  IndInv'
<1> USE DEF IndInv
<1> DEFINE lost == ServiceOf(IdOf(m))
<1>1. /\ pc = "dispatch" /\ IdOf(m) \in events
      /\ events' = events \ {IdOf(m)}
      /\ UNCHANGED <<storage, mapping, pc, index, array, timeout, result, ret, tainted>>
      /\ \/ UNCHANGED <<pending, owed>>
         \/ pending' = pending \ {IdOf(m)} /\ owed' = owed \ {lost}
  BY MappedListener DEF OnTriggerFails
<1>2. \A id \in pending : id # IdOf(m) => ServiceOf(id) # lost
  BY MappedListener, OneListenerPerService DEF PendingSound, TypeOK
<1>3. \A n \in result : n \in mapping /\ IdOf(n) # IdOf(m) /\ ServiceOf(IdOf(n)) # lost
  <2>1. \A n \in result : n \in mapping /\ IdOf(n) # IdOf(m)
    BY <1>1 DEF EventsSound, ResultSound
  <2>. QED
    BY <2>1, MappedListener, OneListenerPerService
<1>4. TypeOK' /\ MappingAttachable'
  BY <1>1 DEF TypeOK, MappingAttachable, Attachable
<1>5. PendingSound' /\ NoLostWakeup'
  BY <1>1, <1>2, <1>3 DEF PendingSound, NoLostWakeup, PendingServices, ServiceOf
<1>6. EventsSound' /\ ResultSound' /\ MappingSound'
  BY <1>1, <1>3 DEF EventsSound, ResultSound, MappingSound, ServiceOf
<1>. QED
  BY <1>4, <1>5, <1>6

\* The entries that rmw_wait leaves are those of the results, and, the mapping
\* being the call's own, these have the services of the drained listeners.
LEMMA ReportedAreResults ==
    ASSUME IndInv, pc = "dispatch", ~tainted
    PROVE  Reported(KeepTriggered(array)) = {ServiceOf(IdOf(m)) : m \in result}
<1> USE DEF IndInv
<1> DEFINE kept == KeepTriggered(array)
<1>1. \A kind \in WaitableEntity :
        /\ DOMAIN kept[kind] = DOMAIN array[kind]
        /\ \A i \in DOMAIN array[kind] :
              kept[kind][i] = IF Triggered(kind, i) THEN array[kind][i] ELSE Null
  BY DEF KeepTriggered
<1>2. \A kind \in WaitableEntity : \A i \in DOMAIN array[kind] : array[kind][i] # Null
  BY WaitablesAssumption DEF MappingSound
<1>3. \A m \in result :
        /\ m \in mapping /\ m.kind \in WaitableEntity
        /\ m.rmw_index \in DOMAIN array[m.kind]
        /\ ServiceOf(IdOf(m)) = <<m.kind, ServiceName[array[m.kind][m.rmw_index]]>>
  BY MappedListener DEF ResultSound, MappingSound, TypeOK, RmwMapping
<1>. HIDE DEF kept
<1>4. ASSUME NEW r \in Reported(kept) PROVE \E m \in result : ServiceOf(IdOf(m)) = r
  <2>0. PICK kind \in WaitableEntity : \E i \in DOMAIN kept[kind] :
            kept[kind][i] # Null /\ r = <<kind, ServiceName[kept[kind][i]]>>
    BY <1>4 DEF Reported
  <2>1. PICK i \in DOMAIN kept[kind] :
            kept[kind][i] # Null /\ r = <<kind, ServiceName[kept[kind][i]]>>
    BY <2>0
  <2>2. PICK m \in result : m.kind = kind /\ m.rmw_index = i
    BY <1>1, <2>1 DEF Triggered
  <2>. QED
    BY <1>1, <1>3, <2>1, <2>2 DEF Triggered
<1>5. ASSUME NEW m \in result PROVE ServiceOf(IdOf(m)) \in Reported(kept)
  <2>1. Triggered(m.kind, m.rmw_index)
    BY <1>5 DEF Triggered
  <2>2. kept[m.kind][m.rmw_index] = array[m.kind][m.rmw_index]
    BY <1>1, <1>3, <2>1
  <2>3. /\ m.rmw_index \in DOMAIN kept[m.kind]
        /\ kept[m.kind][m.rmw_index] # Null
        /\ ServiceOf(IdOf(m)) = <<m.kind, ServiceName[kept[m.kind][m.rmw_index]]>>
    BY <1>1, <1>2, <1>3, <2>2
  <2>. QED
    BY <1>3, <2>3 DEF Reported
<1>. QED
  BY <1>4, <1>5 DEF kept

\* rmw_wait unmaps everything, rewrites the arrays and returns.
LEMMA RmwWaitReturnsInductive ==
    ASSUME IndInv, RmwWaitReturns
    PROVE  IndInv'
<1> USE DEF IndInv
<1>1. /\ pc = "dispatch" /\ pc' = "idle" /\ events = {} /\ mapping' = {}
      /\ UNCHANGED <<storage, pending, index, timeout, events, result, tainted>>
      /\ \/ result = {} /\ UNCHANGED <<array, owed>>
         \/ /\ array' = KeepTriggered(array)
            /\ owed' = owed \ (Reported(array') \ PendingServices)
      /\ ret' \in {"OK", "TIMEOUT"}
  BY DEF RmwWaitReturns, unmap_all
<1>2. KeepTriggered(array) \in Arrays
  <2>1. ASSUME NEW kind \in WaitableEntity
        PROVE  KeepTriggered(array)[kind] \in Seq(Waitables \cup {Null})
    <3>1. array[kind] \in Seq(Waitables \cup {Null})
      BY DEF TypeOK, Arrays
    <3>2. PICK n \in Nat : DOMAIN array[kind] = 1..n
      BY <3>1
    <3>3. KeepTriggered(array)[kind] \in [1..n -> Waitables \cup {Null}]
      BY <3>1, <3>2 DEF KeepTriggered
    <3>. QED
      BY <3>3, SeqDef
  <2>. QED
    BY <2>1 DEF KeepTriggered, Arrays
<1>3. TypeOK' /\ MappingAttachable'
  BY <1>1, <1>2 DEF TypeOK, MappingAttachable, Attachable
<1>4. PendingSound' /\ EventsSound' /\ ResultSound' /\ MappingSound'
  BY <1>1 DEF PendingSound, EventsSound, ResultSound, MappingSound, PendingServices, ServiceOf
<1>5. NoLostWakeup'
  <2>. SUFFICES ASSUME ~tainted, NEW o \in owed' PROVE o \in PendingServices
    BY <1>1 DEF NoLostWakeup, PendingServices, ServiceOf
  <2>1. CASE result = {} /\ UNCHANGED <<array, owed>>
    BY <2>1 DEF NoLostWakeup
  <2>2. CASE owed' = owed \ (Reported(KeepTriggered(array)) \ PendingServices)
    BY <1>1, <2>2, ReportedAreResults DEF NoLostWakeup
  <2>. QED
    BY <1>1, <2>1, <2>2
<1>. QED
  BY <1>3, <1>4, <1>5

\* Every step keeps the invariant.
LEMMA NextInductive == IndInv /\ [Next]_vars => IndInv'
<1> SUFFICES ASSUME IndInv, Next PROVE IndInv'
  BY StutterInductive
<1>1. CASE CallBegins
  BY <1>1, RmwWaitInductive DEF CallBegins
<1>2. CASE CallStep
  BY <1>2, MapInductive, AdvanceInductive, WakeUpInductive, OnTimeoutInductive,
     OnTriggerInductive, RmwWaitReturnsInductive DEF CallStep, WaitableEntity
<1>3. CASE FaultStep
  BY <1>3, AdvanceInductive, OnTriggerFailsInductive DEF FaultStep, WaitableEntity
<1>4. CASE Notification
  BY <1>4, NotifyInductive, ServiceNameType
  DEF Notification, TriggerGuardCondition, NotifyTopic, Waitables, WaitableEntity
<1>. QED
  BY <1>1, <1>2, <1>3, <1>4 DEF Next

\* The invariant holds of every behaviour of the wait set.
THEOREM Invariance == Spec => []IndInv
  BY InitInductive, NextInductive, PTL DEF Spec

\* Every variable of the wait set keeps its type.
THEOREM TypeCorrect == Spec => []TypeOK
<1>1. IndInv => TypeOK
  BY DEF IndInv
<1>. QED
  BY <1>1, Invariance, PTL

\* Whatever calls came before and however they ended, the mapping never names
\* a listener twice or one that is not stored: WaitSet::wait can attach it.
THEOREM AlwaysAttachable == Spec => []MappingAttachable
<1>1. IndInv => MappingAttachable
  BY DEF IndInv
<1>. QED
  BY <1>1, Invariance, PTL

\* rmw_wait loses no notification that reached one of its listeners.
THEOREM WakeupsKept == Spec => []NoLostWakeup
<1>1. IndInv => NoLostWakeup
  BY DEF IndInv
<1>. QED
  BY <1>1, Invariance, PTL

\* rmw_wait returning RMW_RET_OK reports an entity, and only notified ones.
THEOREM OkReportsNotified == Spec => OkReportsOnlyNotified
<1> DEFINE Ok == pc = "dispatch" /\ pc' = "idle" /\ ret' = "OK" /\ ~tainted => OkReports
<1>1. IndInv /\ [Next]_vars => [Ok]_vars
  <2>. SUFFICES ASSUME IndInv, Next, pc = "dispatch", pc' = "idle", ret' = "OK", ~tainted
                PROVE  OkReports
    OBVIOUS
  <2>1. RmwWaitReturns
    BY DEF Next, CallBegins, RmwWait, CallStep, Map, MapDone, WaitNoop, WaitForever, Attach,
           WakeUp, TimeoutExpires, OnTimeout, OnTrigger, FaultStep, MapFails, AttachFails,
           RunFails, Interrupted, OnTriggerFails, Notification, TriggerGuardCondition,
           NotifyTopic, Notify, ToBeAttached, Loop
  <2>2. result # {} /\ array' = KeepTriggered(array)
    BY <2>1 DEF RmwWaitReturns
  <2>3. Reported(array') = {ServiceOf(IdOf(m)) : m \in result}
    BY <2>2, ReportedAreResults
  <2>4. \A m \in result : ServiceOf(IdOf(m)) \in owed
    BY DEF IndInv, ResultSound
  <2>. QED
    BY <2>2, <2>3, <2>4 DEF OkReports
<1>. QED
  BY <1>1, Invariance, PTL DEF Spec, OkReportsOnlyNotified

(***************************************************************************)
(* Unless creating, attaching or running fails, only an endless wait on    *)
(* nothing does.                                                           *)
(***************************************************************************)

\* As long as nothing is mapped, every entry passed over was no entry at all.
NothingPassedOver ==
    mapping = {} =>
        /\ pc = Loop(GUARD_CONDITION) => index = 1
        /\ pc = Loop(SUBSCRIBER) => index = 1 /\ array[GUARD_CONDITION] = <<>>
        /\ pc = "wait" => \A kind \in WaitableEntity : array[kind] = <<>>

EndlessInv == NoFailingCalls => NothingPassedOver /\ FailsOnlyIfEndless

\* Every step keeps NothingPassedOver, by which a failing call is an endless one.
LEMMA EndlessInductive ==
    ASSUME IndInv, EndlessInv, [Next]_vars
    PROVE  EndlessInv'
<1>. SUFFICES ASSUME NoFailingCalls PROVE (NothingPassedOver /\ FailsOnlyIfEndless)'
  BY DEF EndlessInv
<1>. USE DEF EndlessInv
<1>1. CASE CallBegins
  BY <1>1 DEF CallBegins, RmwWait, NothingPassedOver, FailsOnlyIfEndless, Loop, GUARD_CONDITION,
              SUBSCRIBER
<1>2. ASSUME NEW kind \in WaitableEntity, Map(kind)
      PROVE  (NothingPassedOver /\ FailsOnlyIfEndless)'
  <2>1. mapping' # {} /\ pc' # "idle"
    BY <1>2 DEF Map, map_stored_listener, Loop
  <2>. QED
    BY <2>1 DEF NothingPassedOver, FailsOnlyIfEndless
<1>3. ASSUME NEW kind \in WaitableEntity, MapDone(kind)
      PROVE  (NothingPassedOver /\ FailsOnlyIfEndless)'
  <2>1. array[kind] \in Seq(Waitables \cup {Null})
    BY DEF IndInv, TypeOK, Arrays
  <2>2. index = 1 => array[kind] = <<>>
    BY <1>3, <2>1 DEF MapDone
  <2>. QED
    BY <1>3, <2>2 DEF MapDone, NothingPassedOver, FailsOnlyIfEndless, Loop, AfterLoop,
                      GUARD_CONDITION, SUBSCRIBER, WaitableEntity
<1>4. CASE WaitForever
  BY <1>4 DEF WaitForever, ReturnError, NothingMapped, NothingPassedOver, FailsOnlyIfEndless,
              Loop
<1>5. CASE \/ WaitNoop \/ Attach \/ WakeUp \/ TimeoutExpires \/ OnTimeout
           \/ Interrupted \/ \E m \in mapping : OnTrigger(m) \/ OnTriggerFails(m)
  BY <1>5 DEF WaitNoop, Attach, WakeUp, TimeoutExpires, OnTimeout, Interrupted, OnTrigger,
              OnTriggerFails, NothingPassedOver, FailsOnlyIfEndless, Loop
<1>6. CASE RmwWaitReturns
  BY <1>6 DEF RmwWaitReturns, NothingPassedOver, FailsOnlyIfEndless, Loop
<1>7. ~AttachFails /\ ~RunFails /\ \A kind \in WaitableEntity : ~MapFails(kind)
  BY DEF NoFailingCalls, IndInv, MappingAttachable, AttachFails, RunFails, MapFails
<1>8. CASE Notification
  BY <1>8 DEF Notification, TriggerGuardCondition, NotifyTopic, Notify, waitVars,
              NothingPassedOver, FailsOnlyIfEndless
<1>9. CASE UNCHANGED vars
  BY <1>9 DEF vars, NothingPassedOver, FailsOnlyIfEndless
<1>. QED
  BY <1>1, <1>2, <1>3, <1>4, <1>5, <1>6, <1>7, <1>8, <1>9 DEF Next, CallStep, FaultStep

\* rmw_wait does not fail unless iceoryx2 fails to create, attach or run, except
\* where it is given nothing to wait on and no timeout.
THEOREM OnlyEndlessFails == Spec => []FailsOnlyIfEndless
<1>1. Init => EndlessInv
  BY DEF Init, EndlessInv, NothingPassedOver, FailsOnlyIfEndless, Loop
<1>2. IndInv /\ EndlessInv /\ [Next]_vars => EndlessInv'
  BY EndlessInductive
<1>3. EndlessInv => FailsOnlyIfEndless
  BY DEF EndlessInv, FailsOnlyIfEndless
<1>. QED
  BY <1>1, <1>2, <1>3, Invariance, PTL DEF Spec

(***************************************************************************)
(* The wait set implements Wakeups, unless a call can fail with entries    *)
(* mapped, which is left to the failures of creating, attaching, running.  *)
(***************************************************************************)

\* Then no call leaves its mapping to the next one.
CleanInv == ~tainted /\ (pc = "idle" => mapping = {})

\* Without failing calls no mapping is left behind.
LEMMA CleanInductive ==
    ASSUME NoFailingCalls, IndInv, CleanInv, [Next]_vars
    PROVE  CleanInv'
<1>1. CASE CallBegins
  <2>1. /\ UNCHANGED tainted \/ tainted' = (tainted \/ mapping # {})
        /\ UNCHANGED mapping
        /\ pc = "idle"
    BY <1>1 DEF CallBegins, RmwWait
  <2>2. ~tainted'
    BY <2>1, Zenon DEF CleanInv
  <2>. QED
    BY <2>1, <2>2 DEF CleanInv
<1>2. CASE CallStep
  BY <1>2 DEF CleanInv, CallStep, Map, MapDone, WaitNoop, WaitForever, NothingMapped,
              ReturnError, Attach, WakeUp, TimeoutExpires, OnTimeout, OnTrigger,
              RmwWaitReturns, unmap_all, Loop, AfterLoop
<1>3. CASE FaultStep
  <2>1. ~AttachFails /\ ~RunFails /\ \A kind \in WaitableEntity : ~MapFails(kind)
    BY DEF NoFailingCalls, IndInv, MappingAttachable, AttachFails, RunFails, MapFails
  <2>. QED
    BY <1>3, <2>1 DEF CleanInv, FaultStep, Interrupted, OnTriggerFails
<1>4. CASE Notification
  BY <1>4 DEF CleanInv, Notification, TriggerGuardCondition, NotifyTopic, Notify
<1>5. CASE UNCHANGED vars
  BY <1>5 DEF CleanInv, vars
<1>. QED
  BY <1>1, <1>2, <1>3, <1>4, <1>5 DEF Next

\* Then the debt of the wait set is what its listeners and the call hold.
LEMMA OutstandingIsOwed ==
    ASSUME IndInv, CleanInv
    PROVE  Outstanding = owed
<1>1. PendingServices \subseteq owed
  BY DEF IndInv, PendingSound
<1>2. \A m \in result : pc # "idle" => ServiceOf(IdOf(m)) \in owed
  BY DEF IndInv, ResultSound
<1>3. \A o \in owed : \/ o \in PendingServices
                      \/ pc # "idle" /\ \E m \in result : ServiceOf(IdOf(m)) = o
  BY DEF IndInv, NoLostWakeup, CleanInv
<1>. QED
  BY <1>1, <1>2, <1>3 DEF Outstanding

Sources == WaitableEntity \X Services
ReportedNow == IF pc = "idle" /\ ret = "OK" THEN Reported(array) ELSE {}

\* What is reported at any time is a set of sources.
LEMMA ReportedAreSources ==
    ASSUME TypeOK
    PROVE  Reported(array) \subseteq Sources
<1>1. ASSUME NEW kind \in WaitableEntity, NEW i \in DOMAIN array[kind], array[kind][i] # Null
      PROVE  <<kind, ServiceName[array[kind][i]]>> \in Sources
  <2>1. array[kind][i] \in Waitables
    BY <1>1 DEF TypeOK, Arrays
  <2>. QED
    BY <2>1, ServiceNameType DEF Sources
<1>. QED
  BY <1>1 DEF Reported

\* In the beginning nothing is owed,
LEMMA InitRefines == Init => W!Init
<1>. SUFFICES ASSUME Init PROVE W!Init
  OBVIOUS
<1>1. \A kind \in WaitableEntity : DOMAIN storage[kind] = {}
  BY DEF Init
<1>2. Stored = {}
  BY <1>1 DEF Stored, IsStored
<1>. QED
  BY <1>2 DEF Init, W!Init, Outstanding, PendingServices

\* A step inside a call that leaves storage and debts alone is a stutter.
LEMMA QuietStep ==
    ASSUME UNCHANGED <<storage, Outstanding>>, ReportedNow' = ReportedNow
    PROVE  UNCHANGED W!wakeupVars
  BY DEF W!wakeupVars, Stored, IsStored, ReportedNow

\* and every step is one of Wakeups or leaves its variables alone.
LEMMA NextRefines ==
    ASSUME NoFailingCalls, IndInv, IndInv', CleanInv, Next,
           Outstanding = owed, Outstanding' = owed'
    PROVE  W!Next \/ UNCHANGED W!wakeupVars
<1> USE DEF Sources
<1>1. ASSUME NEW call \in Calls, RmwWait(call) PROVE W!Begin(Sources)
  <2>1. ReportedNow' = {} /\ ReportedNow \subseteq Sources
    BY <1>1, ReportedAreSources DEF RmwWait, Loop, ReportedNow, IndInv
  <2>2. UNCHANGED <<Stored, owed>>
    BY <1>1 DEF RmwWait, Stored, IsStored
  <2>. QED
    BY <2>1, <2>2 DEF W!Begin, ReportedNow
<1>2. ASSUME NEW kind \in WaitableEntity, Map(kind)
      PROVE  \E x \in Sources : W!Listen(x)
  <2> DEFINE service == ServiceName[array[kind][index]]
  <2>1. pc # "idle" /\ pc' = pc /\ index \in DOMAIN array[kind] /\ UNCHANGED owed
    BY <1>2 DEF Map, Loop
  <2>2. service \in Services
    BY <2>1, ServiceNameType DEF IndInv, MappingSound
  <2>3. Stored' = Stored \cup {<<kind, service>>}
    <3>1. storage' = IF IsStored(kind, service) THEN storage
                     ELSE [storage EXCEPT ![kind] = Append(@, service)]
      BY <1>2 DEF Map
    <3>. HIDE DEF service
    <3>2. ASSUME NEW k \in WaitableEntity, NEW t \in Services
          PROVE  IsStored(k, t)' <=> IsStored(k, t) \/ (k = kind /\ t = service)
      <4>1. storage \in [WaitableEntity -> Seq(Services)]
        BY DEF IndInv, TypeOK
      <4>2. CASE IsStored(kind, service)
        BY <3>1, <4>2 DEF IsStored
      <4>3. CASE ~IsStored(kind, service)
        <5>1. storage' = [storage EXCEPT ![kind] = Append(@, service)]
          BY <3>1, <4>3
        <5>2. \A j \in WaitableEntity : \A i \in DOMAIN storage[j] :
                i \in DOMAIN storage'[j] /\ storage'[j][i] = storage[j][i]
          BY <2>2, <4>1, <5>1, StorageAppend
        <5>3. /\ Len(storage[kind]) + 1 \in DOMAIN storage'[kind]
              /\ storage'[kind][Len(storage[kind]) + 1] = service
          BY <2>2, <4>1, <5>1, StorageAppend
        <5>4. \A j \in WaitableEntity : \A i \in DOMAIN storage'[j] :
                \/ i \in DOMAIN storage[j]
                \/ j = kind /\ storage'[j][i] = service
          BY <2>2, <4>1, <5>1, StorageAppend
        <5>. QED
          BY <5>2, <5>3, <5>4 DEF IsStored
      <4>. QED
        BY <4>2, <4>3
    <3>3. ASSUME NEW x \in Sources
          PROVE  x \in Stored' <=> x \in Stored \/ x = <<kind, service>>
      <4>1. x[1] \in WaitableEntity /\ x[2] \in Services
        OBVIOUS
      <4>2. x = <<kind, service>> <=> x[1] = kind /\ x[2] = service
        OBVIOUS
      <4>. QED
        BY <3>2, <4>1, <4>2 DEF Stored
    <3>4. Stored \subseteq Sources /\ Stored' \subseteq Sources /\ <<kind, service>> \in Sources
      BY <2>2 DEF Stored
    <3>. QED
      BY <3>3, <3>4
  <2>. HIDE DEF service
  <2>4. W!Listen(<<kind, service>>)
    BY <2>1, <2>3 DEF W!Listen
  <2>. QED
    BY <2>2, <2>4
<1>3. ASSUME \/ \E kind \in WaitableEntity : MapDone(kind)
             \/ WaitNoop \/ WaitForever \/ Attach \/ WakeUp \/ TimeoutExpires
             \/ OnTimeout \/ Interrupted \/ \E m \in mapping : OnTrigger(m)
      PROVE  UNCHANGED W!wakeupVars
  <2>1. UNCHANGED <<storage, owed>> /\ ReportedNow' = {} /\ ReportedNow = {}
    BY <1>3 DEF ReportedNow, MapDone, WaitNoop, WaitForever, ReturnError, Attach,
                ToBeAttached, WakeUp, TimeoutExpires, OnTimeout, Interrupted, OnTrigger,
                Loop, AfterLoop
  <2>. QED
    BY <2>1, QuietStep
<1>4. ASSUME NEW m \in mapping, OnTriggerFails(m)
      PROVE  UNCHANGED W!wakeupVars \/ \E x \in Sources : W!Lose(x)
  <2> DEFINE lost == <<m.kind, storage[m.kind][m.storage_index]>>
  <2>1. /\ UNCHANGED storage /\ ReportedNow' = {} /\ ReportedNow = {}
        /\ "drain" \in Faults
        /\ UNCHANGED owed \/ owed' = owed \ {lost}
    BY <1>4 DEF OnTriggerFails, ReportedNow
  <2>2. CASE UNCHANGED owed
    BY <2>1, <2>2, QuietStep
  <2>3. CASE owed' = owed \ {lost}
    <3>1. lost \in Sources
      BY DEF IndInv, TypeOK, RmwMapping, MappingAttachable, Attachable
    <3>. HIDE DEF lost
    <3>2. W!Lose(lost)
      BY <2>1, <2>3 DEF W!Lose, Stored, IsStored, ReportedNow
    <3>. QED
      BY <3>1, <3>2
  <2>. QED
    BY <2>1, <2>2, <2>3
<1>5. ASSUME NEW kind \in WaitableEntity, NEW service \in Services, Notify(kind, service)
      PROVE  W!Notify({<<kind, service>>})
  <2>1. UNCHANGED <<Stored, ReportedNow>>
    BY <1>5 DEF Notify, waitVars, Stored, IsStored, ReportedNow, Reported
  <2>2. Listening(kind, service) # {} <=> <<kind, service>> \in Stored
    <3>1. Listening(kind, service) # {} <=> IsStored(kind, service)
      BY DEF Listening, IsStored
    <3>. QED
      BY <3>1 DEF Stored
  <2>3. owed' = owed \cup ({<<kind, service>>} \cap Stored)
    BY <1>5, <2>2 DEF Notify
  <2>. QED
    BY <2>1, <2>3 DEF W!Notify, ReportedNow
<1>6. ASSUME RmwWaitReturns
      PROVE  \/ UNCHANGED W!wakeupVars
             \/ \E X \in SUBSET Sources : \E again \in SUBSET X : W!Report(X, again)
  <2>1. CASE result = {}
    BY <1>6, <2>1, QuietStep DEF RmwWaitReturns, ReportedNow
  <2>2. CASE result # {}
    <3> DEFINE X == Reported(array')
               again == X \cap PendingServices
    <3>1. /\ pc = "dispatch" /\ pc' = "idle" /\ ret' = "OK"
          /\ array' = KeepTriggered(array)
          /\ owed' = owed \ (X \ PendingServices)
          /\ UNCHANGED storage
      BY <1>6, <2>2 DEF RmwWaitReturns
    <3>2. X = {ServiceOf(IdOf(m)) : m \in result}
      BY <3>1, ReportedAreResults DEF CleanInv
    <3>3. X # {} /\ X \subseteq owed /\ X \subseteq Sources
      BY <2>2, <3>1, <3>2 DEF IndInv, ResultSound, TypeOK
    <3>4. ReportedNow = {} /\ ReportedNow' = X /\ UNCHANGED Stored
      BY <3>1 DEF ReportedNow, Stored, IsStored
    <3>5. owed' = owed \ (X \ again)
      BY <3>1
    <3>. HIDE DEF X, again
    <3>6. again \subseteq X
      BY DEF again
    <3>7. W!Report(X, again)
      BY <3>3, <3>4, <3>5, <3>6 DEF W!Report, ReportedNow
    <3>. QED
      BY <3>3, <3>6, <3>7
  <2>. QED
    BY <2>1, <2>2
<1>7. ~AttachFails /\ ~RunFails /\ \A kind \in WaitableEntity : ~MapFails(kind)
  BY DEF NoFailingCalls, IndInv, MappingAttachable, AttachFails, RunFails, MapFails
<1>. HIDE DEF Sources
<1>8. CASE CallBegins
  BY <1>1, <1>8 DEF CallBegins, W!Next, Sources
<1>9. CASE CallStep
  BY <1>2, <1>3, <1>6, <1>9 DEF CallStep, W!Next, Sources
<1>10. CASE FaultStep
  BY <1>3, <1>4, <1>7, <1>10 DEF FaultStep, W!Next, Sources
<1>11. CASE Notification
  <2>1. \E kind \in WaitableEntity, service \in Services : Notify(kind, service)
    BY <1>11, ServiceNameType
    DEF Notification, TriggerGuardCondition, NotifyTopic, Waitables, WaitableEntity
  <2>2. PICK kind \in WaitableEntity, service \in Services : W!Notify({<<kind, service>>})
    BY <1>5, <2>1
  <2>3. {<<kind, service>>} \in SUBSET (WaitableEntity \X Services)
    OBVIOUS
  <2>. QED
    BY <2>2, <2>3 DEF W!Next
<1>. QED
  BY <1>8, <1>9, <1>10, <1>11 DEF Next

\* rmw_wait implements the specification of what it promises.
THEOREM Refinement ==
    ASSUME NoFailingCalls
    PROVE  Spec => KeepsWakeups
<1>1. Init => CleanInv
  BY DEF Init, CleanInv
<1>2. IndInv /\ CleanInv /\ [Next]_vars => CleanInv'
  BY CleanInductive
<1>3. IndInv /\ CleanInv => Outstanding = owed
  BY OutstandingIsOwed
<1>4. /\ IndInv /\ IndInv' /\ CleanInv /\ [Next]_vars
      /\ Outstanding = owed /\ (Outstanding = owed)'
      => [W!Next]_(W!wakeupVars)
  <2>1. ASSUME UNCHANGED vars PROVE UNCHANGED W!wakeupVars
    <3>1. ReportedNow' = ReportedNow /\ UNCHANGED <<storage, Outstanding>>
      BY <2>1 DEF vars, ReportedNow, Reported, Outstanding, PendingServices, ServiceOf
    <3>. QED
      BY <3>1, QuietStep
  <2>. QED
    BY <2>1, NextRefines
<1>. QED
  BY <1>1, <1>2, <1>3, <1>4, InitRefines, Invariance, PTL DEF Spec, KeepsWakeups, W!Spec
===============================================================================
