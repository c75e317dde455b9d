--------------------------- MODULE LifecycleProofs ----------------------------
(***************************************************************************)
(* Proofs about Lifecycle, for any number of options, contexts and handles.*)
(*                                                                         *)
(* The core is an exact account of what each handle holds at every point   *)
(* of its creation (PiecesExact), and that the context implementation a    *)
(* guard condition is being created on is alive (CreatingOnContext).       *)
(***************************************************************************)
EXTENDS Lifecycle, SequenceTheorems, TLAPS

(***************************************************************************)
(* The inductive invariant                                                 *)
(***************************************************************************)

HandleRecord(n) ==
    [kind : Kinds \cup {"none"}, phase : Phases, node : Handles \cup {NoHandle},
     context : Contexts \cup {Null}, impl : 0 .. n, step : 0 .. 9,
     id : 0 .. (IdSpace - 1), ns : Namespaces \cup {<<>>}]

\* The calls in progress and the live handles.
Active(h) == handle[h].phase \in {"creating", "live"}

\* How far a handle has come, by its phase.
Staged(h) ==
    /\ handle[h].phase = "unused" => handle[h] = Unused
    /\ handle[h].phase # "unused" => handle[h].kind \in Kinds
    /\ Active(h) => handle[h].context \in Contexts
    /\ handle[h].phase = "creating" => handle[h].step < Len(Steps(handle[h].kind))
    /\ handle[h].phase = "live" => handle[h].step = Len(Steps(handle[h].kind))
    /\ (handle[h].kind = "wait_set" \/ HasGuardCondition(handle[h].kind))
          => handle[h].impl # Null
HandlesStaged == \A h \in Handles : Staged(h)

TypeInv == TypeOK /\ Len(impls) <= MaxInits /\ HandlesStaged

\* An initialized context is marked so, and stays the one a guard condition or a
\* node is being created on.
CreatingOnContext ==
    /\ \A c \in Contexts : IsInitialized(c) => context[c].identifier
    /\ \A h \in Handles :
          (handle[h].phase = "creating" /\ HasGuardCondition(handle[h].kind))
              => handle[h].impl = context[handle[h].context].impl

ContextInv == ImplsOwned /\ CreatingOnContext

AllPieces == {"handle", "name", "namespace", "impl", "local_node", "ipc_node", "notifier",
              "waitset", "publisher", "subscriber"}
Has(h, piece) == <<h, piece>> \in held

\* The pieces acquired in the steps taken so far.
Acquired(h) == {Steps(handle[h].kind)[k] : k \in 1 .. handle[h].step} \ Transient

PiecesOf(h) ==
    /\ handle[h].phase = "unused" => \A p \in AllPieces : ~Has(h, p)
    /\ Active(h) => \A p \in AllPieces : Has(h, p) <=> p \in Acquired(h)
    /\ handle[h].phase = "gone" => \A p \in AllPieces : Has(h, p) => p \in Leaked(handle[h].kind)
    /\ Has(h, "graph_handle") => handle[h].kind = "node" /\ handle[h].phase \in {"live", "gone"}
PiecesExact == \A h \in Handles : PiecesOf(h)

\* The step in which a guard condition gets its id.
IdStep(kind) == IF kind = "node" THEN 7 ELSE 3
HasId(h) == Active(h) /\ HasGuardCondition(handle[h].kind) /\ handle[h].step >= IdStep(handle[h].kind)

\* As long as its counter has not wrapped, the ids of a context are below it
\* and differ.
IdsDistinct ==
    \A g \in Handles :
        (HasId(g) /\ impls[handle[g].impl].counter <= IdSpace) =>
            /\ handle[g].id < impls[handle[g].impl].counter
            /\ \A h \in Handles :
                  (HasId(h) /\ h # g /\ handle[h].impl = handle[g].impl)
                      => handle[h].id # handle[g].id

IndInv == TypeInv /\ ContextInv /\ EnclavesAlive /\ PiecesExact /\ IdsDistinct /\ OnlyWaitSetsDangle

(***************************************************************************)
(* The steps of creation, written out                                      *)
(***************************************************************************)

\* rmw_create_node and the constructors of Node and GuardCondition.
LEMMA NodeCreation ==
    \A s : s = Steps("node") =>
           /\ DOMAIN s = 1 .. 9 /\ Len(s) = 9
           /\ s[1] = "handle" /\ s[2] = "name" /\ s[3] = "namespace" /\ s[4] = "impl"
           /\ s[5] = "local_node" /\ s[6] = "ipc_node" /\ s[7] = "trigger_id"
           /\ s[8] = "event_service" /\ s[9] = "notifier"
<1>1. Steps("node") = <<"handle", "name", "namespace", "impl">> \o NodeSteps
  BY Zenon DEF Steps
<1>2. ASSUME NEW s, s = <<"handle", "name", "namespace", "impl">> \o NodeSteps
      PROVE  /\ DOMAIN s = 1 .. 9 /\ Len(s) = 9
             /\ s[1] = "handle" /\ s[2] = "name" /\ s[3] = "namespace" /\ s[4] = "impl"
             /\ s[5] = "local_node" /\ s[6] = "ipc_node" /\ s[7] = "trigger_id"
             /\ s[8] = "event_service" /\ s[9] = "notifier"
  BY <1>2 DEF NodeSteps, Iceoryx2Steps, GuardConditionSteps
<1>3. QED
  BY <1>1, <1>2

\* rmw_create_guard_condition and the constructor of GuardCondition.
LEMMA GuardConditionCreation ==
    \A s : s = Steps("guard_condition") =>
           /\ DOMAIN s = 1 .. 5 /\ Len(s) = 5
           /\ s[1] = "handle" /\ s[2] = "impl" /\ s[3] = "trigger_id"
           /\ s[4] = "event_service" /\ s[5] = "notifier"
<1>1. Steps("guard_condition") = <<"handle", "impl">> \o GuardConditionSteps
  BY Zenon DEF Steps
<1>2. ASSUME NEW s, s = <<"handle", "impl">> \o GuardConditionSteps
      PROVE  /\ DOMAIN s = 1 .. 5 /\ Len(s) = 5
             /\ s[1] = "handle" /\ s[2] = "impl" /\ s[3] = "trigger_id"
             /\ s[4] = "event_service" /\ s[5] = "notifier"
  BY <1>2 DEF GuardConditionSteps
<1>3. QED
  BY <1>1, <1>2

\* rmw_create_wait_set and the constructor of WaitSet.
LEMMA WaitSetCreation ==
    \A s : s = Steps("wait_set") =>
           /\ DOMAIN s = 1 .. 3 /\ Len(s) = 3
           /\ s[1] = "handle" /\ s[2] = "impl" /\ s[3] = "waitset"
<1>1. Steps("wait_set") = <<"handle", "impl">> \o WaitSetSteps
  BY Zenon DEF Steps
<1>2. ASSUME NEW s, s = <<"handle", "impl">> \o WaitSetSteps
      PROVE  /\ DOMAIN s = 1 .. 3 /\ Len(s) = 3
             /\ s[1] = "handle" /\ s[2] = "impl" /\ s[3] = "waitset"
  BY <1>2 DEF WaitSetSteps
<1>3. QED
  BY <1>1, <1>2

\* rmw_create_publisher and the constructor of Publisher.
LEMMA PublisherCreation ==
    \A s : s = Steps("publisher") =>
           /\ DOMAIN s = 1 .. 7 /\ Len(s) = 7
           /\ s[1] = "handle" /\ s[2] = "name" /\ s[3] = "impl" /\ s[4] = "pubsub_service"
           /\ s[5] = "publisher" /\ s[6] = "event_service" /\ s[7] = "notifier"
<1>1. Steps("publisher") = <<"handle", "name", "impl">> \o PublisherSteps
  BY Zenon DEF Steps
<1>2. ASSUME NEW s, s = <<"handle", "name", "impl">> \o PublisherSteps
      PROVE  /\ DOMAIN s = 1 .. 7 /\ Len(s) = 7
             /\ s[1] = "handle" /\ s[2] = "name" /\ s[3] = "impl" /\ s[4] = "pubsub_service"
             /\ s[5] = "publisher" /\ s[6] = "event_service" /\ s[7] = "notifier"
  BY <1>2 DEF PublisherSteps
<1>3. QED
  BY <1>1, <1>2

\* rmw_create_subscription and the constructor of Subscriber.
LEMMA SubscriptionCreation ==
    \A s : s = Steps("subscription") =>
           /\ DOMAIN s = 1 .. 5 /\ Len(s) = 5
           /\ s[1] = "handle" /\ s[2] = "name" /\ s[3] = "impl" /\ s[4] = "pubsub_service"
           /\ s[5] = "subscriber"
<1>1. Steps("subscription") = <<"handle", "name", "impl">> \o SubscriberSteps
  BY Zenon DEF Steps
<1>2. ASSUME NEW s, s = <<"handle", "name", "impl">> \o SubscriberSteps
      PROVE  /\ DOMAIN s = 1 .. 5 /\ Len(s) = 5
             /\ s[1] = "handle" /\ s[2] = "name" /\ s[3] = "impl" /\ s[4] = "pubsub_service"
             /\ s[5] = "subscriber"
  BY <1>2 DEF SubscriberSteps
<1>3. QED
  BY <1>1, <1>2

\* rmw_create_client.
LEMMA ClientCreation ==
    \A s : s = Steps("client") =>
           DOMAIN s = 1 .. 2 /\ Len(s) = 2 /\ s[1] = "handle" /\ s[2] = "name"
<1>1. Steps("client") = <<"handle", "name">>
  BY Zenon DEF Steps
<1>2. ASSUME NEW s, s = <<"handle", "name">>
      PROVE  DOMAIN s = 1 .. 2 /\ Len(s) = 2 /\ s[1] = "handle" /\ s[2] = "name"
  BY <1>2
<1>3. QED
  BY <1>1, <1>2

\* rmw_create_service.
LEMMA ServiceCreation ==
    \A s : s = Steps("service") =>
           DOMAIN s = 1 .. 2 /\ Len(s) = 2 /\ s[1] = "handle" /\ s[2] = "name"
<1>1. Steps("service") = <<"handle", "name">>
  BY Zenon DEF Steps
<1>2. ASSUME NEW s, s = <<"handle", "name">>
      PROVE  DOMAIN s = 1 .. 2 /\ Len(s) = 2 /\ s[1] = "handle" /\ s[2] = "name"
  BY <1>2
<1>3. QED
  BY <1>1, <1>2

\* What the proofs need to know of the steps of every kind: there are at most
\* nine; each leaves a piece or is transient; only guard conditions and nodes
\* get an id, before they get a notifier; only nodes have a namespace and an
\* iceoryx2 node; a wait set has no name.
LEMMA StepFacts ==
    ASSUME NEW kind \in AllKinds
    PROVE  /\ Len(Steps(kind)) \in 1 .. 9 /\ DOMAIN Steps(kind) = 1 .. Len(Steps(kind))
           /\ \A k \in 1 .. Len(Steps(kind)) :
                 /\ Steps(kind)[k] \in AllPieces \cup Transient
                 /\ Steps(kind)[k] = "trigger_id"
                       <=> HasGuardCondition(kind) /\ k = IdStep(kind)
                 /\ (Steps(kind)[k] = "notifier" /\ HasGuardCondition(kind))
                       => k > IdStep(kind)
                 /\ Steps(kind)[k] \in {"namespace", "ipc_node"} => kind = "node"
                 /\ Steps(kind)[k] = "name" => kind # "wait_set"
           /\ kind = "node" => "ipc_node" \in Pieces(kind)
<1> USE DEF HasGuardCondition, IdStep, AllPieces, Transient, Pieces
<1>1. CASE kind = "node"
  BY <1>1, NodeCreation
<1>2. CASE kind = "guard_condition"
  BY <1>2, GuardConditionCreation
<1>3. CASE kind = "wait_set"
  BY <1>3, WaitSetCreation
<1>4. CASE kind = "publisher"
  BY <1>4, PublisherCreation
<1>5. CASE kind = "subscription"
  BY <1>5, SubscriptionCreation
<1>6. CASE kind = "client"
  BY <1>6, ClientCreation
<1>7. CASE kind = "service"
  BY <1>7, ServiceCreation
<1>8. QED
  BY <1>1, <1>2, <1>3, <1>4, <1>5, <1>6, <1>7 DEF AllKinds

(***************************************************************************)
(* Frames                                                                  *)
(***************************************************************************)

\* The kinds of an instance are among the seven of rmw.
LEMMA KindsKnown == \A kind \in Kinds : kind \in AllKinds
BY LifecycleAssumption

\* Handles are none of the numbers of context implementations.
LEMMA HandlesApart == \A h \in Handles : \A i \in 0 .. MaxInits : h # i
BY LifecycleAssumption

\* The types of handles and of the number of implementations, by themselves.
LEMMA HandleTyped ==
    ASSUME TypeInv
    PROVE  /\ handle \in [Handles -> HandleRecord(Len(impls))]
           /\ Len(impls) \in Nat /\ Len(impls) \in 0 .. MaxInits
BY LifecycleAssumption DEF TypeInv, TypeOK, HandleRecord

\* Handles hold what they held.
SameHeld == \A h \in Handles : \A p \in AllPieces \cup {"graph_handle"} : Has(h, p)' <=> Has(h, p)

\* A step that leaves handles and what they hold alone.
LEMMA FrameHandles ==
    ASSUME HandlesStaged, PiecesExact, SameHeld, handle' = handle
    PROVE  HandlesStaged' /\ PiecesExact'
<1>1. HandlesStaged'
  BY DEF HandlesStaged, Staged, Active
<1>2. \A h \in Handles : Acquired(h)' = Acquired(h)
  BY DEF Acquired
<1>3. QED
  BY <1>1, <1>2 DEF PiecesExact, PiecesOf, SameHeld, Active

\* Giving and taking the pieces of handles leaves contexts alone.
SameAlive == \A i \in 1 .. Len(impls) : ImplAlive(i)' <=> ImplAlive(i)
NoneRevived == \A i \in 1 .. Len(impls) : ImplAlive(i)' => ImplAlive(i)

\* A step that leaves contexts and their implementations alone.
LEMMA FrameOwned ==
    ASSUME ImplsOwned, SameAlive, context' = context, Len(impls') = Len(impls)
    PROVE  ImplsOwned'
<1>1. {i \in 1 .. Len(impls') : ImplAlive(i)'} = {i \in 1 .. Len(impls) : ImplAlive(i)}
  BY DEF SameAlive
<1>2. QED
  BY <1>1 DEF ImplsOwned, IsInitialized

\* A step that frees no enclave and leaves the options alone.
LEMMA FrameEnclaves ==
    ASSUME EnclavesAlive, UNCHANGED options,
           \A e : <<e, "enclave">> \in held => <<e, "enclave">> \in held'
    PROVE  EnclavesAlive'
BY DEF EnclavesAlive, StringPiece

\* A step that gives out no id and destroys no holder of one.
LEMMA FrameIds ==
    ASSUME IdsDistinct, UNCHANGED <<handle, impls>>
    PROVE  IdsDistinct'
BY DEF IdsDistinct, HasId, Active

\* A context that was destroyed stays so, and a handle keeps its kind and the
\* context it was created on.
LEMMA FrameDangling ==
    ASSUME TypeInv, OnlyWaitSetsDangle, NoneRevived, dangling' = dangling,
           \A h \in Handles : handle[h].kind # "none" =>
              handle'[h].kind = handle[h].kind /\ handle'[h].impl = handle[h].impl
    PROVE  OnlyWaitSetsDangle'
<1> SUFFICES ASSUME NEW h \in dangling
             PROVE  handle'[h].kind = "wait_set" /\ <<handle'[h].impl, "impl">> \notin held'
  BY DEF OnlyWaitSetsDangle, ImplAlive
<1>1. /\ h \in Handles /\ handle[h].kind = "wait_set"
      /\ <<handle[h].impl, "impl">> \notin held
  BY DEF OnlyWaitSetsDangle, TypeInv, TypeOK, ImplAlive
<1>2. handle'[h].kind = handle[h].kind /\ handle'[h].impl = handle[h].impl
  BY <1>1
<1>3. handle[h].impl \in 1 .. Len(impls)
  BY <1>1, HandleTyped DEF TypeInv, HandlesStaged, Staged, HandleRecord, Null
<1>4. \A i \in 1 .. Len(impls) : <<i, "impl">> \in held' => <<i, "impl">> \in held
  BY DEF NoneRevived, ImplAlive
<1>5. QED
  BY <1>1, <1>2, <1>3, <1>4

(***************************************************************************)
(* Options                                                                 *)
(***************************************************************************)

\* rmw_init_options_init, rmw_init_options_copy and rmw_init_options_fini.
LEMMA OptionsStep ==
    ASSUME IndInv, NEW o \in Options,
           \/ rmw_init_options_init(o) \/ rmw_init_options_fini(o)
           \/ \E dst \in Options : rmw_init_options_copy(o, dst)
    PROVE  IndInv'
<1> USE DEF IndInv
<1>0. UNCHANGED <<context, impls, handle, listeners, dangling>>
  BY DEF rmw_init_options_init, rmw_init_options_fini, rmw_init_options_copy
<1>1. /\ options \in [Options -> [identifier : BOOLEAN, enclave : 0 .. strings]]
      /\ strings \in 0 .. MaxStrings /\ strings \in Nat /\ MaxStrings \in Nat
  BY LifecycleAssumption DEF TypeInv, TypeOK, Strings
<1>2. /\ options' \in [Options -> [identifier : BOOLEAN, enclave : 0 .. strings']]
      /\ strings' \in 0 .. MaxStrings
      /\ EnclavesAlive'
      /\ \E e : held' = held \cup StringPiece(e)
  <2>1. CASE rmw_init_options_init(o)
    <3> PICK e \in {Null, strings + 1} :
          /\ e <= MaxStrings
          /\ strings' = IF e = Null THEN strings ELSE e
          /\ options' = [options EXCEPT ![o] = [identifier |-> TRUE, enclave |-> e]]
          /\ held' = held \cup StringPiece(e)
      BY <2>1 DEF rmw_init_options_init
    <3>1. strings' \in 0 .. MaxStrings /\ strings <= strings' /\ e \in 0 .. strings'
      BY <1>1 DEF Null
    <3>2. options' \in [Options -> [identifier : BOOLEAN, enclave : 0 .. strings']]
      BY <1>1, <3>1
    <3>3. EnclavesAlive'
      <4>1. ASSUME NEW q \in Options PROVE StringPiece(options'[q].enclave) \subseteq held'
        <5>1. CASE q = o
          BY <1>1, <5>1
        <5>2. CASE q # o
          BY <1>1, <5>2 DEF EnclavesAlive
        <5>3. QED
          BY <5>1, <5>2
      <4>2. QED
        BY <4>1 DEF EnclavesAlive, StringPiece
    <3>4. QED
      BY <3>1, <3>2, <3>3
  <2>2. CASE rmw_init_options_fini(o)
    <3>1. options' = [options EXCEPT ![o] = ZeroOptions] /\ UNCHANGED <<strings, held>>
      BY <2>2 DEF rmw_init_options_fini
    <3>2. ZeroOptions \in [identifier : BOOLEAN, enclave : 0 .. strings]
      BY <1>1 DEF ZeroOptions, Null
    <3>3. held' = held \cup StringPiece(Null)
      BY <3>1 DEF StringPiece
    <3>4. QED
      BY <1>1, <3>1, <3>2, <3>3 DEF EnclavesAlive, StringPiece, ZeroOptions
  <2>3. CASE \E dst \in Options : rmw_init_options_copy(o, dst)
    <3> PICK dst \in Options : rmw_init_options_copy(o, dst)
      BY <2>3
    <3>1. options' = [options EXCEPT ![dst] = options[o]] /\ UNCHANGED <<strings, held>>
      BY DEF rmw_init_options_copy
    <3>2. held' = held \cup StringPiece(Null)
      BY <3>1 DEF StringPiece
    <3>3. QED
      BY <1>1, <3>1, <3>2 DEF EnclavesAlive
  <2>4. QED
    BY <2>1, <2>2, <2>3
<1>3. SameHeld /\ SameAlive /\ NoneRevived
  BY <1>2 DEF SameHeld, SameAlive, NoneRevived, Has, ImplAlive, StringPiece, AllPieces
<1>4. HandlesStaged' /\ PiecesExact'
  BY <1>0, <1>3, FrameHandles DEF TypeInv
<1>5. TypeOK' /\ TypeInv'
  BY <1>0, <1>2, <1>4 DEF TypeInv, TypeOK, Strings
<1>6. ContextInv'
  BY <1>0, <1>3, FrameOwned DEF ContextInv, CreatingOnContext, IsInitialized
<1>7. IdsDistinct'
  BY <1>0, FrameIds
<1>8. OnlyWaitSetsDangle'
  BY <1>0, <1>3, FrameDangling
<1>9. QED
  BY <1>2, <1>4, <1>5, <1>6, <1>7, <1>8

(***************************************************************************)
(* Contexts                                                                *)
(***************************************************************************)

\* The pieces of an implementation, and that they are nobody else's.
LEMMA ImplPiecesApart ==
    ASSUME NEW i \in 0 .. MaxInits
    PROVE  /\ <<i, "impl">> \in ImplPieces(i)
           /\ \A j : <<j, "impl">> \in ImplPieces(i) => j = i
           /\ \A h \in Handles : \A p : <<h, p>> \notin ImplPieces(i)
           /\ \A e : <<e, "enclave">> \notin ImplPieces(i)
<1>1. \A j, p : <<j, p>> \in ImplPieces(i) => j = i /\ p \in {"impl", "local_node", "ipc_node"}
  BY DEF ImplPieces, Iceoryx2Steps
<1>2. <<i, "impl">> \in ImplPieces(i)
  BY DEF ImplPieces
<1>3. QED
  BY <1>1, <1>2, HandlesApart

\* The types of contexts and of their implementations, by themselves.
LEMMA ContextTyped ==
    ASSUME TypeInv
    PROVE  /\ context \in [Contexts -> [identifier : BOOLEAN, impl : 0 .. Len(impls)]]
           /\ impls \in Seq([id : InstanceIds, counter : Nat])
BY DEF TypeInv, TypeOK

\* ImplsOwned for one implementation.
LEMMA OwnedPointwise ==
    ASSUME ImplsOwned, NEW i \in 1 .. Len(impls)
    PROVE  <<i, "impl">> \in held <=> \E d \in Contexts : context[d].impl = i
<1>1. i \in {j \in 1 .. Len(impls) : ImplAlive(j)} <=> i \in {context[d].impl : d \in Contexts} \ {Null}
  BY DEF ImplsOwned
<1>2. i # Null
  BY DEF Null
<1>3. QED
  BY <1>1, <1>2 DEF ImplAlive

\* What a step on contexts leaves alone, given what it does to held.
LEMMA ContextFrame ==
    ASSUME IndInv, UNCHANGED <<options, strings, handle, listeners, dangling>>,
           NEW i \in 0 .. MaxInits, held' = held \cup ImplPieces(i) \/ held' = held \ ImplPieces(i)
    PROVE  EnclavesAlive' /\ HandlesStaged' /\ PiecesExact'
<1> USE DEF IndInv
<1>1. SameHeld
  BY ImplPiecesApart DEF SameHeld, Has
<1>2. \A e : <<e, "enclave">> \in held => <<e, "enclave">> \in held'
  BY ImplPiecesApart
<1>3. QED
  BY <1>1, <1>2, FrameHandles, FrameEnclaves DEF TypeInv

\* rmw_init, whether it succeeds or fails.
LEMMA InitStep ==
    ASSUME IndInv, NEW o \in Options, NEW c \in Contexts, NEW instance \in InstanceIds,
           rmw_init(o, c, instance)
    PROVE  IndInv'
<1> USE DEF IndInv
<1>0. UNCHANGED <<options, strings, handle, listeners, dangling>>
  BY DEF rmw_init
<1>1. /\ context \in [Contexts -> [identifier : BOOLEAN, impl : 0 .. Len(impls)]]
      /\ impls \in Seq([id : InstanceIds, counter : Nat])
      /\ context[c].impl = Null
  BY ContextTyped DEF rmw_init, IsZero, ContextInv, CreatingOnContext, IsInitialized
<1>2. CASE context' = [context EXCEPT ![c].identifier = TRUE] /\ UNCHANGED <<impls, held>>
  <2>1. /\ context' \in [Contexts -> [identifier : BOOLEAN, impl : 0 .. Len(impls)]]
        /\ context'[c].identifier
        /\ \A d \in Contexts : context'[d].impl = context[d].impl
        /\ \A d \in Contexts : d # c => context'[d] = context[d]
    BY <1>1, <1>2
  <2>2. TypeInv'
    BY <1>0, <1>2, <2>1 DEF TypeInv, TypeOK, HandlesStaged, Staged, Active, Strings
  <2>3. ContextInv'
    <3>1. {context'[d].impl : d \in Contexts} = {context[d].impl : d \in Contexts}
      BY <2>1
    <3>2. ImplsOwned'
      BY <1>2, <2>1, <3>1 DEF ContextInv, ImplsOwned, IsInitialized, ImplAlive
    <3>3. CreatingOnContext'
      BY <1>0, <2>1 DEF ContextInv, CreatingOnContext, IsInitialized, TypeInv, HandlesStaged, Staged, Active
    <3>4. QED
      BY <3>2, <3>3 DEF ContextInv
  <2>4. EnclavesAlive' /\ PiecesExact' /\ IdsDistinct' /\ OnlyWaitSetsDangle'
    BY <1>0, <1>2, FrameIds DEF EnclavesAlive, StringPiece, PiecesExact, PiecesOf, Active, Acquired, Has,
                                OnlyWaitSetsDangle, ImplAlive
  <2>5. QED
    BY <2>2, <2>3, <2>4
<1>3. CASE /\ Len(impls) < MaxInits
           /\ impls' = Append(impls, [id |-> instance, counter |-> 0])
           /\ context' = [context EXCEPT ![c] = [identifier |-> TRUE, impl |-> Len(impls) + 1]]
           /\ held' = held \cup ImplPieces(Len(impls) + 1)
  <2> DEFINE n == Len(impls)
  <2>0. n \in Nat /\ n + 1 \in 1 .. MaxInits /\ MaxInits \in Nat
    BY <1>1, <1>3, LifecycleAssumption
  <2>1. /\ impls' \in Seq([id : InstanceIds, counter : Nat])
        /\ Len(impls') = n + 1
        /\ \A i \in 1 .. n : impls'[i] = impls[i]
    <3>1. [id |-> instance, counter |-> 0] \in [id : InstanceIds, counter : Nat]
      OBVIOUS
    <3>2. QED
      BY <1>1, <1>3, <3>1
  <2>2. /\ context' \in [Contexts -> [identifier : BOOLEAN, impl : 0 .. (n + 1)]]
        /\ context'[c].identifier /\ context'[c].impl = n + 1
        /\ \A d \in Contexts : d # c => context'[d] = context[d]
    <3>1. \A d \in Contexts : context[d] \in [identifier : BOOLEAN, impl : 0 .. (n + 1)]
      BY <1>1, <2>0
    <3>2. [identifier |-> TRUE, impl |-> n + 1] \in [identifier : BOOLEAN, impl : 0 .. (n + 1)]
      BY <2>0
    <3>3. QED
      BY <1>1, <1>3, <3>1, <3>2
  <2>3. /\ <<n + 1, "impl">> \in held'
        /\ \A i \in 1 .. n : <<i, "impl">> \in held' <=> <<i, "impl">> \in held
    BY <1>3, <2>0, ImplPiecesApart
  <2>4. EnclavesAlive' /\ HandlesStaged' /\ PiecesExact'
    BY <1>0, <1>3, <2>0, ContextFrame
  <2>5. TypeInv'
    <3>1. handle' \in [Handles -> HandleRecord(n + 1)]
      BY <1>0, <2>0, HandleTyped DEF HandleRecord
    <3>2. QED
      BY <1>0, <2>0, <2>1, <2>2, <2>4, <3>1 DEF TypeInv, TypeOK, Strings, HandleRecord
  <2> HIDE DEF n
  <2>6. ImplsOwned'
    <3>1. \A d \in Contexts : context[d].impl \in 0 .. n
      BY <1>1 DEF n
    <3>2. \A i \in 1 .. n : <<i, "impl">> \in held <=> \E d \in Contexts : context[d].impl = i
      BY OwnedPointwise DEF ContextInv, n
    <3>3. \A i \in 1 .. (n + 1) : <<i, "impl">> \in held' <=> \E d \in Contexts : context'[d].impl = i
      <4> SUFFICES ASSUME NEW i \in 1 .. (n + 1)
                   PROVE  <<i, "impl">> \in held' <=> \E d \in Contexts : context'[d].impl = i
        OBVIOUS
      <4>1. CASE i = n + 1
        BY <2>2, <2>3, <4>1
      <4>2. CASE i \in 1 .. n
        <5>1. \A d \in Contexts : context'[d].impl = i <=> context[d].impl = i
          <6>1. i # n + 1 /\ i # Null
            BY <2>0, <4>2 DEF Null
          <6>2. QED
            BY <1>1, <2>2, <6>1
        <5>2. QED
          BY <2>3, <3>2, <4>2, <5>1
      <4>3. QED
        BY <2>0, <4>1, <4>2
    <3>4. \A d \in Contexts : context'[d].impl \in 0 .. (n + 1)
      BY <2>2
    <3>5. {i \in 1 .. Len(impls') : ImplAlive(i)'} = {context'[d].impl : d \in Contexts} \ {Null}
      BY <2>0, <2>1, <3>3, <3>4 DEF ImplAlive, Null
    <3>6. ASSUME NEW d \in Contexts, NEW e \in Contexts, context'[d].impl = context'[e].impl,
                 context'[d].impl # Null
          PROVE  d = e
      BY <2>0, <2>2, <3>1, <3>6 DEF ContextInv, ImplsOwned, IsInitialized
    <3>7. QED
      BY <3>5, <3>6 DEF ImplsOwned, IsInitialized
  <2>7. CreatingOnContext'
    <3>1. \A d \in Contexts : context'[d].impl # Null => context'[d].identifier
      BY <2>2 DEF ContextInv, CreatingOnContext, IsInitialized
    <3>2. ASSUME NEW h \in Handles, handle[h].phase = "creating", HasGuardCondition(handle[h].kind)
          PROVE  handle[h].impl = context'[handle[h].context].impl
      <4>1. /\ handle[h].context \in Contexts /\ handle[h].impl # Null
            /\ handle[h].impl = context[handle[h].context].impl
        BY <3>2 DEF ContextInv, CreatingOnContext, TypeInv, HandlesStaged, Staged, Active
      <4>2. handle[h].context # c
        BY <1>1, <4>1
      <4>3. QED
        BY <2>2, <4>1, <4>2
    <3>3. QED
      BY <1>0, <3>1, <3>2 DEF CreatingOnContext, IsInitialized
  <2>8. IdsDistinct'
    <3>1. \A g \in Handles : HasId(g) => impls'[handle[g].impl] = impls[handle[g].impl]
      BY <2>1, HandleTyped DEF HasId, TypeInv, HandlesStaged, Staged, HandleRecord, Null, n
    <3>2. QED
      BY <1>0, <3>1 DEF IdsDistinct, HasId, Active
  <2>9. OnlyWaitSetsDangle'
    <3>1. NoneRevived
      BY <2>3 DEF NoneRevived, ImplAlive, n
    <3>2. QED
      BY <1>0, <3>1, FrameDangling
  <2>10. QED
    BY <2>4, <2>5, <2>6, <2>7, <2>8, <2>9 DEF ContextInv
<1>4. QED
  BY <1>2, <1>3 DEF rmw_init

\* rmw_shutdown: the implementation goes; no call on the context is under way.
LEMMA ShutdownStep ==
    ASSUME IndInv, NEW c \in Contexts, rmw_shutdown(c)
    PROVE  IndInv'
<1> USE DEF IndInv
<1> DEFINE n == Len(impls)
           k == context[c].impl
<1>0. UNCHANGED <<options, impls, strings, handle, listeners, dangling>>
  BY DEF rmw_shutdown
<1>1. /\ context \in [Contexts -> [identifier : BOOLEAN, impl : 0 .. n]]
      /\ n \in Nat /\ k \in 0 .. n /\ k \in 0 .. MaxInits
  <2>1. context \in [Contexts -> [identifier : BOOLEAN, impl : 0 .. n]] /\ n \in 0 .. MaxInits
    BY ContextTyped, HandleTyped
  <2>2. k \in 0 .. n
    BY <2>1
  <2>3. QED
    BY <2>1, <2>2, LifecycleAssumption
<1>2. /\ context' \in [Contexts -> [identifier : BOOLEAN, impl : 0 .. n]]
      /\ context'[c].impl = Null
      /\ \A d \in Contexts : d # c => context'[d] = context[d]
  BY <1>1 DEF rmw_shutdown, Null
<1>3. held' = held \ ImplPieces(k)
  BY DEF rmw_shutdown
<1>4. EnclavesAlive' /\ HandlesStaged' /\ PiecesExact'
  BY <1>0, <1>1, <1>3, ContextFrame
<1>5. TypeInv'
  BY <1>0, <1>2, <1>4 DEF TypeInv, TypeOK, Strings
<1>6. \A i \in 1 .. n : <<i, "impl">> \in held' <=> <<i, "impl">> \in held /\ i # k
  BY <1>1, <1>3, ImplPiecesApart
<1>7. ImplsOwned'
  <2>1. \A i \in 1 .. n : <<i, "impl">> \in held <=> \E d \in Contexts : context[d].impl = i
    BY OwnedPointwise DEF ContextInv
  <2> HIDE DEF n, k
  <2>2. \A i \in 1 .. n : <<i, "impl">> \in held' <=> \E d \in Contexts : context'[d].impl = i
    <3> SUFFICES ASSUME NEW i \in 1 .. n
                 PROVE  <<i, "impl">> \in held' <=> \E d \in Contexts : context'[d].impl = i
      OBVIOUS
    <3>0. i # Null
      BY DEF Null
    <3>1. \A d \in Contexts : context'[d].impl = i <=> d # c /\ context[d].impl = i
      BY <1>2, <3>0
    <3>2. \A d \in Contexts : d # c /\ context[d].impl = i => i # k
      BY <3>0 DEF ContextInv, ImplsOwned, IsInitialized, k
    <3>3. \A d \in Contexts : context[d].impl = i /\ i # k => d # c
      BY DEF k
    <3>4. QED
      BY <1>6, <2>1, <3>1, <3>2, <3>3
  <2>3. \A d \in Contexts : context'[d].impl \in 0 .. n
    BY <1>2
  <2>4. {i \in 1 .. Len(impls') : ImplAlive(i)'} = {context'[d].impl : d \in Contexts} \ {Null}
    BY <1>0, <1>1, <2>2, <2>3 DEF ImplAlive, Null, n
  <2>5. ASSUME NEW d \in Contexts, NEW e \in Contexts, context'[d].impl = context'[e].impl,
               context'[d].impl # Null
        PROVE  d = e
    BY <1>2, <2>5 DEF ContextInv, ImplsOwned, IsInitialized
  <2>6. QED
    BY <2>4, <2>5 DEF ImplsOwned, IsInitialized
<1>8. CreatingOnContext'
  <2>1. \A d \in Contexts : context'[d].impl # Null => context'[d].identifier
    BY <1>2 DEF ContextInv, CreatingOnContext, IsInitialized
  <2>2. ASSUME NEW h \in Handles, handle[h].phase = "creating", HasGuardCondition(handle[h].kind)
        PROVE  handle[h].impl = context'[handle[h].context].impl
    <3>1. /\ handle[h].context \in Contexts /\ handle[h].context # c
          /\ handle[h].impl = context[handle[h].context].impl
      BY <2>2 DEF ContextInv, CreatingOnContext, TypeInv, HandlesStaged, Staged, Active, rmw_shutdown, Quiet
    <3>2. QED
      BY <1>2, <3>1
  <2>3. QED
    BY <1>0, <2>1, <2>2 DEF CreatingOnContext, IsInitialized
<1>9. IdsDistinct'
  BY <1>0, FrameIds
<1>10. OnlyWaitSetsDangle'
  <2>1. NoneRevived
    BY <1>6 DEF NoneRevived, ImplAlive
  <2>2. QED
    BY <1>0, <2>1, FrameDangling
<1>11. QED
  BY <1>4, <1>5, <1>7, <1>8, <1>9, <1>10 DEF ContextInv

\* rmw_context_fini: only after rmw_shutdown.
LEMMA FiniStep ==
    ASSUME IndInv, NEW c \in Contexts, rmw_context_fini(c)
    PROVE  IndInv'
<1> USE DEF IndInv
<1>0. /\ UNCHANGED <<options, impls, strings, handle, listeners, held, dangling>>
      /\ context[c].impl = Null /\ context' = [context EXCEPT ![c] = ZeroContext]
  BY DEF rmw_context_fini, IsInitialized
<1>1. /\ context \in [Contexts -> [identifier : BOOLEAN, impl : 0 .. Len(impls)]]
      /\ ZeroContext \in [identifier : BOOLEAN, impl : 0 .. Len(impls)]
  BY ContextTyped, HandleTyped DEF ZeroContext, Null
<1>2. /\ context' \in [Contexts -> [identifier : BOOLEAN, impl : 0 .. Len(impls)]]
      /\ \A d \in Contexts : context'[d].impl = context[d].impl
      /\ \A d \in Contexts : d # c => context'[d] = context[d]
  BY <1>0, <1>1 DEF ZeroContext
<1>3. TypeInv'
  BY <1>0, <1>2 DEF TypeInv, TypeOK, HandlesStaged, Staged, Active, Strings
<1>4. ImplsOwned'
  <2>1. {context'[d].impl : d \in Contexts} = {context[d].impl : d \in Contexts}
    BY <1>2
  <2>2. QED
    BY <1>0, <1>2, <2>1 DEF ContextInv, ImplsOwned, IsInitialized, ImplAlive
<1>5. CreatingOnContext'
  BY <1>0, <1>2 DEF ContextInv, CreatingOnContext, IsInitialized, TypeInv, HandlesStaged, Staged, Active
<1>6. EnclavesAlive' /\ PiecesExact' /\ IdsDistinct' /\ OnlyWaitSetsDangle'
  BY <1>0, FrameIds DEF EnclavesAlive, StringPiece, PiecesExact, PiecesOf, Active, Acquired, Has,
                        OnlyWaitSetsDangle, ImplAlive
<1>7. QED
  BY <1>3, <1>4, <1>5, <1>6 DEF ContextInv

(***************************************************************************)
(* Steps on one handle                                                     *)
(***************************************************************************)

\* Only pieces of h come and go.
OnlyOf(h) ==
    \A x, p : (x # h \/ p = "enclave") => (<<x, p>> \in held' <=> <<x, p>> \in held)

\* What has to be shown of a step on one handle.
LEMMA HandleFrame ==
    ASSUME IndInv, NEW h \in Handles,
           UNCHANGED <<options, context, strings, dangling>>, OnlyOf(h),
           impls' \in Seq([id : InstanceIds, counter : Nat]), Len(impls') = Len(impls),
           handle' \in [Handles -> HandleRecord(Len(impls))],
           \A g \in Handles : g # h => handle'[g] = handle[g],
           handle[h].kind # "none" =>
               handle'[h].kind = handle[h].kind /\ handle'[h].impl = handle[h].impl,
           (handle'[h].phase = "creating" /\ HasGuardCondition(handle'[h].kind))
               => handle'[h].impl = context[handle'[h].context].impl,
           Staged(h)', PiecesOf(h)', IdsDistinct'
    PROVE  IndInv'
<1> USE DEF IndInv
<1>1. SameAlive /\ NoneRevived
  <2>1. \A i \in 1 .. Len(impls) : i # h
    <3>1. Len(impls) \in 0 .. MaxInits /\ MaxInits \in Nat
      BY HandleTyped, LifecycleAssumption
    <3>2. \A i \in 1 .. Len(impls) : i \in 0 .. MaxInits
      BY <3>1
    <3>3. QED
      BY <3>2, HandlesApart
  <2>2. QED
    BY <2>1 DEF SameAlive, NoneRevived, ImplAlive, OnlyOf
<1>2. ImplsOwned'
  BY <1>1, FrameOwned DEF ContextInv
<1>3. CreatingOnContext'
  <2>1. ASSUME NEW g \in Handles, handle'[g].phase = "creating", HasGuardCondition(handle'[g].kind)
        PROVE  handle'[g].impl = context[handle'[g].context].impl
    <3>1. CASE g = h
      BY <2>1, <3>1
    <3>2. CASE g # h
      <4>1. handle'[g] = handle[g]
        BY <3>2
      <4>2. handle[g].impl = context[handle[g].context].impl
        BY <2>1, <4>1 DEF ContextInv, CreatingOnContext
      <4>3. QED
        BY <4>1, <4>2
    <3>3. QED
      BY <3>1, <3>2
  <2>2. QED
    BY <2>1 DEF ContextInv, CreatingOnContext, IsInitialized
<1>4. EnclavesAlive'
  BY FrameEnclaves DEF OnlyOf
<1>5. HandlesStaged'
  <2>1. ASSUME NEW g \in Handles, g # h PROVE Staged(g)'
    <3>1. handle'[g] = handle[g] /\ Staged(g)
      BY <2>1 DEF TypeInv, HandlesStaged
    <3>2. QED
      BY <3>1 DEF Staged, Active
  <2>2. QED
    BY <2>1 DEF HandlesStaged
<1>6. PiecesExact'
  <2>1. ASSUME NEW g \in Handles, g # h PROVE PiecesOf(g)'
    <3>1. handle'[g] = handle[g] /\ PiecesOf(g)
      BY <2>1 DEF PiecesExact
    <3>2. \A p : Has(g, p)' <=> Has(g, p)
      BY <2>1 DEF Has, OnlyOf
    <3>3. Acquired(g)' = Acquired(g)
      BY <3>1 DEF Acquired
    <3>4. QED
      BY <3>1, <3>2, <3>3 DEF PiecesOf, Active
  <2>2. QED
    BY <2>1 DEF PiecesExact
<1>7. TypeInv'
  BY <1>5 DEF TypeInv, TypeOK, Strings, HandleRecord
<1>8. OnlyWaitSetsDangle'
  BY <1>1, FrameDangling
<1>9. QED
  BY <1>2, <1>3, <1>4, <1>6, <1>7, <1>8 DEF ContextInv

\* A step that gives no id keeps the ids distinct.
LEMMA FrameIdsOne ==
    ASSUME IdsDistinct, NEW h \in Handles, impls' = impls,
           \A g \in Handles : g # h => handle'[g] = handle[g],
           HasId(h)' => HasId(h) /\ handle'[h].id = handle[h].id /\ handle'[h].impl = handle[h].impl
    PROVE  IdsDistinct'
<1>1. \A g \in Handles : HasId(g)' =>
          HasId(g) /\ handle'[g].id = handle[g].id /\ handle'[g].impl = handle[g].impl
  BY DEF HasId, Active
<1>2. QED
  BY <1>1 DEF IdsDistinct

\* The fields of a handle that has not been used.
LEMMA UnusedRecord ==
    ASSUME TypeInv
    PROVE  /\ Unused \in HandleRecord(Len(impls)) /\ Unused.phase = "unused"
           /\ Unused.kind = "none" /\ Unused.step = 0 /\ Unused.id = 0
<1>1. IdSpace \in Nat \ {0} /\ Len(impls) \in Nat
  BY LifecycleAssumption, HandleTyped
<1>2. QED
  BY <1>1 DEF Unused, HandleRecord, Phases, Null

\* The checks at the beginning of a create function, once they pass.
LEMMA BeginStep ==
    ASSUME IndInv, NEW h \in Handles, NEW kind, NEW n \in Handles \cup {NoHandle},
           NEW c \in Contexts, NEW ns \in Namespaces \cup {<<>>}, Begin(h, kind, n, c, ns),
           kind = "wait_set" \/ HasGuardCondition(kind) => IsInitialized(c)
    PROVE  IndInv'
<1>0. TypeInv /\ kind \in Kinds
  BY DEF IndInv, Begin
<1> DEFINE new == [Unused EXCEPT !.kind = kind, !.phase = "creating", !.node = n, !.context = c,
                                 !.impl = context[c].impl, !.ns = ns]
<1>1. /\ handle[h] = Unused /\ handle' = [handle EXCEPT ![h] = new]
      /\ UNCHANGED <<options, context, impls, strings, listeners, held, dangling>>
  BY DEF Begin
<1>2. /\ new \in HandleRecord(Len(impls))
      /\ new.kind = kind /\ new.phase = "creating" /\ new.context = c
      /\ new.impl = context[c].impl /\ new.step = 0
  <2>1. context[c].impl \in 0 .. Len(impls)
    BY <1>0, ContextTyped
  <2>2. /\ Unused \in HandleRecord(Len(impls)) /\ Unused.step = 0
        /\ new = [Unused EXCEPT !.kind = kind, !.phase = "creating", !.node = n,
                                !.context = c, !.impl = context[c].impl, !.ns = ns]
    BY <1>0, UnusedRecord
  <2> HIDE DEF new
  <2>3. QED
    BY <1>0, <2>1, <2>2 DEF HandleRecord, Phases
<1> HIDE DEF new
<1>3. /\ handle' \in [Handles -> HandleRecord(Len(impls))] /\ handle'[h] = new
      /\ \A g \in Handles : g # h => handle'[g] = handle[g]
  BY <1>0, <1>1, <1>2, HandleTyped
<1>4. Staged(h)'
  <2>1. Len(Steps(kind)) \in 1 .. 9
    BY <1>0, KindsKnown, StepFacts
  <2>2. /\ handle'[h].kind = kind /\ handle'[h].phase = "creating" /\ handle'[h].step = 0
        /\ handle'[h].context = c /\ handle'[h].impl = context[c].impl
    BY <1>2, <1>3
  <2>3. HasGuardCondition(handle'[h].kind) = HasGuardCondition(kind)
    BY <2>2
  <2>4. QED
    BY <1>0, <1>1, <2>1, <2>2, <2>3 DEF Staged, Active, IsInitialized
<1>5. PiecesOf(h)'
  <2>1. Acquired(h)' = {}
    BY <1>2, <1>3 DEF Acquired
  <2>2. PiecesOf(h) /\ handle[h].phase = "unused" /\ handle[h].kind = "none"
    BY <1>1 DEF IndInv, PiecesExact, Unused
  <2>3. \A p : Has(h, p)' <=> Has(h, p)
    BY <1>1 DEF Has
  <2>4. \A p \in AllPieces \cup {"graph_handle"} : ~Has(h, p)
    BY <2>2 DEF PiecesOf
  <2>5. handle'[h].phase = "creating"
    BY <1>2, <1>3
  <2>6. QED
    BY <2>1, <2>3, <2>4, <2>5 DEF PiecesOf, Active
<1>6. IdsDistinct'
  <2>1. ~HasId(h)'
    BY <1>2, <1>3 DEF HasId, IdStep
  <2>2. QED
    BY <1>1, <1>3, <2>1, FrameIdsOne DEF IndInv
<1>7. handle[h].kind = "none"
  BY <1>1 DEF Unused
<1>8. OnlyOf(h) /\ impls' \in Seq([id : InstanceIds, counter : Nat])
  BY <1>0, <1>1, ContextTyped DEF OnlyOf
<1>9. handle'[h].impl = context[handle'[h].context].impl
  BY <1>2, <1>3
<1>10. QED
  BY <1>1, <1>3, <1>4, <1>5, <1>6, <1>7, <1>8, <1>9, HandleFrame

\* The next step of a creation is a step of its kind.
LEMMA NextStepFacts ==
    ASSUME TypeInv, NEW h \in Handles, handle[h].phase = "creating"
    PROVE  /\ handle[h].kind \in Kinds /\ handle[h].kind \in AllKinds
           /\ handle[h].step \in Nat /\ handle[h].step + 1 \in 1 .. Len(Steps(handle[h].kind))
           /\ Len(Steps(handle[h].kind)) \in 1 .. 9
           /\ NextStep(h) \in AllPieces \cup Transient
           /\ NextStep(h) = "trigger_id"
                 <=> HasGuardCondition(handle[h].kind) /\ handle[h].step + 1 = IdStep(handle[h].kind)
<1>1. /\ handle[h].kind \in Kinds /\ handle[h].step < Len(Steps(handle[h].kind))
      /\ handle[h].step \in 0 .. 9
  BY HandleTyped DEF TypeInv, HandlesStaged, Staged, HandleRecord
<1>2. handle[h].kind \in AllKinds
  BY <1>1, KindsKnown
<1>3. Len(Steps(handle[h].kind)) \in 1 .. 9
  BY <1>2, StepFacts
<1>4. handle[h].step + 1 \in 1 .. Len(Steps(handle[h].kind))
  BY <1>1, <1>3
<1>5. QED
  BY <1>1, <1>2, <1>3, <1>4, StepFacts DEF NextStep

\* What a step taken does to the handle.
HasAdvanced(h) ==
    /\ handle' \in [Handles -> HandleRecord(Len(impls))]
    /\ \A g \in Handles : g # h => handle'[g] = handle[g]
    /\ handle'[h].kind = handle[h].kind /\ handle'[h].impl = handle[h].impl
    /\ handle'[h].context = handle[h].context
    /\ handle'[h].step = handle[h].step + 1
    /\ handle'[h].phase = IF handle[h].step + 1 = Len(Steps(handle[h].kind))
                          THEN "live" ELSE "creating"

\* The fields of a handle after a step of its creation.
LEMMA AdvanceRecord ==
    ASSUME TypeInv, NEW h \in Handles, handle[h].phase = "creating"
    PROVE  /\ Advance(h) \in HandleRecord(Len(impls))
           /\ Advance(h).kind = handle[h].kind /\ Advance(h).impl = handle[h].impl
           /\ Advance(h).context = handle[h].context /\ Advance(h).id = handle[h].id
           /\ Advance(h).step = handle[h].step + 1
           /\ Advance(h).phase = IF handle[h].step + 1 = Len(Steps(handle[h].kind))
                                 THEN "live" ELSE "creating"
<1>1. handle[h] \in HandleRecord(Len(impls))
  BY HandleTyped
<1>2. handle[h].step + 1 \in 0 .. 9
  <2>1. /\ handle[h].step \in Nat /\ handle[h].step + 1 \in 1 .. Len(Steps(handle[h].kind))
        /\ Len(Steps(handle[h].kind)) \in 1 .. 9
    BY NextStepFacts
  <2>2. \A m \in Nat : \A n \in 1 .. 9 : m + 1 \in 1 .. n => m + 1 \in 0 .. 9
    OBVIOUS
  <2>3. QED
    BY <2>1, <2>2
<1> DEFINE r == handle[h]
           phase == IF handle[h].step + 1 = Len(Steps(handle[h].kind)) THEN "live" ELSE "creating"
<1>3. Advance(h) = [r EXCEPT !.step = r.step + 1, !.phase = phase]
  BY <1>1 DEF Advance, HandleRecord
<1>4. r \in HandleRecord(Len(impls)) /\ r.step + 1 \in 0 .. 9 /\ phase \in {"live", "creating"}
  BY <1>1, <1>2
<1> HIDE DEF r, phase
<1>5. /\ Advance(h) \in HandleRecord(Len(impls))
      /\ Advance(h).kind = r.kind /\ Advance(h).impl = r.impl
      /\ Advance(h).context = r.context /\ Advance(h).id = r.id
      /\ Advance(h).step = r.step + 1 /\ Advance(h).phase = phase
  BY <1>3, <1>4 DEF HandleRecord, Phases
<1>6. QED
  BY <1>5 DEF r, phase

\* A step of a creation adds its piece to what the handle has acquired.
LEMMA AdvancedStage ==
    ASSUME TypeInv, NEW h \in Handles, handle[h].phase = "creating", HasAdvanced(h)
    PROVE  /\ Staged(h)' /\ Active(h)'
           /\ Acquired(h)' = Acquired(h) \cup ({NextStep(h)} \ Transient)
<1> DEFINE kind == handle[h].kind
           step == handle[h].step
<1>1. kind \in Kinds /\ step \in Nat /\ step + 1 \in 1 .. Len(Steps(kind)) /\ Len(Steps(kind)) \in 1 .. 9
  BY NextStepFacts
<1>2. /\ handle[h].context \in Contexts
      /\ (kind = "wait_set" \/ HasGuardCondition(kind)) => handle[h].impl # Null
  BY DEF TypeInv, HandlesStaged, Staged, Active
<1>3. /\ handle'[h].kind = kind /\ handle'[h].impl = handle[h].impl
      /\ handle'[h].context = handle[h].context /\ handle'[h].step = step + 1
      /\ handle'[h].phase = IF step + 1 = Len(Steps(kind)) THEN "live" ELSE "creating"
  BY DEF HasAdvanced
<1>4. /\ Steps(handle'[h].kind) = Steps(kind)
      /\ HasGuardCondition(handle'[h].kind) = HasGuardCondition(kind)
  BY <1>3
<1>5. Acquired(h)' = Acquired(h) \cup ({NextStep(h)} \ Transient)
  <2>1. Acquired(h)' = {Steps(kind)[k] : k \in 1 .. (step + 1)} \ Transient
    BY <1>3, <1>4 DEF Acquired
  <2> DEFINE s == Steps(kind)
  <2>2. NextStep(h) = s[step + 1] /\ Acquired(h) = {s[k] : k \in 1 .. step} \ Transient
    BY DEF NextStep, Acquired
  <2> HIDE DEF s, step
  <2>3. {s[k] : k \in 1 .. (step + 1)} = {s[k] : k \in 1 .. step} \cup {s[step + 1]}
    <3>1. 1 .. (step + 1) = (1 .. step) \cup {step + 1}
      BY <1>1
    <3>2. QED
      BY <3>1
  <2>4. QED
    BY <2>1, <2>2, <2>3 DEF s
<1> HIDE DEF kind, step
<1>6. Staged(h)' /\ Active(h)'
  BY <1>1, <1>2, <1>3, <1>4 DEF Staged, Active
<1>7. QED
  BY <1>5, <1>6

\* allocate, allocate_copy and create_in_place succeed.
LEMMA AcquireStep ==
    ASSUME IndInv, NEW h \in Handles, Acquire(h)
    PROVE  IndInv'
<1>0. /\ TypeInv /\ handle[h].phase = "creating" /\ NextStep(h) # "trigger_id"
      /\ UNCHANGED <<options, context, impls, strings, listeners, dangling>>
  BY DEF IndInv, Acquire
<1>1. HasAdvanced(h)
  <2>1. handle' = [handle EXCEPT ![h] = Advance(h)]
    BY DEF Acquire
  <2>2. QED
    BY <1>0, <2>1, AdvanceRecord, HandleTyped DEF HasAdvanced
<1>2. Staged(h)' /\ Active(h)' /\ Acquired(h)' = Acquired(h) \cup ({NextStep(h)} \ Transient)
  BY <1>0, <1>1, AdvancedStage
<1>3. NextStep(h) \in AllPieces \cup Transient
  BY <1>0, NextStepFacts
<1>4. \A x, p : <<x, p>> \in held' <=> \/ <<x, p>> \in held
                                       \/ x = h /\ p = NextStep(h) /\ p \notin Transient
  BY DEF Acquire
<1>5. OnlyOf(h)
  BY <1>3, <1>4 DEF OnlyOf, AllPieces, Transient
<1>6. PiecesOf(h)'
  <2>1. \A p \in AllPieces : Has(h, p) <=> p \in Acquired(h)
    BY <1>0 DEF IndInv, PiecesExact, PiecesOf, Active
  <2>2. \A p \in AllPieces : Has(h, p)' <=> p \in Acquired(h)'
    BY <1>2, <1>4, <2>1 DEF Has
  <2>3. ~Has(h, "graph_handle")
    BY <1>0 DEF IndInv, PiecesExact, PiecesOf
  <2>4. ~Has(h, "graph_handle")'
    BY <1>3, <1>4, <2>3 DEF Has, AllPieces, Transient
  <2>5. QED
    BY <1>2, <2>2, <2>4 DEF PiecesOf, Active
<1>7. /\ handle'[h].kind = handle[h].kind /\ handle'[h].impl = handle[h].impl
      /\ handle'[h].context = handle[h].context
  BY <1>1 DEF HasAdvanced
<1>8. IdsDistinct'
  <2>1. handle'[h].id = handle[h].id /\ handle'[h].step = handle[h].step + 1
    BY <1>0, AdvanceRecord, HandleTyped DEF Acquire
  <2>2. HasId(h)' => HasId(h)
    <3>1. /\ HasGuardCondition(handle'[h].kind) = HasGuardCondition(handle[h].kind)
          /\ IdStep(handle'[h].kind) = IdStep(handle[h].kind)
      BY <1>7
    <3>2. HasGuardCondition(handle[h].kind) => handle[h].step + 1 # IdStep(handle[h].kind)
      BY <1>0, NextStepFacts
    <3>3. handle[h].step \in Nat /\ IdStep(handle[h].kind) \in Nat
      BY <1>0, NextStepFacts DEF IdStep
    <3>4. QED
      BY <1>0, <2>1, <3>1, <3>2, <3>3 DEF HasId, Active
  <2>3. QED
    BY <1>0, <1>1, <1>7, <2>1, <2>2, FrameIdsOne DEF IndInv, HasAdvanced
<1>9. HasGuardCondition(handle'[h].kind) => handle'[h].impl = context[handle'[h].context].impl
  BY <1>0, <1>7 DEF IndInv, ContextInv, CreatingOnContext
<1>10. impls' \in Seq([id : InstanceIds, counter : Nat]) /\ Len(impls') = Len(impls)
  BY <1>0, ContextTyped
<1>11. QED
  BY <1>0, <1>1, <1>2, <1>5, <1>6, <1>7, <1>8, <1>9, <1>10, HandleFrame DEF HasAdvanced

\* A guard condition or node in creation is on a context that is alive.
LEMMA CreatingAlive ==
    ASSUME IndInv, NEW h \in Handles, handle[h].phase = "creating",
           HasGuardCondition(handle[h].kind)
    PROVE  handle[h].impl \in 1 .. Len(impls) /\ ImplAlive(handle[h].impl)
<1>0. TypeInv
  BY DEF IndInv
<1>1. /\ handle[h].impl = context[handle[h].context].impl /\ handle[h].context \in Contexts
      /\ handle[h].impl # Null
  BY DEF IndInv, ContextInv, CreatingOnContext, TypeInv, HandlesStaged, Staged, Active
<1>2. handle[h].impl \in 0 .. Len(impls)
  BY <1>0, HandleTyped DEF HandleRecord
<1>3. handle[h].impl \in 1 .. Len(impls)
  BY <1>1, <1>2 DEF Null
<1>4. <<handle[h].impl, "impl">> \in held
  BY <1>1, <1>3, OwnedPointwise DEF IndInv, ContextInv
<1>5. QED
  BY <1>3, <1>4 DEF ImplAlive

\* What is used of the remainder by which an id is kept in its width.
LEMMA ModFacts ==
    ASSUME NEW m \in Nat, NEW n \in Nat \ {0}
    PROVE  m % n \in 0 .. (n - 1) /\ (m < n => m % n = m)
OBVIOUS

\* generate_guard_condition_id.
LEMMA IdStepTaken ==
    ASSUME IndInv, NEW h \in Handles, generate_guard_condition_id(h)
    PROVE  IndInv'
<1> DEFINE i == handle[h].impl
           c == impls[i].counter
<1>0. /\ TypeInv /\ handle[h].phase = "creating" /\ NextStep(h) = "trigger_id"
      /\ UNCHANGED <<options, context, strings, listeners, held>>
  BY DEF IndInv, generate_guard_condition_id
<1>1. /\ HasGuardCondition(handle[h].kind) /\ handle[h].step \in Nat
      /\ handle[h].step + 1 = IdStep(handle[h].kind)
  BY <1>0, NextStepFacts
<1>2. i \in 1 .. Len(impls) /\ ImplAlive(i) /\ i # Null
  BY <1>0, <1>1, CreatingAlive DEF Null
<1>3. dangling' = dangling
  BY <1>2 DEF generate_guard_condition_id, Reaches
<1>4. impls \in Seq([id : InstanceIds, counter : Nat]) /\ c \in Nat /\ IdSpace \in Nat \ {0}
  <2>1. impls \in Seq([id : InstanceIds, counter : Nat])
    BY <1>0, ContextTyped
  <2>2. impls[i] \in [id : InstanceIds, counter : Nat]
    BY <1>2, <2>1, ElementOfSeq
  <2>3. QED
    BY <2>1, <2>2, LifecycleAssumption
<1>5. /\ impls' \in Seq([id : InstanceIds, counter : Nat]) /\ Len(impls') = Len(impls)
      /\ impls'[i].counter = c + 1
      /\ \A k \in 1 .. Len(impls) : k # i => impls'[k] = impls[k]
  <2>1. impls' = [k \in 1 .. Len(impls) |->
                    IF k = i THEN [impls[k] EXCEPT !.counter = @ + 1] ELSE impls[k]]
    BY <1>4 DEF generate_guard_condition_id
  <2>2. \A k \in 1 .. Len(impls) : impls[k] \in [id : InstanceIds, counter : Nat]
    BY <1>4, ElementOfSeq
  <2>3. \A k \in 1 .. Len(impls) : impls'[k] \in [id : InstanceIds, counter : Nat]
    BY <2>1, <2>2
  <2>4. DOMAIN impls' = 1 .. Len(impls) /\ Len(impls) \in Nat
    BY <1>4, <2>1
  <2>5. impls' \in Seq([id : InstanceIds, counter : Nat]) /\ Len(impls') = Len(impls)
    BY <2>1, <2>3, <2>4
  <2>6. QED
    BY <1>2, <2>1, <2>2, <2>5
<1>6. c % IdSpace \in 0 .. (IdSpace - 1) /\ (c < IdSpace => c % IdSpace = c)
  BY <1>4, ModFacts
<1>7. HasAdvanced(h) /\ handle'[h].id = c % IdSpace
  <2>1. handle' = [handle EXCEPT ![h] = [Advance(h) EXCEPT !.id = c % IdSpace]]
    BY <1>2 DEF generate_guard_condition_id
  <2> DEFINE a == Advance(h)
             d == c % IdSpace
             b == [a EXCEPT !.id = d]
  <2>2. a \in HandleRecord(Len(impls)) /\ d \in 0 .. (IdSpace - 1)
    BY <1>0, <1>6, AdvanceRecord
  <2> HIDE DEF a, d
  <2>3. /\ b \in HandleRecord(Len(impls)) /\ b.id = d
        /\ b.kind = a.kind /\ b.impl = a.impl /\ b.context = a.context
        /\ b.step = a.step /\ b.phase = a.phase
    BY <2>2 DEF HandleRecord
  <2>4. handle' = [handle EXCEPT ![h] = b]
    BY <2>1 DEF a, d
  <2> HIDE DEF b
  <2>5. /\ handle' \in [Handles -> HandleRecord(Len(impls))] /\ handle'[h] = b
        /\ \A g \in Handles : g # h => handle'[g] = handle[g]
    BY <1>0, <2>3, <2>4, HandleTyped
  <2>6. QED
    BY <1>0, <2>3, <2>5, AdvanceRecord DEF HasAdvanced, a, d
<1>8. Staged(h)' /\ Active(h)' /\ Acquired(h)' = Acquired(h) \cup ({NextStep(h)} \ Transient)
  BY <1>0, <1>7, AdvancedStage
<1>9. PiecesOf(h)'
  <2>1. Acquired(h)' = Acquired(h)
    BY <1>0, <1>8 DEF Transient
  <2>2. /\ \A p \in AllPieces : Has(h, p) <=> p \in Acquired(h)
        /\ ~Has(h, "graph_handle")
    BY <1>0 DEF IndInv, PiecesExact, PiecesOf, Active
  <2>3. \A p : Has(h, p)' <=> Has(h, p)
    BY <1>0 DEF Has
  <2>4. QED
    BY <1>8, <2>1, <2>2, <2>3 DEF PiecesOf, Active
<1>10. /\ handle'[h].kind = handle[h].kind /\ handle'[h].impl = i
       /\ handle'[h].context = handle[h].context
       /\ \A g \in Handles : g # h => handle'[g] = handle[g]
  BY <1>7 DEF HasAdvanced
<1>11. IdsDistinct'
  <2>1. \A g \in Handles : g # h => (HasId(g)' <=> HasId(g))
    BY <1>10 DEF HasId, Active
  <2>2. \A g \in Handles : HasId(g) => handle[g].impl \in 1 .. Len(impls) /\ handle[g].id \in Nat
    <3>1. \A g \in Handles : HasId(g) => handle[g].impl # Null
      BY <1>0 DEF HasId, TypeInv, HandlesStaged, Staged
    <3>2. \A g \in Handles : handle[g].impl \in 0 .. Len(impls) /\ handle[g].id \in 0 .. (IdSpace - 1)
      BY <1>0, HandleTyped DEF HandleRecord
    <3>3. QED
      BY <1>4, <3>1, <3>2 DEF Null
  <2> HIDE DEF i, c
  <2>3. ASSUME c + 1 <= IdSpace PROVE /\ handle'[h].id = c
                                     /\ \A g \in Handles : HasId(g) /\ handle[g].impl = i
                                            => handle[g].id < c
    <3>1. c < IdSpace /\ c <= IdSpace
      BY <1>4, <2>3
    <3>2. QED
      BY <1>6, <1>7, <3>1 DEF IndInv, IdsDistinct, c
  <2> SUFFICES ASSUME NEW g \in Handles, HasId(g)', impls'[handle'[g].impl].counter <= IdSpace
               PROVE  /\ handle'[g].id < impls'[handle'[g].impl].counter
                      /\ \A k \in Handles :
                            (HasId(k)' /\ k # g /\ handle'[k].impl = handle'[g].impl)
                                => handle'[k].id # handle'[g].id
    BY DEF IdsDistinct
  <2>4. CASE g = h
    <3>1. c + 1 <= IdSpace /\ handle'[g].impl = i
      BY <1>5, <1>10, <2>4
    <3>2. handle'[g].id < impls'[handle'[g].impl].counter
      BY <1>4, <1>5, <2>3, <2>4, <3>1
    <3>3. ASSUME NEW k \in Handles, HasId(k)', k # g, handle'[k].impl = handle'[g].impl
          PROVE  handle'[k].id # handle'[g].id
      <4>1. HasId(k) /\ handle'[k] = handle[k] /\ handle[k].impl = i
        BY <1>10, <2>1, <2>4, <3>1, <3>3
      <4>2. handle[k].id < c /\ handle[k].id \in Nat /\ handle'[g].id = c
        BY <2>2, <2>3, <2>4, <3>1, <4>1
      <4>3. handle[k].id # c
        BY <1>4, <4>2
      <4>4. QED
        BY <4>1, <4>2, <4>3
    <3>4. QED
      BY <3>2, <3>3
  <2>5. CASE g # h
    <3>0. HasId(g) /\ handle'[g] = handle[g] /\ handle[g].impl \in 1 .. Len(impls) /\ handle[g].id \in Nat
      BY <1>10, <2>1, <2>2, <2>5
    <3>1. impls[handle[g].impl].counter <= IdSpace
      <4>1. CASE handle[g].impl = i
        BY <1>4, <1>5, <3>0, <4>1 DEF c
      <4>2. CASE handle[g].impl # i
        BY <1>5, <3>0, <4>2
      <4>3. QED
        BY <4>1, <4>2
    <3>2. /\ handle[g].id < impls[handle[g].impl].counter
          /\ \A k \in Handles : (HasId(k) /\ k # g /\ handle[k].impl = handle[g].impl)
                                   => handle[k].id # handle[g].id
      BY <3>0, <3>1 DEF IndInv, IdsDistinct
    <3>3. handle'[g].id < impls'[handle'[g].impl].counter
      <4>1. CASE handle[g].impl = i
        BY <1>4, <1>5, <3>0, <3>2, <4>1 DEF c
      <4>2. CASE handle[g].impl # i
        BY <1>5, <3>0, <3>2, <4>2
      <4>3. QED
        BY <4>1, <4>2
    <3>4. ASSUME NEW k \in Handles, HasId(k)', k # g, handle'[k].impl = handle'[g].impl
          PROVE  handle'[k].id # handle'[g].id
      <4>1. CASE k # h
        BY <1>10, <2>1, <3>0, <3>2, <3>4, <4>1
      <4>2. CASE k = h
        <5>1. handle[g].impl = i
          BY <1>10, <3>0, <3>4, <4>2
        <5>2. c + 1 <= IdSpace
          BY <1>5, <3>0, <5>1
        <5>3. handle'[k].id = c /\ handle[g].id < c
          BY <2>3, <3>0, <4>2, <5>1, <5>2
        <5>4. handle[g].id # c
          BY <1>4, <3>0, <5>3
        <5>5. QED
          BY <3>0, <5>3, <5>4
      <4>3. QED
        BY <4>1, <4>2
    <3>5. QED
      BY <3>3, <3>4
  <2>6. QED
    BY <2>4, <2>5
<1>12. handle'[h].impl = context[handle'[h].context].impl
  BY <1>0, <1>1, <1>10 DEF IndInv, ContextInv, CreatingOnContext
<1>13. OnlyOf(h)
  BY <1>0 DEF OnlyOf
<1>14. handle' \in [Handles -> HandleRecord(Len(impls))]
  BY <1>7 DEF HasAdvanced
<1> HIDE DEF i, c
<1>15. QED
  BY <1>0, <1>3, <1>5, <1>8, <1>9, <1>10, <1>11, <1>12, <1>13, <1>14, HandleFrame DEF i

(***************************************************************************)
(* Giving back                                                             *)
(***************************************************************************)

\* What has been acquired is among the pieces of the kind, and all of them at
\* the end.
LEMMA AcquiredPieces ==
    ASSUME TypeInv, NEW h \in Handles, Active(h)
    PROVE  /\ handle[h].kind \in Kinds /\ handle[h].kind \in AllKinds
           /\ Acquired(h) \subseteq Pieces(handle[h].kind)
           /\ Live(h) => Acquired(h) = Pieces(handle[h].kind)
<1>1. /\ handle[h].kind \in Kinds /\ handle[h].step \in 0 .. 9
      /\ handle[h].phase \in {"creating", "live"}
      /\ handle[h].phase = "creating" => handle[h].step < Len(Steps(handle[h].kind))
      /\ handle[h].phase = "live" => handle[h].step = Len(Steps(handle[h].kind))
  BY HandleTyped DEF TypeInv, HandlesStaged, Staged, HandleRecord, Active
<1>2. handle[h].kind \in AllKinds
  BY <1>1, KindsKnown
<1> DEFINE s == Steps(handle[h].kind)
<1>3. Len(s) \in 1 .. 9 /\ DOMAIN s = 1 .. Len(s)
  BY <1>2, StepFacts
<1>4. Acquired(h) = {s[k] : k \in 1 .. handle[h].step} \ Transient
  BY DEF Acquired
<1>5. Pieces(handle[h].kind) = {s[k] : k \in 1 .. Len(s)} \ Transient
  BY <1>3 DEF Pieces
<1>6. handle[h].step <= Len(s) /\ (Live(h) => handle[h].step = Len(s))
  BY <1>1, <1>3 DEF Live
<1> HIDE DEF s
<1>7. QED
  BY <1>1, <1>2, <1>3, <1>4, <1>5, <1>6

\* What the create and the destroy functions do not give back is known to leak.
LEMMA LeaksKnown ==
    ASSUME NEW kind \in AllKinds, NEW p \in Pieces(kind)
    PROVE  /\ p \notin Abandoned(kind) => p \in Leaked(kind)
           /\ kind = "wait_set" /\ p \notin ImplOf(kind) => p \in Leaked(kind)
           /\ kind \in {"publisher", "subscription"} /\ p \notin {"handle"} \cup ImplOf(kind)
                 => p \in Leaked(kind)
<1>1. /\ "name" \in Leaked("publisher") /\ "name" \in Leaked("subscription")
      /\ "handle" \in Leaked("wait_set")
  BY Zenon DEF Leaked
<1>2. p \in {"namespace"} => kind = "node"
  BY StepFacts DEF Pieces
<1>3. p = "name" => kind # "wait_set"
  BY StepFacts DEF Pieces
<1>4. p \notin ImplOf(kind) => p \in {"handle", "name", "namespace"}
  BY DEF ImplOf
<1>5. QED
  BY <1>1, <1>2, <1>3, <1>4 DEF Abandoned

\* No kind of handle holds a piece of another name.
LEMMA PiecesKnown ==
    ASSUME NEW kind \in AllKinds
    PROVE  Pieces(kind) \subseteq AllPieces
BY StepFacts DEF Pieces

\* The fields of a handle that has been given back.
LEMMA GoneRecord ==
    ASSUME TypeInv, NEW h \in Handles
    PROVE  /\ Gone(h) \in HandleRecord(Len(impls))
           /\ Gone(h).kind = handle[h].kind /\ Gone(h).phase = "gone"
           /\ Gone(h).impl = handle[h].impl
<1> DEFINE r == Unused
           kind == handle[h].kind
           i == handle[h].impl
<1>1. r \in HandleRecord(Len(impls))
  BY UnusedRecord
<1>2. kind \in Kinds \cup {"none"} /\ i \in 0 .. Len(impls)
  BY HandleTyped DEF HandleRecord
<1>3. Gone(h) = [r EXCEPT !.kind = kind, !.phase = "gone", !.impl = i]
  BY DEF Gone
<1> HIDE DEF r, kind, i
<1>4. /\ Gone(h) \in HandleRecord(Len(impls))
      /\ Gone(h).kind = kind /\ Gone(h).phase = "gone" /\ Gone(h).impl = i
  BY <1>1, <1>2, <1>3 DEF HandleRecord, Phases
<1>5. QED
  BY <1>4 DEF kind, i

\* A handle goes and gives back these pieces.
LEMMA GiveBackStep ==
    ASSUME IndInv, NEW h \in Handles, Active(h), NEW pieces, pieces \subseteq AllPieces,
           \A p \in Pieces(handle[h].kind) : p \notin pieces => p \in Leaked(handle[h].kind),
           handle' = [handle EXCEPT ![h] = Gone(h)],
           held' = held \ {<<h, piece>> : piece \in pieces},
           UNCHANGED <<options, context, impls, strings, dangling>>
    PROVE  IndInv'
<1>0. TypeInv
  BY DEF IndInv
<1>1. /\ handle' \in [Handles -> HandleRecord(Len(impls))]
      /\ handle'[h].kind = handle[h].kind /\ handle'[h].phase = "gone"
      /\ handle'[h].impl = handle[h].impl
      /\ \A g \in Handles : g # h => handle'[g] = handle[g]
  BY <1>0, GoneRecord, HandleTyped
<1>2. \A x, p : <<x, p>> \in held' <=> <<x, p>> \in held /\ ~(x = h /\ p \in pieces)
  OBVIOUS
<1>3. OnlyOf(h)
  BY <1>2 DEF OnlyOf, AllPieces
<1>4. Staged(h)'
  <2>1. HasGuardCondition(handle'[h].kind) = HasGuardCondition(handle[h].kind)
    BY <1>1
  <2>2. handle[h].kind \in Kinds /\ Staged(h)
    BY <1>0, AcquiredPieces DEF TypeInv, HandlesStaged
  <2>3. QED
    BY <1>1, <2>1, <2>2 DEF Staged, Active
<1>5. PiecesOf(h)'
  <2>1. PiecesOf(h)
    BY DEF IndInv, PiecesExact
  <2>2. \A p \in AllPieces : Has(h, p) => p \in Pieces(handle[h].kind)
    BY <1>0, <2>1, AcquiredPieces DEF PiecesOf
  <2>3. \A p : Has(h, p)' <=> Has(h, p) /\ p \notin pieces
    BY <1>2 DEF Has
  <2>4. \A p \in AllPieces : Has(h, p)' => p \in Leaked(handle[h].kind)
    BY <2>2, <2>3
  <2>5. Leaked(handle'[h].kind) = Leaked(handle[h].kind)
    BY <1>1
  <2>6. Has(h, "graph_handle") => handle[h].kind = "node"
    BY <2>1 DEF PiecesOf
  <2>7. QED
    BY <1>1, <2>3, <2>4, <2>5, <2>6 DEF PiecesOf, Active
<1>6. IdsDistinct'
  <2>1. ~HasId(h)'
    BY <1>1 DEF HasId, Active
  <2>2. QED
    BY <1>1, <2>1, FrameIdsOne DEF IndInv
<1>7. impls' \in Seq([id : InstanceIds, counter : Nat]) /\ Len(impls') = Len(impls)
  BY <1>0, ContextTyped
<1>8. QED
  BY <1>1, <1>3, <1>4, <1>5, <1>6, <1>7, HandleFrame

\* A step of a creation fails.
LEMMA RefusedStep ==
    ASSUME IndInv, NEW h \in Handles, Refused(h)
    PROVE  IndInv'
<1>1. /\ TypeInv /\ Active(h) /\ handle' = [handle EXCEPT ![h] = Gone(h)]
      /\ held' = held \ {<<h, piece>> : piece \in Abandoned(handle[h].kind)}
      /\ UNCHANGED <<options, context, impls, strings, dangling>>
  BY DEF IndInv, Refused, Active
<1>2. handle[h].kind \in AllKinds
  BY <1>1, AcquiredPieces
<1>3. Abandoned(handle[h].kind) \subseteq AllPieces
  BY <1>2, PiecesKnown DEF Abandoned, ImplOf, AllPieces
<1>4. \A p \in Pieces(handle[h].kind) :
          p \notin Abandoned(handle[h].kind) => p \in Leaked(handle[h].kind)
  BY <1>2, LeaksKnown
<1>5. QED
  BY <1>1, <1>3, <1>4, GiveBackStep

\* The destroy functions.
LEMMA DestroyStep ==
    ASSUME IndInv, NEW h \in Handles, DestroyCall(h)
    PROVE  IndInv'
<1>0. TypeInv
  BY DEF IndInv
<1>1. ASSUME NEW kind \in AllKinds, NEW pieces, handle[h].kind = kind, Destroy(h, pieces),
             \/ pieces = Pieces(kind)
             \/ kind = "wait_set" /\ pieces = ImplOf(kind)
             \/ kind \in {"publisher", "subscription"} /\ pieces = {"handle"} \cup ImplOf(kind)
      PROVE  IndInv'
  <2>1. /\ Active(h) /\ handle' = [handle EXCEPT ![h] = Gone(h)]
        /\ held' = held \ {<<h, piece>> : piece \in pieces}
        /\ UNCHANGED <<options, context, impls, strings, dangling>>
    BY <1>1 DEF Destroy, Live, Active
  <2>2. pieces \subseteq AllPieces
    BY <1>1, PiecesKnown DEF ImplOf, AllPieces
  <2>3. \A p \in Pieces(handle[h].kind) : p \notin pieces => p \in Leaked(handle[h].kind)
    BY <1>1, LeaksKnown
  <2>4. QED
    BY <2>1, <2>2, <2>3, GiveBackStep
<1>2. CASE rmw_destroy_node(h)
  BY <1>1, <1>2 DEF rmw_destroy_node, LiveNode, AllKinds
<1>3. CASE rmw_destroy_guard_condition(h)
  BY <1>1, <1>3 DEF rmw_destroy_guard_condition, AllKinds
<1>4. CASE rmw_destroy_wait_set(h)
  BY <1>1, <1>4 DEF rmw_destroy_wait_set, AllKinds
<1>5. CASE rmw_destroy_publisher(h)
  BY <1>1, <1>5 DEF rmw_destroy_publisher, AllKinds
<1>6. CASE rmw_destroy_subscription(h)
  BY <1>1, <1>6 DEF rmw_destroy_subscription, AllKinds
<1>7. CASE rmw_destroy_client(h)
  BY <1>1, <1>7 DEF rmw_destroy_client, AllKinds
<1>8. CASE rmw_destroy_service(h)
  BY <1>1, <1>8 DEF rmw_destroy_service, AllKinds
<1>9. QED
  BY <1>2, <1>3, <1>4, <1>5, <1>6, <1>7, <1>8 DEF DestroyCall

(***************************************************************************)
(* Use                                                                     *)
(***************************************************************************)

\* rmw_node_get_graph_guard_condition.
LEMMA GraphGuardConditionStep ==
    ASSUME IndInv, NEW n \in Handles, rmw_node_get_graph_guard_condition(n)
    PROVE  IndInv'
<1>0. /\ TypeInv /\ handle[n].phase = "live" /\ handle[n].kind = "node"
      /\ held' = held \cup {<<n, "graph_handle">>}
      /\ UNCHANGED <<options, context, impls, strings, handle, dangling>>
  BY DEF IndInv, rmw_node_get_graph_guard_condition, LiveNode, Live
<1>1. OnlyOf(n)
  BY <1>0 DEF OnlyOf
<1>2. Staged(n)'
  BY <1>0 DEF TypeInv, HandlesStaged, Staged, Active
<1>3. PiecesOf(n)'
  <2>1. \A p \in AllPieces : Has(n, p)' <=> Has(n, p)
    BY <1>0 DEF Has, AllPieces
  <2>2. Acquired(n)' = Acquired(n)
    BY <1>0 DEF Acquired
  <2>3. PiecesOf(n)
    BY DEF IndInv, PiecesExact
  <2>4. QED
    BY <1>0, <2>1, <2>2, <2>3 DEF PiecesOf, Active
<1>4. IdsDistinct'
  BY <1>0, FrameIds DEF IndInv
<1>5. /\ impls' \in Seq([id : InstanceIds, counter : Nat])
      /\ handle' \in [Handles -> HandleRecord(Len(impls))]
  BY <1>0, ContextTyped, HandleTyped
<1>6. QED
  BY <1>0, <1>1, <1>2, <1>3, <1>4, <1>5, HandleFrame

\* Mapping an entity reaches the context of the wait set, alive or not.
LEMMA StorageStep ==
    ASSUME IndInv, NEW w \in Handles, NEW h \in Handles, get_storage_index(w, h)
    PROVE  IndInv'
<1> USE DEF IndInv
<1>0. /\ handle[w].kind = "wait_set" /\ UNCHANGED <<options, context, impls, strings, handle, held>>
      /\ dangling' = IF ImplAlive(handle[w].impl) THEN dangling ELSE dangling \cup {w}
  BY DEF get_storage_index, LiveWaitSet, Reaches
<1>1. TypeInv'
  BY <1>0 DEF TypeInv, TypeOK, Strings, HandlesStaged, Staged, Active
<1>2. ContextInv' /\ EnclavesAlive'
  BY <1>0 DEF ContextInv, ImplsOwned, CreatingOnContext, IsInitialized, ImplAlive,
              EnclavesAlive, StringPiece
<1>3. PiecesExact' /\ IdsDistinct'
  BY <1>0, FrameIds DEF PiecesExact, PiecesOf, Active, Acquired, Has
<1>4. OnlyWaitSetsDangle'
  BY <1>0 DEF OnlyWaitSetsDangle, ImplAlive
<1>5. QED
  BY <1>1, <1>2, <1>3, <1>4

(***************************************************************************)
(* The invariant                                                           *)
(***************************************************************************)

\* The create functions, once their checks pass.
LEMMA CreateStep ==
    ASSUME IndInv, NEW h \in Handles, ContextCall(h) \/ \E n \in Handles : NodeCall(h, n)
    PROVE  IndInv'
<1>1. CASE ContextCall(h)
  <2> PICK c \in Contexts : \/ \E ns \in Namespaces : rmw_create_node(h, c, ns)
                           \/ rmw_create_guard_condition(h, c) \/ rmw_create_wait_set(h, c)
    BY <1>1 DEF ContextCall
  <2>1. IsInitialized(c) /\ \E kind : \E ns \in Namespaces \cup {<<>>} : Begin(h, kind, NoHandle, c, ns)
    BY DEF rmw_create_node, rmw_create_guard_condition, rmw_create_wait_set
  <2>2. QED
    BY <2>1, BeginStep
<1>2. ASSUME NEW n \in Handles, NodeCall(h, n) PROVE IndInv'
  <2>1. PICK kind \in {"publisher", "subscription", "client", "service"} :
            LiveNode(n) /\ Begin(h, kind, n, handle[n].context, <<>>)
    BY <1>2 DEF NodeCall, rmw_create_publisher, rmw_create_subscription, rmw_create_client,
                rmw_create_service
  <2>2. handle[n].context \in Contexts
    BY <2>1 DEF LiveNode, Live, IndInv, TypeInv, HandlesStaged, Staged, Active
  <2>3. ~(kind = "wait_set" \/ HasGuardCondition(kind))
    BY <2>1 DEF HasGuardCondition
  <2>4. QED
    BY <2>1, <2>2, <2>3, BeginStep
<1>3. QED
  BY <1>1, <1>2

\* The inductive invariant holds before anything is created,
LEMMA Initially == Init => IndInv
<1> SUFFICES ASSUME Init PROVE IndInv
  OBVIOUS
<1> USE DEF Init
<1>0. Len(impls) = 0 /\ impls \in Seq([id : InstanceIds, counter : Nat])
  OBVIOUS
<1>1. /\ IdSpace \in Nat \ {0} /\ MaxStrings \in Nat /\ MaxInits \in Nat
  BY LifecycleAssumption
<1>2. Unused \in HandleRecord(0)
  BY <1>1 DEF Unused, HandleRecord, Phases, Null
<1>3. \A h \in Handles : /\ handle[h] = Unused /\ Unused.phase = "unused" /\ Unused.kind = "none"
  BY DEF Unused
<1>4. HandlesStaged
  BY <1>3 DEF HandlesStaged, Staged, Active, HasGuardCondition
<1>5. TypeInv
  <2>1. handle \in [Handles -> HandleRecord(0)]
    BY <1>2
  <2>2. QED
    BY <1>0, <1>1, <1>4, <2>1 DEF TypeInv, TypeOK, Strings, HandleRecord, ZeroOptions, ZeroContext, Null
<1>6. ContextInv
  <2>1. \A c \in Contexts : context[c].impl = Null
    BY DEF ZeroContext
  <2>2. {i \in 1 .. Len(impls) : ImplAlive(i)} = {}
    BY <1>0
  <2>3. {context[c].impl : c \in Contexts} \ {Null} = {}
    BY <2>1
  <2>4. ImplsOwned
    BY <2>1, <2>2, <2>3 DEF ImplsOwned, IsInitialized
  <2>5. CreatingOnContext
    BY <1>3, <2>1 DEF CreatingOnContext, IsInitialized
  <2>6. QED
    BY <2>4, <2>5 DEF ContextInv
<1>7. EnclavesAlive
  BY DEF EnclavesAlive, StringPiece, ZeroOptions
<1>8. PiecesExact /\ IdsDistinct
  BY <1>3 DEF PiecesExact, PiecesOf, Has, Active, IdsDistinct, HasId
<1>9. QED
  BY <1>5, <1>6, <1>7, <1>8 DEF IndInv, OnlyWaitSetsDangle

\* in a stuttering step,
LEMMA Stutter == IndInv /\ UNCHANGED vars => IndInv'
<1> SUFFICES ASSUME IndInv, UNCHANGED vars PROVE IndInv'
  OBVIOUS
<1> USE DEF IndInv, vars
<1>1. TypeInv'
  BY DEF TypeInv, TypeOK, Strings, HandlesStaged, Staged, Active
<1>2. ContextInv' /\ EnclavesAlive' /\ OnlyWaitSetsDangle'
  BY DEF ContextInv, ImplsOwned, CreatingOnContext, IsInitialized, ImplAlive,
         EnclavesAlive, StringPiece, OnlyWaitSetsDangle
<1>3. PiecesExact' /\ IdsDistinct'
  BY FrameIds DEF PiecesExact, PiecesOf, Active, Acquired, Has
<1>4. QED
  BY <1>1, <1>2, <1>3

\* and in every call and every step of one.
LEMMA Step == IndInv /\ Next => IndInv'
<1> SUFFICES ASSUME IndInv, Next PROVE IndInv'
  OBVIOUS
<1>1. ASSUME NEW o \in Options,
             \/ rmw_init_options_init(o) \/ rmw_init_options_fini(o)
             \/ \E dst \in Options : rmw_init_options_copy(o, dst)
      PROVE  IndInv'
  BY <1>1, OptionsStep
<1>2. ASSUME NEW o \in Options, NEW c \in Contexts, NEW instance \in InstanceIds,
             rmw_init(o, c, instance)
      PROVE  IndInv'
  BY <1>2, InitStep
<1>3. ASSUME NEW c \in Contexts, rmw_shutdown(c) \/ rmw_context_fini(c) PROVE IndInv'
  BY <1>3, ShutdownStep, FiniStep
<1>4. ASSUME NEW h \in Handles, ContextCall(h) \/ \E n \in Handles : NodeCall(h, n) PROVE IndInv'
  BY <1>4, CreateStep
<1>5. ASSUME NEW h \in Handles, NEW n \in Handles, get_storage_index(n, h) PROVE IndInv'
  BY <1>5, StorageStep
<1>6. ASSUME NEW h \in Handles, generate_guard_condition_id(h) \/ Acquire(h) \/ Refused(h)
      PROVE  IndInv'
  BY <1>6, IdStepTaken, AcquireStep, RefusedStep
<1>7. ASSUME NEW h \in Handles, rmw_node_get_graph_guard_condition(h) \/ DestroyCall(h)
      PROVE  IndInv'
  BY <1>7, GraphGuardConditionStep, DestroyStep
<1>8. QED
  BY <1>1, <1>2, <1>3, <1>4, <1>5, <1>6, <1>7 DEF Next

\* The account of pieces, contexts and ids is right in every reachable state,
\* whichever threads create and destroy what, and whichever step of a creation fails.
THEOREM Invariance == Spec => []IndInv
BY Initially, Step, Stutter, PTL DEF Spec

(***************************************************************************)
(* What follows from the invariant                                         *)
(***************************************************************************)

\* The variables of the life cycle have their types in every reachable state.
THEOREM TypeCorrect == Spec => []TypeOK
<1>1. IndInv => TypeOK
  BY DEF IndInv, TypeInv
<1>2. QED
  BY <1>1, Invariance, PTL

\* rmw_init, rmw_shutdown and rmw_context_fini lose and share no context
\* implementation, however often and in whatever order they fail or are called.
THEOREM ImplsAreOwned == Spec => []ImplsOwned
<1>1. IndInv => ImplsOwned
  BY DEF IndInv, ContextInv
<1>2. QED
  BY <1>1, Invariance, PTL

\* No rmw_init_options_fini frees the enclave that a shallow copy points to.
THEOREM EnclavesStayAlive == Spec => []EnclavesAlive
<1>1. IndInv => EnclavesAlive
  BY DEF IndInv
<1>2. QED
  BY <1>1, Invariance, PTL

\* Of all calls, only rmw_wait on a wait set that has outlived its context
\* reaches a context that rmw_shutdown has destroyed.
THEOREM WaitSetsAloneDangle == Spec => []OnlyWaitSetsDangle
<1>1. IndInv => OnlyWaitSetsDangle
  BY DEF IndInv
<1>2. QED
  BY <1>1, Invariance, PTL

\* What is held is accounted for, since PiecesExact says what each handle holds.
LEMMA AccountFollows == IndInv => PiecesAccounted
<1> SUFFICES ASSUME IndInv, NEW h \in Handles
             PROVE  /\ Live(h) => Pieces(handle[h].kind) \subseteq HeldBy(h)
                    /\ handle[h].phase = "gone" => HeldBy(h) \subseteq Leaked(handle[h].kind)
  BY DEF PiecesAccounted
<1>0. TypeInv /\ PiecesOf(h)
  BY DEF IndInv, PiecesExact
<1>1. ASSUME Live(h) PROVE Pieces(handle[h].kind) \subseteq HeldBy(h)
  <2>1. Active(h)
    BY <1>1 DEF Live, Active
  <2>2. handle[h].kind \in AllKinds /\ Acquired(h) = Pieces(handle[h].kind)
    BY <1>0, <1>1, <2>1, AcquiredPieces
  <2>3. \A p \in Pieces(handle[h].kind) : <<h, p>> \in held
    BY <1>0, <2>1, <2>2, PiecesKnown DEF PiecesOf, Has
  <2>4. QED
    BY <2>3 DEF HeldBy
<1>2. ASSUME handle[h].phase = "gone" PROVE HeldBy(h) \subseteq Leaked(handle[h].kind)
  <2>1. handle[h].kind \in AllKinds
    BY <1>0, <1>2, KindsKnown DEF TypeInv, HandlesStaged, Staged
  <2>2. "graph_handle" \in Leaked("node")
    BY Zenon DEF Leaked
  <2>3. ASSUME NEW p \in HeldBy(h) PROVE p \in Leaked(handle[h].kind)
    <3>1. Has(h, p) /\ (p \in AllPieces \/ p = "graph_handle")
      BY <2>1, PiecesKnown DEF HeldBy, Has
    <3>2. QED
      BY <1>0, <1>2, <2>2, <3>1 DEF PiecesOf
  <2>4. QED
    BY <2>3
<1>3. QED
  BY <1>1, <1>2

\* Whatever step of a creation fails and whoever else creates and destroys, the
\* create and destroy functions leave behind what is known to leak, and nothing
\* of a live handle is missing.
THEOREM PiecesAreAccounted == Spec => []PiecesAccounted
BY AccountFollows, Invariance, PTL

\* Service names differ, since ids differ within a context.
LEMMA DistinctFollows == IndInv => ServicesDistinct
<1> SUFFICES ASSUME IndInv, NEW g \in Identified, NEW h \in Identified, g # h,
                    ServiceName(g) = ServiceName(h), handle[g].impl = handle[h].impl
             PROVE  impls[handle[g].impl].counter > IdSpace
  BY DEF ServicesDistinct
<1>0. TypeInv
  BY DEF IndInv
<1>1. ASSUME NEW x \in Identified PROVE x \in Handles /\ HasId(x) /\ HasGuardCondition(handle[x].kind)
  <2>0. /\ x \in Handles /\ HasGuardCondition(handle[x].kind) /\ handle[x].phase # "gone"
        /\ Has(x, "notifier") /\ PiecesOf(x)
    BY DEF Identified, Has, IndInv, PiecesExact
  <2>1. handle[x].phase \in Phases
    BY <1>0, <2>0, HandleTyped DEF HandleRecord
  <2>2. Active(x)
    BY <2>0, <2>1 DEF PiecesOf, Phases, Active, AllPieces
  <2>3. "notifier" \in Acquired(x)
    BY <2>0, <2>2 DEF PiecesOf, AllPieces
  <2>4. PICK k \in 1 .. handle[x].step : Steps(handle[x].kind)[k] = "notifier"
    BY <2>3 DEF Acquired
  <2>5. /\ handle[x].kind \in AllKinds /\ handle[x].step \in 0 .. 9
        /\ handle[x].step <= Len(Steps(handle[x].kind))
        /\ Len(Steps(handle[x].kind)) \in 1 .. 9
    <3>1. handle[x].kind \in AllKinds /\ handle[x].step \in 0 .. 9
      BY <1>0, <2>0, <2>2, AcquiredPieces, HandleTyped DEF HandleRecord
    <3>2. Len(Steps(handle[x].kind)) \in 1 .. 9
      BY <3>1, StepFacts
    <3>3. handle[x].step <= Len(Steps(handle[x].kind))
      BY <1>0, <2>0, <2>2, <3>1, <3>2 DEF TypeInv, HandlesStaged, Staged, Active
    <3>4. QED
      BY <3>1, <3>2, <3>3
  <2>6. k \in 1 .. Len(Steps(handle[x].kind))
    BY <2>5
  <2>7. k > IdStep(handle[x].kind)
    BY <2>0, <2>4, <2>5, <2>6, StepFacts
  <2>8. handle[x].step >= IdStep(handle[x].kind)
    BY <2>5, <2>7 DEF IdStep
  <2>9. QED
    BY <2>0, <2>2, <2>8 DEF HasId
<1>2. handle[g].id = handle[h].id
  BY <1>1 DEF ServiceName
<1>3. ~(impls[handle[g].impl].counter <= IdSpace)
  BY <1>1, <1>2 DEF IndInv, IdsDistinct
<1>4. impls[handle[g].impl].counter \in Nat /\ IdSpace \in Nat
  <2>1. handle[g].impl \in 0 .. Len(impls) /\ handle[g].impl # Null /\ Len(impls) \in Nat
    BY <1>0, <1>1, HandleTyped DEF HandleRecord, TypeInv, HandlesStaged, Staged
  <2>2. handle[g].impl \in 1 .. Len(impls)
    BY <2>1 DEF Null
  <2>3. impls[handle[g].impl] \in [id : InstanceIds, counter : Nat]
    BY <1>0, <2>2, ContextTyped, ElementOfSeq
  <2>4. QED
    BY <2>3, LifecycleAssumption
<1>5. QED
  BY <1>3, <1>4

\* Two guard conditions of a context, of their own or in nodes, are notified
\* through different event services until generate_guard_condition_id wraps.
THEOREM ServicesAreDistinct == Spec => []ServicesDistinct
BY DistinctFollows, Invariance, PTL

(***************************************************************************)
(* Names                                                                   *)
(***************************************************************************)

\* The first "nodes" of a node's name is the one before its namespace.
LEMMA ParseShape ==
    ASSUME NEW S, NEW name \in Seq(S), NEW ns \in Seq(S), Len(name) = Len(ns) + 5,
           name[1] = "ros2:", name[2] = "context", name[3] # "nodes", name[4] = "nodes",
           name[Len(ns) + 5] = "name", \A k \in 1 .. Len(ns) : name[4 + k] = ns[k]
    PROVE  parse_name(name) = {[ns |-> ns, name |-> "name"]}
<1>1. Len(ns) \in Nat /\ DOMAIN name = 1 .. (Len(ns) + 5)
  OBVIOUS
<1>2. 4 \in Marks(name) /\ \A j \in Marks(name) : j \in Nat /\ 4 <= j
  BY <1>1 DEF Marks
<1>3. HasPrefix(name)
  BY <1>1 DEF HasPrefix
<1>4. {m \in Marks(name) : HasPrefix(name) /\ \A j \in Marks(name) : m <= j} = {4}
  <2>1. ASSUME NEW m \in Marks(name), \A j \in Marks(name) : m <= j PROVE m = 4
    <3>1. m \in Nat /\ 4 <= m /\ m <= 4
      BY <1>2, <2>1
    <3>2. QED
      BY <3>1
  <2>2. QED
    BY <1>2, <1>3, <2>1
<1>5. parse_name(name) = NodeName(name, 4)
  BY <1>4 DEF parse_name
<1>6. SubSeq(name, 5, Len(name) - 1) = ns
  <2> DEFINE sub == SubSeq(name, 5, Len(name) - 1)
  <2>1. sub \in Seq(S) /\ Len(sub) = Len(ns) /\ \A k \in 1 .. Len(ns) : sub[k] = name[4 + k]
    BY <1>1
  <2>2. \A k \in 1 .. Len(ns) : sub[k] = ns[k]
    BY <1>1, <2>1
  <2>3. QED
    BY <2>1, <2>2, SeqEqual
<1>7. NodeName(name, 4) = {[ns |-> ns, name |-> "name"]}
  <2>1. NodeName(name, 4) = {[ns |-> SubSeq(name, 5, Len(name) - 1), name |-> name[Len(name)]]}
    BY DEF NodeName
  <2>2. QED
    BY <1>6, <2>1
<1>8. QED
  BY <1>5, <1>7

\* A sequence over a set is one over a larger set.
LEMMA SeqMonotone ==
    ASSUME NEW T, NEW S, T \subseteq S, NEW ns \in Seq(T)
    PROVE  ns \in Seq(S)
<1>1. Len(ns) \in Nat /\ ns \in [1 .. Len(ns) -> T]
  BY LenProperties
<1>2. ns \in [1 .. Len(ns) -> S]
  BY <1>1
<1>3. QED
  BY <1>1, <1>2, SeqDef

\* The name of an iceoryx2 node is a sequence of segments.
LEMMA NameInSeq ==
    ASSUME NEW S, NEW a \in S, NEW b \in S, NEW c \in S, NEW d \in S, NEW e \in S, NEW ns \in Seq(S)
    PROVE  <<a, b, c>> \o <<d>> \o ns \o <<e>> \in Seq(S)
OBVIOUS

\* parse_name gives back the namespace and the name that node_name wrote.
LEMMA ParseNode ==
    ASSUME NEW id \in STRING \ {"nodes"}, NEW ns \in Seq(STRING), NEW name,
           name = <<"ros2:", "context", id>> \o <<"nodes">> \o ns \o <<"name">>
    PROVE  parse_name(name) = {[ns |-> ns, name |-> "name"]}
<1>1. /\ Len(name) = Len(ns) + 5
      /\ name[1] = "ros2:" /\ name[2] = "context" /\ name[3] = id /\ name[4] = "nodes"
      /\ name[Len(ns) + 5] = "name"
      /\ \A k \in 1 .. Len(ns) : name[4 + k] = ns[k]
  OBVIOUS
<1> DEFINE S == STRING \cup {"ros2:", "context", "nodes", "name"}
<1>2. /\ "ros2:" \in S /\ "context" \in S /\ "nodes" \in S /\ "name" \in S /\ id \in S
      /\ STRING \subseteq S
  OBVIOUS
<1> HIDE DEF S
<1>3. name \in Seq(S) /\ ns \in Seq(S)
  <2>1. ns \in Seq(S)
    BY <1>2, SeqMonotone
  <2>2. QED
    BY <1>2, <2>1, NameInSeq
<1>4. name[3] # "nodes"
  BY <1>1
<1>5. QED
  BY <1>1, <1>3, <1>4, ParseShape

\* The name of a context's instance is no node name.
LEMMA ParseContext ==
    ASSUME NEW id \in STRING \ {"nodes"}, NEW name, name = <<"ros2:", "context", id>>
    PROVE  parse_name(name) = {}
<1>1. Marks(name) = {}
  BY DEF Marks
<1>2. QED
  BY <1>1 DEF parse_name

\* Nor is the name of another program's iceoryx2 node, whatever its segments.
LEMMA ParseForeign ==
    ASSUME NEW name \in ForeignInstances
    PROVE  parse_name(name) = {}
BY ForeignInstancesAssumption DEF parse_name

\* An iceoryx2 node belongs to a node alive or in creation, and every node alive
\* has one.
LEMMA IpcNodes ==
    ASSUME IndInv, NEW h \in Handles
    PROVE  /\ <<h, "ipc_node">> \in held
                => handle[h].kind = "node" /\ handle[h].phase \in {"live", "creating"}
           /\ handle[h].kind = "node" /\ handle[h].phase = "live" => <<h, "ipc_node">> \in held
<1>0. TypeInv /\ PiecesOf(h)
  BY DEF IndInv, PiecesExact
<1>1. handle[h].phase \in Phases
  BY <1>0, HandleTyped DEF HandleRecord
<1>2. ASSUME Has(h, "ipc_node") PROVE handle[h].kind = "node" /\ Active(h)
  <2>1. handle[h].phase # "unused"
    BY <1>0, <1>2 DEF PiecesOf, AllPieces
  <2>2. \A kind : "ipc_node" \notin Leaked(kind)
    BY Zenon DEF Leaked
  <2>3. handle[h].phase # "gone"
    BY <1>0, <1>2, <2>2 DEF PiecesOf, AllPieces
  <2>4. Active(h)
    BY <1>1, <2>1, <2>3 DEF Phases, Active
  <2>5. handle[h].kind \in AllKinds /\ "ipc_node" \in Pieces(handle[h].kind)
    BY <1>0, <1>2, <2>4, AcquiredPieces DEF PiecesOf, AllPieces
  <2>6. QED
    BY <2>4, <2>5, StepFacts DEF Pieces
<1>3. ASSUME handle[h].kind = "node", handle[h].phase = "live" PROVE Has(h, "ipc_node")
  <2>1. Active(h) /\ Live(h)
    BY <1>3 DEF Active, Live
  <2>2. handle[h].kind \in AllKinds /\ Acquired(h) = Pieces(handle[h].kind)
    BY <1>0, <2>1, AcquiredPieces
  <2>3. "ipc_node" \in Pieces(handle[h].kind)
    BY <1>3, <2>2, StepFacts
  <2>4. QED
    BY <1>0, <2>1, <2>2, <2>3 DEF PiecesOf, AllPieces
<1>4. QED
  BY <1>2, <1>3 DEF Has, Active

\* The listing finds the nodes that hold an iceoryx2 node.
LEMMA ListingFollows == IndInv => NodesListed
<1> SUFFICES ASSUME IndInv PROVE NodesListed
  OBVIOUS
<1> DEFINE entry(h) == [ns |-> handle[h].ns, name |-> "name"]
           holders == {g \in Handles : <<g, "ipc_node">> \in held}
<1>0. TypeInv
  BY DEF IndInv
<1>1. ASSUME NEW i \in 1 .. Len(impls) PROVE impls[i].id \in STRING \ {"nodes"}
  <2>1. impls[i] \in [id : InstanceIds, counter : Nat]
    BY <1>0, ContextTyped, ElementOfSeq
  <2>2. QED
    BY <2>1, LifecycleAssumption
<1>2. ASSUME NEW i \in 1 .. Len(impls) PROVE parse_name(context_name(i)) = {}
  BY <1>1, ParseContext DEF context_name
<1>3. ASSUME NEW h \in holders PROVE parse_name(node_name(h)) = {entry(h)}
  <2>1. h \in Handles /\ handle[h].kind = "node"
    BY IpcNodes
  <2>2. handle[h].impl \in 0 .. Len(impls) /\ handle[h].impl # Null
    BY <1>0, <2>1, HandleTyped DEF HandleRecord, TypeInv, HandlesStaged, Staged, HasGuardCondition
  <2>3. handle[h].impl \in 1 .. Len(impls)
    BY <1>0, <2>2, HandleTyped DEF Null
  <2>4. handle[h].ns \in Seq(STRING)
    <3>1. handle[h].ns \in Namespaces \cup {<<>>}
      BY <1>0, <2>1, HandleTyped DEF HandleRecord
    <3>2. <<>> \in Seq(STRING)
      BY EmptySeq
    <3>3. QED
      BY <3>1, <3>2, LifecycleAssumption
  <2>5. node_name(h) = <<"ros2:", "context", impls[handle[h].impl].id>> \o <<"nodes">>
                          \o handle[h].ns \o <<"name">>
    BY DEF node_name, context_name
  <2>6. impls[handle[h].impl].id \in STRING \ {"nodes"}
    BY <1>1, <2>3
  <2>7. QED
    BY <2>4, <2>5, <2>6, ParseNode
<1>4. collect_node_names = {entry(h) : h \in holders}
  <2>1. ASSUME NEW n PROVE n \in collect_node_names <=> n \in {entry(h) : h \in holders}
    <3>1. n \in collect_node_names <=>
            \/ \E h \in holders : n \in parse_name(node_name(h))
            \/ \E i \in 1 .. Len(impls) : ImplAlive(i) /\ n \in parse_name(context_name(i))
            \/ \E name \in ForeignInstances : n \in parse_name(name)
      BY DEF collect_node_names
    <3> HIDE DEF entry, holders
    <3>2. QED
      BY <1>2, <1>3, <3>1, ParseForeign
  <2>2. QED
    BY <2>1
<1>5. \A h \in Handles : entry(h).ns = handle[h].ns /\ entry(h).name = "name"
  OBVIOUS
<1>6. \A h \in holders : /\ h \in Handles /\ handle[h].kind = "node"
                         /\ handle[h].phase \in {"live", "creating"}
  BY IpcNodes
<1>7. \A h \in Handles : handle[h].kind = "node" /\ handle[h].phase \in {"live"} => h \in holders
  BY IpcNodes
<1> HIDE DEF entry, holders
<1>8. QED
  BY <1>4, <1>5, <1>6, <1>7 DEF NodesListed

\* collect_node_names finds exactly the nodes: parse_name cuts every name where
\* node_name put it together, whatever segments a namespace has, and passes over
\* the instances of contexts and of other programs.
THEOREM NodesAreListed == Spec => []NodesListed
BY ListingFollows, Invariance, PTL
===============================================================================
