------------------------------ MODULE SpinProofs ------------------------------
(* Proofs about Spin: it implements both its components, publishing and      *)
(* taking on the one side and the wakeups of rmw_wait on the other, and no   *)
(* message lies in a buffer unannounced.                                     *)
EXTENDS Spin, PubSubProofs

(***************************************************************************)
(* The components                                                          *)
(***************************************************************************)

\* A step of the composition is one of PubSub's or leaves its variables alone.
LEMMA SpinStepIsPubSub ==
    ASSUME IndInv, [SpinNext]_spinVars
    PROVE  [Next]_vars
<1>1. lent \in [Endpoints -> SUBSET Chunks]
  BY DEF IndInv, TypeOK
<1>2. ASSUME NEW p \in Publishers, Prepare(p) \/ Announce(p)
      PROVE  PublisherStep(p)
  <2>1. \A c \in lent[p] : c \in Chunks
    BY <1>1 DEF Endpoints
  <2>. QED
    BY <1>2, <2>1 DEF Prepare, Announce, PublisherStep
<1>3. ASSUME NEW s \in Subscribers, FirstWait(s) \/ WaitReturns(s)
      PROVE  UNCHANGED vars
  BY <1>3 DEF FirstWait, WaitReturns
<1>4. ASSUME NEW s \in Subscribers,
             ExecutorTakes(s) \/ ExecutorReturns(s) \/ ExecutorFindsNothing(s)
      PROVE  SubscriberStep(s)
  <2>1. \A c \in lent[s] : c \in Chunks
    BY <1>1 DEF Endpoints
  <2>. QED
    BY <1>4, <2>1
    DEF ExecutorTakes, ExecutorReturns, ExecutorFindsNothing, ReturnStep, SubscriberStep
<1>5. CASE SpinNext
  BY <1>2, <1>3, <1>4, <1>5 DEF SpinNext, Next
<1>6. CASE UNCHANGED spinVars
  BY <1>6 DEF spinVars
<1>. QED
  BY <1>5, <1>6

\* The invariant of PubSub holds in the composition.
LEMMA SpinKeepsInvariant == SpinInit /\ [][SpinNext]_spinVars => []IndInv
<1>1. SpinInit => IndInv
  BY InitInductive DEF SpinInit
<1>2. IndInv /\ [SpinNext]_spinVars => IndInv'
  BY SpinStepIsPubSub, NextInductive
<1>. QED
  BY <1>1, <1>2, PTL

\* With the wait set and the executor around them, publishers and subscribers
\* behave as PubSub says.
THEOREM SpinImplementsPubSub == SpinSpec => Spec
<1>1. SpinInit => Init
  BY DEF SpinInit
<1>2. IndInv /\ [SpinNext]_spinVars => [Next]_vars
  BY SpinStepIsPubSub
<1>. QED
  BY <1>1, <1>2, SpinKeepsInvariant, PTL DEF SpinSpec, Spec

\* The executor drives the wait set as a caller of rmw_wait may, so that the
\* refinement of Wakeups by WaitSet applies to it.
THEOREM SpinImplementsWakeups == SpinSpec => W!Spec
<1>1. SpinInit => W!Init
  BY DEF SpinInit
<1>2. [SpinNext]_spinVars => [W!Next]_(W!wakeupVars)
  <2> SUFFICES ASSUME [SpinNext]_spinVars PROVE [W!Next]_(W!wakeupVars)
    OBVIOUS
  <2>1. ASSUME NEW p \in Publishers, Prepare(p)
        PROVE  UNCHANGED W!wakeupVars
    BY <2>1 DEF Prepare, wakeVars, W!wakeupVars
  <2>2. ASSUME NEW p \in Publishers, Announce(p)
        PROVE  [W!Next]_(W!wakeupVars)
    BY <2>2 DEF Announce, W!Next, W!wakeupVars
  <2>3. ASSUME NEW s \in Subscribers, FirstWait(s)
        PROVE  W!Next
    BY <2>3 DEF FirstWait, W!Next
  <2>4. ASSUME NEW s \in Subscribers, WaitReturns(s)
        PROVE  W!Next
    BY <2>4 DEF WaitReturns, W!Next
  <2>5. ASSUME NEW s \in Subscribers, ExecutorTakes(s) \/ ExecutorReturns(s)
        PROVE  UNCHANGED W!wakeupVars
    BY <2>5 DEF ExecutorTakes, ExecutorReturns, wakeVars, W!wakeupVars
  <2>6. ASSUME NEW s \in Subscribers, ExecutorFindsNothing(s)
        PROVE  W!Next
    BY <2>6 DEF ExecutorFindsNothing, W!Next
  <2>7. CASE UNCHANGED spinVars
    BY <2>7 DEF spinVars, wakeVars, W!wakeupVars
  <2>. QED
    BY <2>1, <2>2, <2>3, <2>4, <2>5, <2>6, <2>7 DEF SpinNext
<1>. QED
  BY <1>1, <1>2, PTL DEF SpinSpec, W!Spec

(***************************************************************************)
(* Announced                                                               *)
(***************************************************************************)

\* A publisher that changes a buffer is about to notify.
LEMMA PrepareAnnounces ==
    ASSUME NEW p \in Publishers, Prepare(p)
    PROVE  UNCHANGED <<buffer, notifying>> \/ notifying' # {}
<1>1. ASSUME NEW c, Deliver(p, c)
      PROVE  notifying' # {}
  BY <1>1 DEF Deliver
<1>2. CASE Publish(p)
  BY <1>1, <1>2 DEF Publish, RmwPublish, RmwPublishSerialized, RmwPublishLoaned, publish_copy,
                    publish_loan, PublishSerialized, Fails
<1>3. CASE RmwBorrow(p) \/ \E c \in lent[p] : RmwReturnLoaned(p, c)
  BY <1>3 DEF RmwBorrow, RmwReturnLoaned, Fails
<1>. QED
  BY <1>2, <1>3 DEF Prepare

\* A subscriber's executor changes no buffer but its own.
LEMMA ExecutorTakesOwn ==
    ASSUME IndInv, NEW s \in Subscribers, ExecutorTakes(s)
    PROVE  notifying' = notifying /\ \A r \in Subscribers \ {s} : buffer'[r] = buffer[r]
<1>1. buffer \in [Subscribers -> Seq(Chunks)]
  BY DEF IndInv, TypeOK
<1>2. CASE TakeStep(s)
  <2>1. receive(s) /\ notifying' = notifying
    BY <1>2 DEF TakeStep, RmwTake, RmwTakeSerialized, RmwTakeLoaned, take_copy, take_loan,
                TakeConverted
  <2>. QED
    BY <1>1, <2>1 DEF receive
<1>3. CASE ReceiveFails(s)
  BY <1>3 DEF ReceiveFails, Fails
<1>. QED
  BY <1>2, <1>3 DEF ExecutorTakes

\* Every step of the composition keeps Announced.
LEMMA AnnouncedInductive ==
    ASSUME IndInv, Announced, [SpinNext]_spinVars
    PROVE  Announced'
<1>1. ASSUME NEW p \in Publishers, Prepare(p)
      PROVE  Announced'
  BY <1>1, PrepareAnnounces DEF Announced, Prepare, wakeVars
<1>2. ASSUME NEW p \in Publishers, Announce(p)
      PROVE  Announced'
  <2>1. buffer' = buffer
    BY <1>2 DEF Announce, PublishNotifies
  <2>2. CASE W!Notify(Subscribers) /\ silent' = silent \cup Missed(Subscribers \ listening)
    BY <2>1, <2>2 DEF W!Notify, Missed, Announced
  <2>3. CASE silent' = silent \cup Missed(Subscribers) /\ UNCHANGED <<listening, owed, reported>>
    BY <2>1, <2>3 DEF Missed, Announced
  <2>. QED
    BY <1>2, <2>2, <2>3 DEF Announce
<1>3. ASSUME NEW s \in Subscribers, FirstWait(s)
      PROVE  Announced'
  BY <1>3 DEF FirstWait, W!Listen, vars, Announced
<1>4. ASSUME NEW s \in Subscribers, WaitReturns(s)
      PROVE  Announced'
  BY <1>4 DEF WaitReturns, W!Report, vars, Announced
<1>5. ASSUME NEW s \in Subscribers, ExecutorTakes(s)
      PROVE  Announced'
  BY <1>5, ExecutorTakesOwn DEF ExecutorTakes, wakeVars, Announced
<1>6. ASSUME NEW s \in Subscribers, ExecutorReturns(s)
      PROVE  Announced'
  BY <1>6 DEF ExecutorReturns, ReturnStep, RmwReturnLoaned, Fails, wakeVars, Announced
<1>7. ASSUME NEW s \in Subscribers, ExecutorFindsNothing(s)
      PROVE  Announced'
  BY <1>7 DEF ExecutorFindsNothing, TakeNothing, W!Begin, Announced
<1>8. CASE UNCHANGED spinVars
  BY <1>8 DEF spinVars, vars, wakeVars, Announced
<1>. QED
  BY <1>1, <1>2, <1>3, <1>4, <1>5, <1>6, <1>7, <1>8 DEF SpinNext

\* Between rmw_publish and rmw_wait no news is lost: a message in a buffer has a
\* wakeup that is pending, being handled or about to be sent, unless its
\* notification failed or came before the subscription was first waited on.
THEOREM NothingUnannounced == SpinSpec => []Announced
<1>1. SpinInit => Announced
  BY DEF SpinInit, Init, Announced
<1>2. IndInv /\ Announced /\ [SpinNext]_spinVars => Announced'
  BY AnnouncedInductive
<1>. QED
  BY <1>1, <1>2, SpinKeepsInvariant, PTL DEF SpinSpec
===============================================================================
