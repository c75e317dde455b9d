--------------------------------- MODULE Spin ---------------------------------
(***************************************************************************)
(* PubSub and Wakeups together: an executor that waits for subscriptions   *)
(* and takes their messages.  The payload travels through the buffer of a  *)
(* subscriber, the news of it through an event service and the wait set's  *)
(* listener; rmw_wait looks at the latter only.                            *)
(*                                                                         *)
(* The wait set is the abstract one, which WaitSet is shown to implement.  *)
(* The executor is external: when a subscription is reported it takes      *)
(* until there is nothing left, and then waits again.                      *)
(***************************************************************************)
EXTENDS PubSub

VARIABLES
    listening, owed, reported,  \* of Wakeups
    silent                      \* history: the subscribers that hold a message
                                \* whose notification no listener got

W == INSTANCE Wakeups WITH Sources <- Subscribers, MayLose <- FALSE

wakeVars == <<listening, owed, reported, silent>>
spinVars == <<vars, wakeVars>>

SpinInit == Init /\ W!Init /\ silent = {}

\* Mutant of FirstWait: a listener is created again for each call.
WaitsAnew(s) ==
    /\ listening' = listening \cup {s}
    /\ owed' = owed \ {s}
    /\ UNCHANGED <<vars, reported, silent>>

\* The listener of a subscription is created when it is first waited on.
FirstWait(s) ==
    /\ s \notin listening
    /\ W!Listen(s)
    /\ UNCHANGED <<vars, silent>>

\* What a publisher does besides notifying.
Prepare(p) ==
    /\ \/ Publish(p) \/ RmwBorrow(p)
       \/ \E c \in lent[p] : RmwReturnLoaned(p, c)
    /\ UNCHANGED wakeVars

\* Subscribers with a message that nothing will make the executor look for.
Missed(X) == {s \in X : buffer[s] # <<>> /\ s \notin owed \cup reported}

\* Mutant of Announce: the sample is sent and nobody is notified.
AnnounceNobody(p) ==
    /\ PublishNotifies(p)
    /\ UNCHANGED wakeVars

\* The notification at the end of a publish, and its failure.
Announce(p) ==
    /\ PublishNotifies(p)
    /\ \/ /\ ret'[p] = "OK"
          /\ W!Notify(Subscribers)
          /\ silent' = silent \cup Missed(Subscribers \ listening)
       \/ /\ ret'[p] = "ERROR"
          /\ silent' = silent \cup Missed(Subscribers)
          /\ UNCHANGED <<listening, owed, reported>>

\* rmw_wait returns the subscription; it may be notified again meanwhile.
WaitReturns(s) ==
    /\ s \notin reported
    /\ \E again \in SUBSET {s} : W!Report({s}, again)
    /\ silent' = silent \ {s}
    /\ UNCHANGED vars

ExecutorTakes(s) ==
    /\ s \in reported
    /\ TakeStep(s) \/ ReceiveFails(s)
    /\ UNCHANGED wakeVars

ExecutorReturns(s) == ReturnStep(s) /\ UNCHANGED wakeVars

ExecutorFindsNothing(s) ==
    /\ s \in reported
    /\ TakeNothing(s)
    /\ W!Begin({s})
    /\ UNCHANGED silent

SpinNext ==
    \/ \E p \in Publishers : Prepare(p) \/ Announce(p)
    \/ \E s \in Subscribers :
          \/ FirstWait(s) \/ WaitReturns(s)
          \/ ExecutorTakes(s) \/ ExecutorReturns(s) \/ ExecutorFindsNothing(s)

\* A publish that has begun ends, rmw_wait returns when it is notified, and the
\* executor handles what has been reported.
SpinSpec ==
    /\ SpinInit /\ [][SpinNext]_spinVars
    /\ \A p \in Publishers : WF_spinVars(Announce(p))
    /\ \A s \in Subscribers :
          /\ WF_spinVars(WaitReturns(s))
          /\ WF_spinVars(s \in reported /\ TakeStep(s) /\ UNCHANGED wakeVars)
          /\ WF_spinVars(ExecutorReturns(s))
          /\ WF_spinVars(ExecutorFindsNothing(s))

(***************************************************************************)
(* Properties                                                              *)
(***************************************************************************)

\* No message lies in a buffer unannounced: the subscription is being handled,
\* its listener has been notified, or a publish has yet to notify.  Except that
\* a notification that failed, or came before the first wait created the
\* listener, is not made up for.
Announced ==
    \A s \in Subscribers :
        (buffer[s] # <<>> /\ s \notin silent)
            => s \in reported \cup owed \/ notifying # {}

\* A subscription that is waited on is emptied again and again, however
\* publishing, notifying, waking up and taking interleave, unless a notification
\* was missed; and the next one that is not missed makes up for it.
MessagesTaken ==
    \A s \in Subscribers :
        (s \in listening /\ buffer[s] # <<>> /\ s \notin silent)
            ~> (buffer[s] = <<>> \/ s \in silent)
===============================================================================
