------------------------------- MODULE Wakeups -------------------------------
(***************************************************************************)
(* What rmw_wait promises its callers, without listeners, mappings or      *)
(* indices.  Once a wait set listens to a source of notifications, every   *)
(* notification is owed to the caller until a call reports it, and a call  *)
(* reports nothing else.                                                   *)
(***************************************************************************)
EXTENDS Naturals

CONSTANTS
    Sources,   \* what may be notified
    MayLose    \* whether the notification service itself may lose some

VARIABLES
    listening,  \* the sources listened to; there is no way back
    owed,       \* the sources notified and not reported since
    reported    \* the sources the latest calls have reported

wakeupVars == <<listening, owed, reported>>

Init ==
    /\ listening = {}
    /\ owed = {}
    /\ reported = {}

\* A source is first waited on; notifications before that are nobody's.
Listen(x) ==
    /\ listening' = listening \cup {x}
    /\ UNCHANGED <<owed, reported>>

Notify(X) ==
    /\ owed' = owed \cup (X \cap listening)
    /\ UNCHANGED <<listening, reported>>

\* The caller waits again for the sources X.
Begin(X) ==
    /\ reported' = reported \ X
    /\ UNCHANGED <<listening, owed>>

\* A call reports the sources X.  Those notified again while the call was
\* collecting them stay owed.
Report(X, again) ==
    /\ X # {} /\ X \subseteq owed
    /\ again \subseteq X
    /\ reported' = reported \cup X
    /\ owed' = owed \ (X \ again)
    /\ UNCHANGED listening

\* The service fails to hand out a notification it has consumed.
Lose(x) ==
    /\ MayLose
    /\ owed' = owed \ {x}
    /\ UNCHANGED <<listening, reported>>

Next ==
    \/ \E x \in Sources : Listen(x) \/ Lose(x)
    \/ \E X \in SUBSET Sources :
            \/ Notify(X) \/ Begin(X)
            \/ \E again \in SUBSET X : Report(X, again)

Spec == Init /\ [][Next]_wakeupVars
===============================================================================
