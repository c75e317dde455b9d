------------------------------- MODULE MCTopics -------------------------------
(* Instances of Topics for TLC.                                              *)
EXTENDS Topics, TLC

Scalar(type_id) == Member(type_id, FALSE, 0, FALSE, <<>>)
Array(type_id) == Member(type_id, TRUE, 2, FALSE, <<>>)
Bounded(type_id) == Member(type_id, TRUE, 2, TRUE, <<>>)
Sequence(type_id) == Member(type_id, TRUE, 0, FALSE, <<>>)

\* A type nested in another, which is nested in the array of a third.
Plain == <<Scalar("PRIMITIVE"), Array("PRIMITIVE")>>
Nesting(leaf) == <<Member("MESSAGE", FALSE, 0, FALSE, leaf)>>
Deep(leaf) == <<Scalar("PRIMITIVE"), Member("MESSAGE", TRUE, 2, FALSE, Nesting(leaf))>>

Leaves == {Plain, <<Bounded("PRIMITIVE")>>, <<Sequence("PRIMITIVE")>>,
           <<Scalar("STRING")>>, <<Scalar("WSTRING")>>}
MCMessageTypes == Leaves \cup {Nesting(leaf) : leaf \in Leaves} \cup {Deep(leaf) : leaf \in Leaves}

WideTypes == {t \in MCMessageTypes : HasWideString(t)}
\* Each other leaf two levels down, and a bounded sequence at the top.
NarrowTypes == {Deep(leaf) : leaf \in Leaves \ WideTypes} \cup {<<Bounded("PRIMITIVE")>>}

\* Another program's names: unlike a topic's, and just short of one.
OtherName == [prefix |-> "other://", rest |-> "x"]
BarePrefix == [prefix |-> "ros2://topics", rest |-> ""]
BareNames == {BarePrefix}
OtherNames == {OtherName}

EndpointSymmetry == Permutations(Endpoints) \cup Permutations(Counters)
===============================================================================
