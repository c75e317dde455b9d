------------------------------ MODULE MCWaitSet ------------------------------
(* Instances of WaitSet for TLC: two guard conditions, two subscriptions of  *)
(* one topic and one of another.                                             *)
EXTENDS WaitSet, TLC

CONSTANTS g1, g2, s1, s2, s3

MCServiceName == g1 :> "gc1" @@ g2 :> "gc2" @@ s1 :> "topicA" @@ s2 :> "topicA"
                    @@ s3 :> "topicB"

Call(gcs, subs, t) ==
    [array |-> [kind \in WaitableEntity |-> IF kind = GUARD_CONDITION THEN gcs ELSE subs],
     timeout |-> t]

\* Arrays of different lengths and orders, a null entry, nothing at all, two
\* subscriptions of one topic.
MixedCalls ==
    { Call(<<g1, g2>>, <<s1>>, "none"),
      Call(<<g2>>, <<s3, s1>>, "finite"),
      Call(<<>>, <<s1, s2>>, "zero"),
      Call(<<g1, Null>>, <<>>, "none"),
      Call(<<>>, <<>>, "none"),
      Call(<<>>, <<>>, "zero"),
      Call(<<>>, <<>>, "finite") }

\* Calls with and without timeouts, in different orders, one that waits on every
\* service, and some with nothing to wait on.
TimedCalls ==
    { Call(<<g1, g2>>, <<s1, s3>>, "none"), Call(<<g2, g1>>, <<s3>>, "finite"),
      Call(<<g1>>, <<s1, s2>>, "zero"), Call(<<Null>>, <<s1>>, "zero"),
      Call(<<>>, <<>>, "none"),
      Call(<<>>, <<>>, "zero"), Call(<<>>, <<>>, "finite") }
===============================================================================
