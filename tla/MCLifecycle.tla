----------------------------- MODULE MCLifecycle ------------------------------
(* Instances of Lifecycle for TLC.                                           *)
EXTENDS Lifecycle, TLC

\* A namespace with a segment that is also in the prefix of node names.
MCNamespaces == {<<"nodes", "b">>}

\* An iceoryx2 program that groups its nodes the way rmw does.
MCForeignInstances == {<<"camera", "nodes", "driver">>}

\* Handles are interchangeable, and so are options.
HandleSymmetry == Permutations(Handles) \cup Permutations(Options)
===============================================================================
