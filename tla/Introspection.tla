---------------------------- MODULE Introspection -----------------------------
(***************************************************************************)
(* Message types as the rosidl introspection describes them, and the       *)
(* question on which the whole data path turns: may a message be copied    *)
(* byte by byte, or must it be serialized?                                 *)
(*                                                                         *)
(* A type is the sequence of its members.  The C and the C++ description   *)
(* have the same fields and the code the same functions for both; only the *)
(* C++ ones are reached.                                                   *)
(***************************************************************************)
EXTENDS Naturals, Sequences

CONSTANTS MessageTypes   \* closed under nesting

MemberKinds == {"PRIMITIVE", "STRING", "WSTRING", "MESSAGE"}

\* A member that is no message has no members of its own.
Member(type_id, is_array, array_size, is_upper_bound, members) ==
    [type_id |-> type_id, is_array |-> is_array, array_size |-> array_size,
     is_upper_bound |-> is_upper_bound, members |-> members]

ASSUME MessageTypesAssumption ==
    \A t \in MessageTypes : \A i \in DOMAIN t :
        /\ t[i].type_id \in MemberKinds
        /\ t[i].type_id = "MESSAGE" => t[i].members \in MessageTypes

is_message(member) == member.type_id = "MESSAGE"

\* Mutant of is_dynamic_array: a bounded sequence is taken for an array.
BoundedIsFixed(member) == member.is_array /\ member.array_size = 0

\* A sequence, bounded or not.
is_dynamic_array(member) ==
    member.is_array /\ (member.array_size = 0 \/ member.is_upper_bound)

is_dynamic_string(member) == member.type_id = "STRING"

\* is_pod of the members of a type: no sequence and no string at any depth.
is_pod[t \in MessageTypes] ==
    \A i \in DOMAIN t :
        /\ ~is_dynamic_array(t[i]) /\ ~is_dynamic_string(t[i])
        /\ is_message(t[i]) => is_pod[t[i].members]

\* is_pod of a type support: only a C++ one carries the C++ introspection.
is_pod_support(support, t) == support = "cpp" /\ is_pod[t]

(***************************************************************************)
(* The reference: where a message's memory refers to other memory          *)
(***************************************************************************)

\* Every member of a type and of the types nested in it.
AllMembers[t \in MessageTypes] ==
    {t[i] : i \in DOMAIN t}
        \cup UNION {AllMembers[t[i].members] : i \in {j \in DOMAIN t : t[j].type_id = "MESSAGE"}}

\* In C++ a string, a wide string and a sequence hold a pointer to their
\* elements; an array of fixed size holds the elements.
HoldsPointer(member) ==
    \/ member.type_id \in {"STRING", "WSTRING"}
    \/ member.is_array /\ (member.is_upper_bound \/ member.array_size = 0)

SelfContained(t) == \A member \in AllMembers[t] : ~HoldsPointer(member)
HasWideString(t) == \E member \in AllMembers[t] : member.type_id = "WSTRING"
===============================================================================
