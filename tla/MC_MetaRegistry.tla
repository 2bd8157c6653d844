----------------------------- MODULE MC_MetaRegistry -----------------------------
(* "some" is default constructible and has constructors (num, some), (some, num). *)
(* A member of "some" has two names, one of "num" has one; both types are walked. *)
EXTENDS MetaRegistry, TLC

CONSTANTS num, some, first, second, third, a, b

MCTypeId == num :> num @@ some :> some
MCHashCode == num :> {1} @@ some :> {1, 2}
MCSizeHash == 0 :> {} @@ 1 :> {3} @@ 2 :> {4}
MCReflected == some :> {<<num, some>>, <<some, num>>} @@ num :> {}

MCMembers ==
    {[owner |-> some, name |-> n, data |-> num, offset |-> 0] : n \in {first, second}}
        \cup {[owner |-> num, name |-> third, data |-> num, offset |-> 0]}

NameSymmetry == Permutations({a, b}) \cup Permutations({first, second})
===============================================================================
