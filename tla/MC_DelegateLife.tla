----------------------------- MODULE MC_DelegateLife -----------------------------
(* Two objects of a class with two methods, some of whose hashes collide, and a   *)
(* function.                                                                      *)
EXTENDS DelegateLife, TLC

CONSTANTS h1, h2, h3, l1, l2, x, y

MCSubscribers ==
    {[owner |-> x, fn |-> "foo"], [owner |-> x, fn |-> "bar"],
     [owner |-> y, fn |-> "bar"], [owner |-> Static, fn |-> "glob"]}
MCAddress == x :> {1, 3} @@ y :> {2, 3}
MCCode == "foo" :> {1} @@ "bar" :> {2}
MCStdHash == "glob" :> {4}

NameSymmetry == Permutations({h1, h2, h3}) \cup Permutations({l1, l2})
===============================================================================
