----------------------------- MODULE MC_DiContainer -----------------------------
(* Interface 1 is implemented by 2. 2 needs 3, and 3 needs interface 1: 2 has a *)
(* guarded constructor. 4 is an injectee with pawns of three kinds, 5 one with  *)
(* a plain fieldpawn of type nameleton, on which injection throws.              *)
EXTENDS DiContainer, TLC

Pawn(name, type, pawn, label) ==
    [name |-> name, type |-> type, expose |-> "shrptr", pawn |-> pawn, label |-> label]
PlainValue == [name |-> "value", type |-> 3, expose |-> "value", pawn |-> "none", label |-> 0]

MCFields ==
    <<{},
      {Pawn("first", 3, "singleton", 0)},
      {Pawn("first", 1, "signal_pack", 0)},
      {Pawn("first", 1, "singleton", 0), Pawn("second", 3, "nameleton", 1), PlainValue},
      {Pawn("first", 3, "singleton", 0), Pawn("second", 3, "nameleton", 0)}>>

Offer(interface, impl, label) ==
    [mapped |-> interface # 0, interface |-> interface, impl |-> impl, label |-> label]

MCOffers == "c1" :> {Offer(1, 2, 0), Offer(0, 3, 0)} @@ "c2" :> {Offer(0, 3, 1), Offer(1, 2, 1)}
TwoAndOne == "c1" :> 2 @@ "c2" :> 1

(* Four nameletons, two types by two names, and constructors without pawns.      *)
NoFields == <<{}, {}, {}, {}, {}>>
NameletonOffers == "c1" :> {Offer(0, t, l) : t \in {2, 3}, l \in {1, 2}}
Four == "c1" :> 4
===============================================================================
