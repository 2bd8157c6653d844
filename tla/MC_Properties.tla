------------------------------ MODULE MC_Properties ------------------------------
(* property_user_2 of core_test/PropertyTest, as two classes and with fewer       *)
(* fields: all properties of one exposure share one. And property_user_1, whose   *)
(* two wrappers are given one type here, float; there they are of float and       *)
(* double. Values are 0 and 1.                                                    *)
EXTENDS Properties, TLC

CONSTANTS u1, v1, p1, p2

Flip == [v \in Values |-> 1 - v]

property_user_1 ==
    <<val_getter("int", "order"), val_wrapper("float", "rw", Identity),
      val_wrapper("float", "index", Flip)>>

property_user_2_values ==
    <<val_getter_const("const val", "ro"), val_getter("val", "rw"), val_wrapper("val", "rw", Identity),
      val_computer("val", "rw", Flip, Flip), val_formula("val", "rw", Flip)>>

property_user_2_pointers ==
    <<ref_getter("ref", "ref"), ref_wrapper("ref", "ref", Identity),
      ref_formula("ref", "ref", Identity), ref_computer("ref", "ref", Flip, Flip),
      unq_getter("ref", "unq"),
      shr_getter("ref", "shr"), shr_wrapper("ref", "shr", Identity),
      shr_formula("ref", "shr", Identity), shr_computer("ref", "shr", Flip, Flip)>>

MCDecl == "user_1" :> property_user_1 @@ "values" :> property_user_2_values
          @@ "pointers" :> property_user_2_pointers
ThreeUsers == v1 :> "values" @@ p1 :> "pointers" @@ p2 :> "pointers"
OneUser == u1 :> "user_1"
PointerOwners == Permutations({p1, p2})
AllZero == [f \in Fields |-> 0]
===============================================================================
