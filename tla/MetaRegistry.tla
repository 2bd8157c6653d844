------------------------------ MODULE MetaRegistry ------------------------------
(* zx::meta::registry: the fields of types, added in the static constructors of  *)
(* their owners, and the walks over them (zx_meta_registry, zx_meta_field,       *)
(* zx_meta_fldpwns, zx_enums). Adding a field makes its two types known.         *)
(*                                                                               *)
(* Several modules register; one thread runs. A walk calls client code for every *)
(* field, and that code may register fields or start another walk.               *)
EXTENDS TypeRegistry

CONSTANTS
    Names,           \* names of fields
    Offsets,
    Labels,          \* names of nameletons
    Members,         \* what clients register: a set of Member
    PawnTypes,       \* types clients make fieldpawns of
    Slots,           \* the unique_ptr variables clients keep fieldpawns in
    NoPawn,
    Unlabelled,
    MaxPawns,        \* bound on the slots in use when a fieldpawn is made
    MaxWalks         \* bound on nested walks

expose_type == {"value", "shrptr"}
fieldpawn_type == {"none", "singleton", "nameleton", "signal_pack"}

\* fieldpawn and named_fieldpawn: only the latter has a label.
Pawn ==
    [type: fieldpawn_type, label: {Unlabelled}] \cup [type: {"nameleton"}, label: Labels]

\* A pointer to member of type Data, and the name it is registered under.
Member == [owner: Types, name: Names, data: Types, offset: Offsets]

field_data ==
    [owner_type: Types, type: Types, name: Names, offset: Offsets,
     expose_type: expose_type, pawn: Pawn \cup {NoPawn}]

ASSUME MetaAssumption ==
    /\ Members \subseteq Member
    /\ NoPawn \notin Pawn /\ Unlabelled \notin Labels
    /\ PawnTypes \subseteq fieldpawn_type
    /\ MaxPawns \in Nat /\ MaxWalks \in Nat

VARIABLES
    fields,          \* __fields: [Types -> [names -> field_data]]
    pawns,           \* [Slots -> the fieldpawn the slot owns]
    walks            \* walks in progress, innermost first: of an owner that had the
                     \* fields began, with the fields shown so far and those left

vars == <<typeVars, fields, pawns, walks>>

-----------------------------------------------------------------------------
(* Fieldpawns. *)

Vacant(s) == pawns[s] = NoPawn /\ Cardinality({r \in Slots : pawns[r] # NoPawn}) < MaxPawns

MakeFieldpawn(s, type) ==
    /\ Vacant(s)
    /\ pawns' = [pawns EXCEPT ![s] = [type |-> type, label |-> Unlabelled]]
    /\ UNCHANGED <<typeVars, fields, walks>>

MakeNamedFieldpawn(s, label) ==
    /\ Vacant(s)
    /\ pawns' = [pawns EXCEPT ![s] = [type |-> "nameleton", label |-> label]]
    /\ UNCHANGED <<typeVars, fields, walks>>

\* The move constructors: what is left is a fieldpawn of type none.
MoveFieldpawn(from, to) ==
    /\ pawns[from] # NoPawn /\ pawns[to] = NoPawn
    /\ pawns' = [pawns EXCEPT ![to] = pawns[from],
                              ![from] = [type |-> "none", label |-> Unlabelled]]
    /\ UNCHANGED <<typeVars, fields, walks>>

-----------------------------------------------------------------------------
(* Registration. *)

create_value(m) ==
    [owner_type |-> m.owner, type |-> m.data, name |-> m.name, offset |-> m.offset,
     expose_type |-> "value", pawn |-> [type |-> "none", label |-> Unlabelled]]

\* Mutant of create_shrptr: exposed by value.
create_shrptrByValue(m, pawn) == [create_value(m) EXCEPT !.pawn = pawn]

create_shrptr(m, pawn) ==
    [owner_type |-> m.owner, type |-> m.data, name |-> m.name, offset |-> m.offset,
     expose_type |-> "shrptr", pawn |-> pawn]

\* registry::add_field(field): a field of that name is overwritten.
Store(f) ==
    fields' = [fields EXCEPT ![f.owner_type] =
                  [n \in DOMAIN @ \cup {f.name} |-> IF n = f.name THEN f ELSE @[n]]]

\* Mutant of DisturbWalks: a field is erased before it is added, an old one too.
DisturbWalksAlways(m) ==
    \E rest \in [DOMAIN walks -> SUBSET (DOMAIN fields[m.owner] \cup {m.name})] :
        walks' = [i \in DOMAIN walks |-> IF walks[i].owner = m.owner /\ walks[i].began # {}
                                         THEN [walks[i] EXCEPT !.left = rest[i]] ELSE walks[i]]

(* A new name invalidates the iterators of the walks over its owner, if they had *)
(* any field: nodes are chained anew, so what such a walk still shows may be any *)
(* fields, also some it has shown. An overwritten field keeps its node, and the  *)
(* table of another owner stays where it is, also when the outer one grows.      *)
DisturbWalks(m) ==
    IF m.name \in DOMAIN fields[m.owner] THEN UNCHANGED walks
    ELSE \E rest \in [DOMAIN walks -> SUBSET (DOMAIN fields[m.owner] \cup {m.name})] :
            walks' = [i \in DOMAIN walks |-> IF walks[i].owner = m.owner /\ walks[i].began # {}
                                             THEN [walks[i] EXCEPT !.left = rest[i]] ELSE walks[i]]

KnowTypes(m) ==
    /\ factories' = AfterI(AfterI(factories, m.owner), m.data)
    /\ UNCHANGED <<ensured_first, ensured_default>>

AddField(m) ==
    /\ KnowTypes(m) /\ Store(create_value(m)) /\ DisturbWalks(m)
    /\ UNCHANGED pawns

\* The caller's unique_ptr is moved into the field.
AddPawnField(m, s) ==
    /\ pawns[s] # NoPawn
    /\ KnowTypes(m) /\ Store(create_shrptr(m, pawns[s])) /\ DisturbWalks(m)
    /\ pawns' = [pawns EXCEPT ![s] = NoPawn]

-----------------------------------------------------------------------------
(* Walks. The look-ups (get_field, and those of walks) may make an empty table,   *)
(* which reads like none: get_field changes nothing, and throws on an unknown    *)
(* name.                                                                         *)

\* get_fields, and the begin of a loop over it.
GetFields(t) ==
    /\ t \in Known /\ Len(walks) < MaxWalks
    /\ walks' = <<[owner |-> t, began |-> DOMAIN fields[t], shown |-> {},
                   left |-> DOMAIN fields[t]]>> \o walks
    /\ UNCHANGED <<typeVars, fields, pawns>>

\* One turn of for_each_field_of_type's loop: routine(field).
Visit ==
    /\ walks # <<>>
    /\ \E n \in Head(walks).left :
        walks' = [walks EXCEPT ![1].left = @ \ {n}, ![1].shown = @ \cup {n}]
    /\ UNCHANGED <<typeVars, fields, pawns>>

\* A loop ends when nothing is left.
EndWalk ==
    /\ walks # <<>> /\ Head(walks).left = {}
    /\ walks' = Tail(walks)
    /\ UNCHANGED <<typeVars, fields, pawns>>

-----------------------------------------------------------------------------
Init ==
    /\ TypeInit
    /\ fields = [t \in Types |-> <<>>] /\ walks = <<>>
    /\ pawns = [s \in Slots |-> NoPawn]

Next ==
    \/ \E t \in Types :
        \/ I(t) /\ UNCHANGED <<fields, pawns, walks>>
        \/ EnsureDefault(t) /\ UNCHANGED <<fields, pawns, walks>>
        \/ \E c \in Reflected[t] :
            EnsureConstructor(t, c) /\ UNCHANGED <<fields, pawns, walks>>
        \/ GetFields(t)
    \/ \E s \in Slots :
        \/ \E p \in PawnTypes : MakeFieldpawn(s, p)
        \/ \E l \in Labels : MakeNamedFieldpawn(s, l)
        \/ \E r \in Slots : MoveFieldpawn(r, s)
    \/ \E m \in Members : AddField(m) \/ \E s \in Slots : AddPawnField(m, s)
    \/ Visit \/ EndWalk

Spec == Init /\ [][Next]_vars

-----------------------------------------------------------------------------
(* Every variable has its type. *)
TypeOK ==
    /\ Known \subseteq Types /\ \A t \in Known :
        factories[t] \subseteq Reflected[t] \cup (IF t \in Default THEN {<<>>} ELSE {})
    /\ ensured_first \cup ensured_default \subseteq Known
    /\ DOMAIN fields = Types
    /\ \A t \in Types : /\ DOMAIN fields[t] \subseteq Names
                        /\ \A n \in DOMAIN fields[t] : fields[t][n] \in field_data
    /\ pawns \in [Slots -> Pawn \cup {NoPawn}]
    /\ \A i \in DOMAIN walks :
        /\ walks[i].owner \in Types
        /\ walks[i].began \cup walks[i].shown \cup walks[i].left \subseteq Names

(* What inject_dependencies relies on, for fields registered over and over, from *)
(* any slot: a field is found under its owner and name, its pawn can be asked    *)
(* for its type, and a field with a pawn is a shared pointer, so that reason     *)
(* field_is_not_shrptr is never thrown.                                          *)
FieldsConsistent ==
    \A t \in Types : \A n \in DOMAIN fields[t] :
        LET f == fields[t][n] IN
        /\ f.owner_type = t /\ f.name = n
        /\ {f.owner_type, f.type} \subseteq Known
        /\ f.pawn # NoPawn
        /\ f.pawn.type # "none" => f.expose_type = "shrptr"

(* A walk shows registered fields only. Whatever its callbacks register for other *)
(* types, overwrite and walk themselves, it shows every field it began with once; *)
(* only a new name of its own owner makes it skip fields or repeat them.         *)
WalksAreComplete ==
    \A i \in DOMAIN walks :
        LET w == walks[i] IN
        /\ w.shown \cup w.left \subseteq DOMAIN fields[w.owner]
        /\ DOMAIN fields[w.owner] = w.began =>
            w.shown \cup w.left = w.began /\ w.shown \cap w.left = {}
===============================================================================
