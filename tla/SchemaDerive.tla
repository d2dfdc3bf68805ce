---------------------------- MODULE SchemaDerive ----------------------------
(***************************************************************************)
(* What #[derive(DBMapUtils)] does with the struct it is given, before it  *)
(* emits any code: derive_dbmap_utils_general, extract_generics_names,     *)
(* extract_struct_info and get_options_override_function.  The struct is  *)
(* abstracted to its generic parameters and, per field, its name, its type *)
(* (a path of segments, each an identifier with or without <...>          *)
(* arguments, or some other kind of type) and its attributes.  The result *)
(* is a panic, which fails compilation, or the table schema the generated *)
(* code is built from.  One step expands the macro; the reference          *)
(* definition of spec section 4.1 is compared with it.                     *)
(***************************************************************************)
EXTENDS Integers, Sequences

CONSTANTS
    TypeShapes,    \* field types the model considers
    AttrLists,     \* attribute lists a field may carry
    GenericLists,  \* generic parameter lists the struct may declare
    MaxFields      \* bound on the number of fields

ASSUME MaxFieldsAssumption == MaxFields \in Nat

(* Line 282: the map types a field may have.                               *)
AllowedKinds == {"DBMap", "Store"}
(* Lines 16 and 18.                                                        *)
DefaultOptionsFn == "default_rocksdb_options"
OptionsAttr == "default_options_override_fn"

(* A field type given as a path has at least one segment (a syn::Path is   *)
(* never empty).  typed_store's DBMap and Store take exactly two type      *)
(* parameters and have no associated types, so rustc accepts a path whose  *)
(* first segment is DBMap<...> or Store<...> only as that one segment with *)
(* two arguments; the macro itself does not check either.                  *)
Segments == [ident : STRING, angle : BOOLEAN, args : Seq(STRING)]

ASSUME ShapesAssumption ==
    \A ty \in TypeShapes :
        ty.path \in BOOLEAN /\
        (ty.path =>
            /\ ty.segs \in Seq(Segments) /\ Len(ty.segs) >= 1
            /\ ty.segs[1].angle /\ ty.segs[1].ident \in AllowedKinds
                => Len(ty.segs) = 1 /\ Len(ty.segs[1].args) = 2)

VARIABLES
    input,    \* the struct the macro is applied to
    expanded, \* the macro has run
    outcome   \* the panic it raised or the schema it extracted

vars == <<input, expanded, outcome>>

Structs ==
    [generics : GenericLists, named : BOOLEAN,
     fields : UNION {[1 .. n -> [ty : TypeShapes, attrs : AttrLists]] :
                        n \in 0 .. MaxFields}]

(* Field i's identifier: f1, f2, ... in a struct with named fields.        *)
FieldName(i) == <<"f", i>>

Panic(msg) == [ok |-> FALSE, msg |-> msg]

-----------------------------------------------------------------------------
(* extract_generics_names: only type parameters are supported.             *)
GenericsOk(s) == \A i \in DOMAIN s.generics : s.generics[i] = "type"

(* get_options_override_function: #[default_options_override_fn = "f"]    *)
(* yields f; any other form of the attribute is an error.                  *)
OverrideFn(a) ==
    IF a.meta = "name_value" /\ a.name = OptionsAttr /\ a.lit = "str"
    THEN [ok |-> TRUE, fn |-> a.value] ELSE [ok |-> FALSE]

(* Lines 49-60: the field's options: the first matching attribute's        *)
(* function (the others are ignored), else the default; an error in that   *)
(* attribute is unwrapped.                                                 *)
OptionsOf(f) ==
    LET mine == SelectSeq(f.attrs, LAMBDA a : a.name = OptionsAttr)
    IN IF mine = <<>> THEN [ok |-> TRUE, fn |-> DefaultOptionsFn]
       ELSE OverrideFn(mine[1])

(* Faulty variant of KindOf, kept to confirm the properties catch it: the  *)
(* segment's name is taken without checking it is an allowed map type.    *)
KindOfAnyName(f) ==
    IF ~f.ty.path THEN [ok |-> FALSE]
    ELSE LET seg == f.ty.segs[1]
         IN IF seg.angle THEN [ok |-> TRUE, kind |-> seg.ident, args |-> seg.args]
            ELSE [ok |-> FALSE]

(* Lines 62-83: the map type is read off the path's FIRST segment, which   *)
(* must carry <...> arguments and name an allowed kind.                    *)
KindOf(f) ==
    IF ~f.ty.path THEN [ok |-> FALSE]
    ELSE LET seg == f.ty.segs[1]
         IN IF seg.angle /\ seg.ident \in AllowedKinds
            THEN [ok |-> TRUE, kind |-> seg.ident, args |-> seg.args]
            ELSE [ok |-> FALSE]

(* One turn of the closure of lines 48-84: the panic it raises, or "ok".   *)
FieldVerdict(s, i) ==
    LET f == s.fields[i] IN
    IF ~OptionsOf(f).ok THEN "BadOptionsAttr"
    ELSE IF ~KindOf(f).ok THEN "NotTableType"
    ELSE IF ~s.named THEN "UnnamedField"
    ELSE "ok"

(* The fields are visited in order by unzip, so the first bad field's      *)
(* panic is the one raised.                                                *)
FirstBad(s) ==
    LET bad == {i \in DOMAIN s.fields : FieldVerdict(s, i) # "ok"}
    IN CHOOSE i \in bad : \A j \in bad : i <= j

(* Faulty variant of DeriveOutcome, kept to confirm the properties catch   *)
(* it: the homogeneity check of lines 89-95 is left out.                   *)
DeriveOutcomeMixedKinds(s) ==
    LET n == Len(s.fields)
    IN IF ~GenericsOk(s) THEN Panic("UnsupportedGeneric")
       ELSE IF \E i \in 1 .. n : FieldVerdict(s, i) # "ok"
            THEN Panic(FieldVerdict(s, FirstBad(s)))
       ELSE IF n = 0 THEN Panic("EmptyStruct")
       ELSE [ok |-> TRUE, kind |-> KindOf(s.fields[1]).kind,
             tables |-> [i \in 1 .. n |->
                LET a == KindOf(s.fields[i]).args IN
                [name |-> FieldName(i), key |-> a[1], value |-> a[Len(a)],
                 opts |-> OptionsOf(s.fields[i]).fn]]]

(* derive_dbmap_utils_general up to the emitted code (lines 275-331): the  *)
(* generics, the fields, the homogeneity and emptiness checks (89-98),     *)
(* then key and value as the first and last type argument (294-297).      *)
DeriveOutcome(s) ==
    LET n == Len(s.fields)
        kinds == {KindOf(s.fields[i]).kind : i \in 1 .. n}
    IN IF ~GenericsOk(s) THEN Panic("UnsupportedGeneric")
       ELSE IF \E i \in 1 .. n : FieldVerdict(s, i) # "ok"
            THEN Panic(FieldVerdict(s, FirstBad(s)))
       ELSE IF n = 0 THEN Panic("EmptyStruct")
       ELSE IF kinds # {KindOf(s.fields[1]).kind} THEN Panic("NotSameType")
       ELSE [ok |-> TRUE, kind |-> KindOf(s.fields[1]).kind,
             tables |-> [i \in 1 .. n |->
                LET a == KindOf(s.fields[i]).args IN
                [name |-> FieldName(i), key |-> a[1], value |-> a[Len(a)],
                 opts |-> OptionsOf(s.fields[i]).fn]]]

-----------------------------------------------------------------------------
Init ==
    /\ input \in Structs
    /\ expanded = FALSE
    /\ outcome = Panic("NotExpanded")

(* The compiler expands the derive once.                                   *)
Derive ==
    /\ ~expanded
    /\ expanded' = TRUE
    /\ outcome' = DeriveOutcome(input)
    /\ UNCHANGED input

Next == Derive

Spec == Init /\ [][Next]_vars

-----------------------------------------------------------------------------
(* Spec section 4.1: the table kind a field declares is the type its path  *)
(* names, i.e. the last segment, with a key and a value argument.          *)
RefKind(f) ==
    IF f.ty.path /\ f.ty.segs[Len(f.ty.segs)].angle
    THEN f.ty.segs[Len(f.ty.segs)].ident ELSE "invalid"

(* A schema the spec calls valid: at least one table, every field of an    *)
(* allowed kind, one kind for all.                                         *)
RefValid(s) ==
    /\ Len(s.fields) > 0
    /\ \A i \in DOMAIN s.fields : RefKind(s.fields[i]) \in AllowedKinds
    /\ \A i \in DOMAIN s.fields : RefKind(s.fields[i]) = RefKind(s.fields[1])

(* The inputs the spec speaks of: named fields, type generics only, at     *)
(* most one well-formed options attribute per field.                       *)
SpecInput(s) ==
    /\ s.named /\ GenericsOk(s)
    /\ \A i \in DOMAIN s.fields :
         LET mine == SelectSeq(s.fields[i].attrs, LAMBDA a : a.name = OptionsAttr)
         IN Len(mine) <= 1 /\ \A j \in DOMAIN mine : OverrideFn(mine[j]).ok

(* The table the spec extracts from field i: its name, its key and value   *)
(* types, and its options function, the default when none is given.        *)
RefTable(s, i) ==
    LET f == s.fields[i]
        a == f.ty.segs[Len(f.ty.segs)].args
        mine == SelectSeq(f.attrs, LAMBDA x : x.name = OptionsAttr)
    IN [name |-> FieldName(i), key |-> a[1], value |-> a[2],
        opts |-> IF mine = <<>> THEN DefaultOptionsFn ELSE mine[1].value]

Panics == {"NotExpanded", "UnsupportedGeneric", "BadOptionsAttr",
           "NotTableType", "UnnamedField", "EmptyStruct", "NotSameType"}

TypeOK ==
    /\ input \in Structs
    /\ expanded \in BOOLEAN
    /\ \/ outcome \in [ok : {FALSE}, msg : Panics]
       \/ /\ outcome.ok = TRUE
          /\ outcome.kind \in AllowedKinds
          /\ \A i \in DOMAIN outcome.tables : outcome.tables[i].name \in {FieldName(j) : j \in 1 .. MaxFields}

(* A struct the macro accepts is one the spec calls valid, and the tables  *)
(* it yields (which describe_tables and the name dispatch of dump and      *)
(* count_keys are built from) are exactly the declared fields, each with   *)
(* its declared key type, value type and options function.                 *)
AcceptedSchemaMatchesSpec ==
    expanded /\ outcome.ok =>
        /\ RefValid(input)
        /\ outcome.kind = RefKind(input.fields[1])
        /\ outcome.tables = [i \in DOMAIN input.fields |-> RefTable(input, i)]

(* Every struct the spec calls valid is accepted by the macro.             *)
SpecValidSchemaAccepted ==
    expanded /\ SpecInput(input) /\ RefValid(input) => outcome.ok
=============================================================================
