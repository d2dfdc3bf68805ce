------------------------- MODULE SchemaDerive_proofs -------------------------
(***************************************************************************)
(* Proofs about the macro's expansion, for every set of field types,      *)
(* attribute lists and generic lists the constants may hold and every     *)
(* bound on the number of fields.  The expansion is one step, so both     *)
(* invariants reduce to facts about DeriveOutcome(s) for every struct s:   *)
(* it is a panic with a known message or a schema of allowed kind, and a  *)
(* schema it yields is the one spec section 4.1 extracts.                  *)
(***************************************************************************)
EXTENDS SchemaDerive, WellFoundedInduction, TLAPS

USE MaxFieldsAssumption

FieldShapes == [ty : TypeShapes, attrs : AttrLists]

(* A struct's fields form a sequence of at most MaxFields fields.          *)
LEMMA FieldsSeq ==
    ASSUME NEW s \in Structs
    PROVE  /\ Len(s.fields) \in 0 .. MaxFields
           /\ s.fields \in [1 .. Len(s.fields) -> FieldShapes]
<1>1. PICK n \in 0 .. MaxFields : s.fields \in [1 .. n -> FieldShapes]
  BY DEF Structs, FieldShapes
<1>2. s.fields \in Seq(FieldShapes) /\ Len(s.fields) = n
  BY <1>1
<1>3. QED
  BY <1>1, <1>2

(* A non-empty set of naturals has a least element, so the CHOOSE of      *)
(* FirstBad picks one of the bad fields.                                   *)
LEMMA LeastNat ==
    ASSUME NEW T \in SUBSET Nat, T # {}
    PROVE  \E i \in T : \A j \in T : i <= j
<1>1. PICK x \in T : \A y \in T : ~(<<y, x>> \in OpToRel(<, Nat))
  BY NatLessThanWellFounded, WFMin
<1>2. \A y \in T : ~(y < x)
  BY <1>1, Zenon DEF OpToRel
<1>3. QED
  BY <1>2

LEMMA FirstBadIsBad ==
    ASSUME NEW s \in Structs,
           \E i \in 1 .. Len(s.fields) : FieldVerdict(s, i) # "ok"
    PROVE  /\ FirstBad(s) \in 1 .. Len(s.fields)
           /\ FieldVerdict(s, FirstBad(s)) # "ok"
<1> DEFINE bad == {i \in DOMAIN s.fields : FieldVerdict(s, i) # "ok"}
<1>1. DOMAIN s.fields = 1 .. Len(s.fields)
  BY FieldsSeq
<1>2. bad \in SUBSET Nat /\ bad # {}
  BY <1>1
<1>3. \E i \in bad : \A j \in bad : i <= j
  BY <1>2, LeastNat
<1>4. QED
  BY <1>1, <1>3 DEF FirstBad

(* The verdict on a field is a panic message or "ok".                      *)
LEMMA VerdictValues ==
    ASSUME NEW s, NEW i
    PROVE  FieldVerdict(s, i) \in {"BadOptionsAttr", "NotTableType", "UnnamedField", "ok"}
  BY DEF FieldVerdict

(* A field the closure of lines 48-84 lets through has its options and a   *)
(* map type, read off its one segment, which also names the spec's kind    *)
(* and carries exactly the key and the value argument.                     *)
LEMMA GoodField ==
    ASSUME NEW f \in FieldShapes, OptionsOf(f).ok, KindOf(f).ok
    PROVE  /\ f.ty.path /\ Len(f.ty.segs) = 1
           /\ KindOf(f).kind = RefKind(f) /\ RefKind(f) \in AllowedKinds
           /\ KindOf(f).args = f.ty.segs[Len(f.ty.segs)].args
           /\ Len(KindOf(f).args) = 2
<1>1. f.ty \in TypeShapes
  BY DEF FieldShapes
<1>2. f.ty.path /\ f.ty.segs[1].angle /\ f.ty.segs[1].ident \in AllowedKinds
  BY DEF KindOf
<1>3. Len(f.ty.segs) = 1 /\ Len(f.ty.segs[1].args) = 2
  BY <1>1, <1>2, ShapesAssumption
<1>4. KindOf(f) = [ok |-> TRUE, kind |-> f.ty.segs[1].ident, args |-> f.ty.segs[1].args]
  BY <1>2 DEF KindOf
<1>5. QED
  BY <1>2, <1>3, <1>4 DEF RefKind

(* The options the macro takes for a field it accepts are the ones the     *)
(* spec's table carries.                                                   *)
LEMMA GoodOptions ==
    ASSUME NEW f, OptionsOf(f).ok
    PROVE  OptionsOf(f).fn =
             LET mine == SelectSeq(f.attrs, LAMBDA x : x.name = OptionsAttr)
             IN IF mine = <<>> THEN DefaultOptionsFn ELSE mine[1].value
  BY DEF OptionsOf, OverrideFn

(* The outcome of the expansion, as TypeOK constrains it.                  *)
OutcomeTyped(o) ==
    \/ o \in [ok : {FALSE}, msg : Panics]
    \/ /\ o.ok = TRUE
       /\ o.kind \in AllowedKinds
       /\ \A i \in DOMAIN o.tables : o.tables[i].name \in {FieldName(j) : j \in 1 .. MaxFields}

(* What an accepted struct passed: the generics, every field's verdict,    *)
(* the emptiness and the homogeneity checks; and the schema it yields.     *)
LEMMA Accepted ==
    ASSUME NEW s \in Structs, DeriveOutcome(s).ok = TRUE
    PROVE  /\ GenericsOk(s)
           /\ \A i \in 1 .. Len(s.fields) : FieldVerdict(s, i) = "ok"
           /\ Len(s.fields) > 0
           /\ \A i \in 1 .. Len(s.fields) :
                 KindOf(s.fields[i]).kind = KindOf(s.fields[1]).kind
           /\ DeriveOutcome(s) =
                [ok |-> TRUE, kind |-> KindOf(s.fields[1]).kind,
                 tables |-> [i \in 1 .. Len(s.fields) |->
                    LET a == KindOf(s.fields[i]).args IN
                    [name |-> FieldName(i), key |-> a[1], value |-> a[Len(a)],
                     opts |-> OptionsOf(s.fields[i]).fn]]]
<1> DEFINE n == Len(s.fields)
           k1 == KindOf(s.fields[1]).kind
           kinds == {KindOf(s.fields[i]).kind : i \in 1 .. n}
<1>1. GenericsOk(s)
  BY DEF DeriveOutcome, Panic
<1>2. \A i \in 1 .. n : FieldVerdict(s, i) = "ok"
  BY <1>1 DEF DeriveOutcome, Panic
<1>3. n > 0
  <2>1. n \in Nat
    BY FieldsSeq
  <2>2. QED
    BY <1>1, <1>2, <2>1 DEF DeriveOutcome, Panic
<1>4. kinds = {k1}
  BY <1>1, <1>2, <1>3 DEF DeriveOutcome, Panic
<1>5. \A i \in 1 .. n : KindOf(s.fields[i]).kind = k1
  BY <1>4
<1>6. QED
  BY <1>1, <1>2, <1>3, <1>4, <1>5 DEF DeriveOutcome

(* A panic's message is one of the panics the macro raises.                *)
LEMMA DeriveTyped ==
    ASSUME NEW s \in Structs
    PROVE  OutcomeTyped(DeriveOutcome(s))
<1> DEFINE n == Len(s.fields)
<1>1. n \in 0 .. MaxFields /\ s.fields \in [1 .. n -> FieldShapes]
  BY FieldsSeq
<1>2. CASE DeriveOutcome(s).ok = TRUE
  <2>1. FieldVerdict(s, 1) = "ok" /\ n > 0
    <3>1. \A i \in 1 .. n : FieldVerdict(s, i) = "ok"
      BY <1>2, Accepted
    <3>2. n > 0
      BY <1>2, Accepted
    <3>3. QED
      BY <1>1, <3>1, <3>2
  <2>2. KindOf(s.fields[1]).kind \in AllowedKinds
    BY <1>1, <2>1, GoodField DEF FieldVerdict
  <2> DEFINE tbl == [i \in 1 .. n |->
                      LET a == KindOf(s.fields[i]).args IN
                      [name |-> FieldName(i), key |-> a[1], value |-> a[Len(a)],
                       opts |-> OptionsOf(s.fields[i]).fn]]
  <2>3. DeriveOutcome(s) = [ok |-> TRUE, kind |-> KindOf(s.fields[1]).kind,
                            tables |-> tbl]
    BY <1>2, Accepted
  <2>4. \A i \in DOMAIN tbl : tbl[i].name \in {FieldName(j) : j \in 1 .. MaxFields}
    BY <1>1
  <2>5. /\ DeriveOutcome(s).ok = TRUE
        /\ DeriveOutcome(s).kind \in AllowedKinds
        /\ DeriveOutcome(s).tables = tbl
    BY <2>2, <2>3
  <2>6. QED
    BY <2>4, <2>5, Zenon DEF OutcomeTyped
<1>3. CASE DeriveOutcome(s).ok # TRUE
  <2>1. CASE ~GenericsOk(s)
    BY <2>1 DEF DeriveOutcome, Panic, Panics, OutcomeTyped
  <2>2. CASE GenericsOk(s) /\ \E i \in 1 .. n : FieldVerdict(s, i) # "ok"
    <3>1. FieldVerdict(s, FirstBad(s)) \in Panics
      BY <2>2, FirstBadIsBad, VerdictValues DEF Panics
    <3>2. QED
      BY <2>2, <3>1 DEF DeriveOutcome, Panic, OutcomeTyped
  <2>3. CASE GenericsOk(s) /\ \A i \in 1 .. n : FieldVerdict(s, i) = "ok"
    BY <1>3, <2>3 DEF DeriveOutcome, Panic, Panics, OutcomeTyped
  <2>4. QED
    BY <2>1, <2>2, <2>3
<1>4. QED
  BY <1>2, <1>3

(* The macro's schema for an accepted struct is spec section 4.1's: the    *)
(* struct is valid, its kind is the one its fields name, and every table   *)
(* is the declared field with its key, value and options function.        *)
LEMMA DeriveMatches ==
    ASSUME NEW s \in Structs, DeriveOutcome(s).ok = TRUE
    PROVE  /\ RefValid(s)
           /\ DeriveOutcome(s).kind = RefKind(s.fields[1])
           /\ DeriveOutcome(s).tables = [i \in DOMAIN s.fields |-> RefTable(s, i)]
<1> DEFINE n == Len(s.fields)
           k1 == KindOf(s.fields[1]).kind
           tbl == [i \in 1 .. n |->
                     LET a == KindOf(s.fields[i]).args IN
                     [name |-> FieldName(i), key |-> a[1], value |-> a[Len(a)],
                      opts |-> OptionsOf(s.fields[i]).fn]]
<1>0. DeriveOutcome(s) = [ok |-> TRUE, kind |-> k1, tables |-> tbl]
  BY Accepted
<1>1. n \in 0 .. MaxFields /\ s.fields \in [1 .. n -> FieldShapes]
  BY FieldsSeq
<1>2. /\ \A i \in 1 .. n : FieldVerdict(s, i) = "ok"
      /\ n > 0
      /\ \A i \in 1 .. n : KindOf(s.fields[i]).kind = k1
  BY Accepted
<1>3. ASSUME NEW i \in 1 .. n
      PROVE  /\ OptionsOf(s.fields[i]).ok /\ KindOf(s.fields[i]).ok
             /\ s.named
  BY <1>2 DEF FieldVerdict
<1>4. ASSUME NEW i \in 1 .. n
      PROVE  /\ RefKind(s.fields[i]) = k1 /\ k1 \in AllowedKinds
             /\ KindOf(s.fields[i]).args = s.fields[i].ty.segs[Len(s.fields[i].ty.segs)].args
             /\ Len(KindOf(s.fields[i]).args) = 2
  <2>1. s.fields[i] \in FieldShapes
    BY <1>1
  <2>2. QED
    BY <1>2, <1>3, <2>1, GoodField
<1>5. RefValid(s)
  BY <1>1, <1>2, <1>4 DEF RefValid
<1>6. DeriveOutcome(s).kind = RefKind(s.fields[1])
  <2>1. 1 \in 1 .. n
    BY <1>1, <1>2
  <2>2. QED
    BY <1>0, <1>4, <2>1
<1>7. ASSUME NEW i \in 1 .. n
      PROVE  LET a == KindOf(s.fields[i]).args IN
             [name |-> FieldName(i), key |-> a[1], value |-> a[Len(a)],
              opts |-> OptionsOf(s.fields[i]).fn] = RefTable(s, i)
  <2>1. OptionsOf(s.fields[i]).fn =
          LET mine == SelectSeq(s.fields[i].attrs, LAMBDA x : x.name = OptionsAttr)
          IN IF mine = <<>> THEN DefaultOptionsFn ELSE mine[1].value
    BY <1>3, GoodOptions
  <2>2. QED
    BY <1>4, <2>1 DEF RefTable
<1>8. DeriveOutcome(s).tables = [i \in DOMAIN s.fields |-> RefTable(s, i)]
  <2>1. DOMAIN s.fields = 1 .. n
    BY <1>1
  <2>2. \A i \in 1 .. n : tbl[i] = RefTable(s, i)
    BY <1>7
  <2>3. tbl = [i \in 1 .. n |-> RefTable(s, i)]
    BY <2>2
  <2>4. QED
    BY <1>0, <2>1, <2>3
<1>9. QED
  BY <1>5, <1>6, <1>8

-----------------------------------------------------------------------------
(* The invariant both theorems rest on: TypeOK and AcceptedSchemaMatchesSpec *)
(* together are inductive, since the one Derive step only sets outcome to *)
(* DeriveOutcome(input).                                                   *)
SchemaInv == TypeOK /\ AcceptedSchemaMatchesSpec

LEMMA InitSchemaInv == Init => SchemaInv
<1> SUFFICES ASSUME Init PROVE SchemaInv
  OBVIOUS
<1>1. outcome \in [ok : {FALSE}, msg : Panics]
  BY DEF Init, Panic, Panics
<1>2. TypeOK
  BY <1>1 DEF Init, TypeOK
<1>3. AcceptedSchemaMatchesSpec
  BY DEF Init, AcceptedSchemaMatchesSpec
<1>4. QED
  BY <1>2, <1>3 DEF SchemaInv

LEMMA NextSchemaInv == SchemaInv /\ [Next]_vars => SchemaInv'
<1> SUFFICES ASSUME SchemaInv, [Next]_vars PROVE SchemaInv'
  OBVIOUS
<1>1. CASE Derive
  <2>1. input \in Structs /\ input' = input /\ expanded' = TRUE
    BY <1>1 DEF Derive, SchemaInv, TypeOK
  <2>2. outcome' = DeriveOutcome(input)
    BY <1>1 DEF Derive
  <2>3. TypeOK'
    BY <2>1, <2>2, DeriveTyped DEF TypeOK, OutcomeTyped
  <2>4. AcceptedSchemaMatchesSpec'
    BY <2>1, <2>2, DeriveMatches DEF AcceptedSchemaMatchesSpec
  <2>5. QED
    BY <2>3, <2>4 DEF SchemaInv
<1>2. CASE UNCHANGED vars
  BY <1>2 DEF vars, SchemaInv, TypeOK, AcceptedSchemaMatchesSpec
<1>3. QED
  BY <1>1, <1>2 DEF Next

(* Whatever struct the derive is applied to, the expansion is a panic with *)
(* one of the macro's messages, or a schema of DBMap or Store tables named *)
(* after the struct's fields.                                              *)
THEOREM SchemaTypeCorrect == Spec => []TypeOK
  BY InitSchemaInv, NextSchemaInv, PTL DEF Spec, SchemaInv

(* For every set of field types rustc accepts, attribute lists and bounds, *)
(* a struct derive_dbmap_utils_general accepts is valid by spec section    *)
(* 4.1, and the tables it emits are exactly the declared fields with their *)
(* key, value and options function.                                        *)
THEOREM AcceptedSchemaCorrect == Spec => []AcceptedSchemaMatchesSpec
  BY InitSchemaInv, NextSchemaInv, PTL DEF Spec, SchemaInv
=============================================================================
