---------------------------- MODULE TableOptions ----------------------------
(***************************************************************************)
(* Per-table rocksdb::Options as the code generated by DBMapUtils resolves *)
(* them (typed-store-derive/src/lib.rs).  An Options value is abstracted   *)
(* to a member of the small set OptValues: the model only tells apart      *)
(* which function or which caller produced the options of a table.         *)
(***************************************************************************)
EXTENDS FiniteSets

CONSTANTS
    Tables,        \* the struct's field names: one column family each
    OptValues,     \* the rocksdb::Options values the model tells apart
    NoOverride     \* tables_db_options_override = None

ASSUME TablesAssumption == Tables # {} /\ IsFiniteSet(Tables)

(* A DBMapTableConfigMap built by a caller: any table names to options.    *)
(* One built by the configurator names every table; one built by hand may  *)
(* name only some.                                                         *)
ConfigMaps == UNION {[D -> OptValues] : D \in SUBSET Tables}

(* The values tables_db_options_override can take.                         *)
OverrideInputs == {NoOverride} \cup ConfigMaps

(* open_tables_impl builds opt_cfs: with None every table gets what its    *)
(* override function returns; with Some(o) every table's entry is looked   *)
(* up in o and unwrapped, so a map missing a table panics before the       *)
(* engine is touched.                                                      *)
CoversAllTables(o) ==
    IF o = NoOverride THEN TRUE ELSE Tables \subseteq DOMAIN o
=============================================================================
