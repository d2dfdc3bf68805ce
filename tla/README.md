# Verification of `typed-store-derive`

This directory holds TLA+ models of `src/crates/typed-store-derive/src/lib.rs`, the
`#[derive(DBMapUtils)]` procedural macro. It also holds TLC configurations that
model-check the models on small instances, and TLAPS proofs of the main safety
properties for every value of the constants.

## 1. The system

The macro is applied to a struct whose fields are all `DBMap<K, V>` or all
`Store<K, V>`. It does two things:

* **At compile time** (`derive_dbmap_utils_general`, `extract_struct_info`,
  `get_options_override_function`, `extract_generics_names`) it validates the
  struct and extracts a schema: per field, a name, a key and a value type, and an
  options function.
  * Valid fields carry at most one `#[default_options_override_fn = "f"]`.
  * Invalid structs fail compilation with a panic.
* **It generates code** that runs at run time:
  * `<S>Configurator` with `init` and `build`, and `S::configurator()`;
  * `open_tables_impl`, which resolves each table's options, opens RocksDB as a
    primary or a secondary, and reopens every column family;
  * `open_tables_read_write`, `get_read_only_handle` and `open_tables_read_only`;
  * `dump` and `count_keys` on the read-only struct, which catch up with the
    primary and then iterate a table chosen by name;
  * `describe_tables`, `get_memory_usage` and the `TypedStoreDebug` impl.

How the parts interact:

* The schema feeds every generated function.
* The configurator's built map is one of the override maps `open_tables_read_write`
  takes.
* Several processes open one on-disk database:
  * one primary, enforced by RocksDB's LOCK file;
  * any number of secondaries, each with its own scratch or given directory.
* The threads of a secondary handle share it, and each `dump`/`count_keys` call
  moves the shared view forward before it reads.

### Inventory

| Part | State | Operations | Hard behaviours |
|---|---|---|---|
| Schema extraction | the struct; the panic or schema | one expansion | first-segment type check, first attribute wins, homogeneity, generics |
| Options resolution | per-table options | `opt_cfs` in `open_tables_impl` | a partial override map panics (`unwrap`, line 409) |
| Configurator | one `Options` per field | field assignment, `build` | none beyond what rustc checks (not modelled) |
| Open protocol | the DB on disk, lock, roles, scratch directories | read-write open, read-only open, drop, crash | lock contention, secondary before the DB exists, scratch directory leak |
| Introspection | each thread's call, the handle's view | `dump`, `count_keys` | catch-up racing other threads and primary writes, `usize` overflow in the skip |

## 2. Modules

| Module | Models | Code |
|---|---|---|
| `TableOptions` | override maps and the `opt_cfs` missing-table check | lines 396-412 |
| `TypedStore` | the open protocol and introspection, several processes and threads | lines 393-463, 479-559 |
| `SchemaDerive` | the compile-time checks and the extracted schema, against spec section 4.1 | lines 15-151, 274-331 |
| `EngineAccess` | the abstract promise of the opens (spec sections 4.3 and 5) | |
| `MC_*` | TLC instances of the above | |
| `TypedStore_proofs` | TLAPS proofs of `TypedStore`'s invariants | |
| `TypedStore_refinement` | TLAPS proof that `TypedStore` implements `EngineAccess` | |
| `SchemaDerive_proofs` | TLAPS proofs of `SchemaDerive`'s invariants | |

### `TypedStore`: state and actions

**State**

* The disk is `log`, the sequence of all table contents the primary has
  persisted. `Current` is the last one.
* `created` records that the database and its column families exist.
* `lock` is the holder of RocksDB's lock.
* `role[p]` is the kind of handle process `p` holds.
* `view[p]` is the version a secondary last caught up to.
* `scratch` and `dirOf` are the scratch directories on disk and the one each
  handle uses.
* `call[p][w]` is the `dump`/`count_keys` call thread `w` of `p` is inside.
  Each call is split at its only point of interference: between the catch-up
  and the iteration.
* `openErr` and `returned` are events: the panic of this step's open, and the
  result of this step's call. Every other action resets them.

**Actions**

* `OpenReadWrite(p, o)`: the whole of `open_tables_read_write` → `open_tables_impl`.
  It has three outcomes:
  * the override map misses a table, so the `unwrap` panics;
  * `open_cf_opts` meets the lock, giving "Cannot open DB.";
  * it succeeds, creating the DB and the column families.
* `OpenReadOnly(p, withPath)`: `get_read_only_handle` → `open_tables_read_only`.
  Without a path it always allocates a scratch directory first. The open then
  fails while the DB does not exist, and otherwise starts at the primary's
  current state.
* `BeginCall(p, w, kind, name, ps, pn)`: the name dispatch (an unknown name bails
  with `NotFound`), then `try_catch_up_with_primary` (an error, or success,
  which moves `view[p]`).
* `FinishCall(p, w)`: the iteration on the handle's *current* view, which
  another thread may have moved.
  * `count` counts.
  * `dump` computes `page_number * page_size`. This panics when
    `OverflowChecks` is set (a debug build). Otherwise the product is taken
    modulo 2^`UsizeBits` (a release build).
  * `dump` then skips and takes.
* `Write(p, ...)`: a primary's `DBMap` insert or remove. `Close(p)`: drop of the
  handle. `Crash(p)`: the process dies and the OS frees the lock. These three are
  modelled from the spec, because that code is in the `typed_store` crate,
  outside `src/`.

### `EngineAccess` and the refinement mapping

`EngineAccess` says what the generated opens promise, with no threads, options
or scratch directories:

* a history `alog` of persisted states, whether the database `exists`, its
  `owner` and, per opener, the version `readers[p]` it reads at (0 for none);
* `AcquireWrite` needs no owner, and `ReleaseWrite` frees it;
* only the owner appends (`AppendState`);
* a reader opens an existing database at its latest version (`OpenReader`).
  It only moves to the latest version (`CatchUp`) and then closes (`CloseReader`).

`TypedStore` defines `EA == INSTANCE EngineAccess` with `log`, `created` and
`lock` as the history, existence and owner. `readersBar` maps a secondary to
its `view` and every other opener to 0.

* A failed open, a failed or unknown-name call, and every `FinishCall` map to
  stutters.
* A successful catch-up maps to `CatchUp`.
* A drop or a crash maps to `ReleaseWrite` for the primary and to
  `CloseReader` for a secondary.

### `SchemaDerive`

* Input: a struct, abstracted to its generic parameter kinds, whether its
  fields are named, and per field:
  * a type, which is either a path of segments (identifier, `<...>` or not, and
    type arguments) or some other type;
  * a list of attributes.
* `DeriveOutcome` follows the code's order:
  1. `extract_generics_names` panics on a lifetime or const parameter.
  2. The per-field closure is applied in field order: the options attribute
     (the first matching one, then `unwrap`), the type path's **first** segment,
     then `f.ident.unwrap()`.
  3. The homogeneity check and the emptiness check.
  4. Key and value are taken as the first and last type argument.
* The reference definitions `RefValid` and `RefTable` state spec section 4.1.

## 3. Runs

| Run | Checks | Result |
|---|---|---|
| `typedstore` | `TypeOK`, `LockHeldByPrimary`, `ReturnsStateDuringCall` | pass, 319,209 distinct states, about 1.5 min |
| `typedstore_release_overflow` | `ReturnsStateDuringCall`, release build | violation: `dump(t, 2, 4)` skips (4·2) mod 8 = 0 and returns the first page |
| `typedstore_scratch_leak` | `ScratchDirsReleased` | violation: the directory outlives the handle, and a failed open |
| `schema` | `TypeOK`, `AcceptedSchemaMatchesSpec` | pass, 11,172 states |
| `schema_qualified_path` | `SpecValidSchemaAccepted` | violation: `rocks::DBMap<K, V>` is rejected |
| `typedstore_refinement` | `ImplementsEngineAccess` | pass, 33,644 distinct states, one thread per opener |

### What the properties mean

* **`LockHeldByPrimary`**: the lock is held by exactly the opener with a
  primary handle.
* **`ReturnsStateDuringCall`**: a returned page is entries `[N·P, N·P+P)`, and a
  returned count is the size, of some state of the table between the call's
  catch-up and its return. The model lets other threads' catch-ups and the
  primary's writes fall between the two halves of every call, so this is the
  spec's "monotonically newer snapshot" guarantee of section 5.
* **`ImplementsEngineAccess`**: `EA!ASpec`, the abstract specification under
  the mapping. It fails if any sequence of opens, drops, crashes and catch-ups
  gives a second writer, a write by a non-owner, a reader opened before the
  database exists, or a reader moved to anything but the latest state.
* **`AcceptedSchemaMatchesSpec`**: what compiles is a valid schema whose
  tables are exactly the declared fields, with their key, value and options
  function.
Each property of a passing run has a mutant in `PROJECT.json`, and TLC finds
every mutant:

| Mutant | Change | Breaks |
|---|---|---|
| `BeginCallNoCatchUp` | no catch-up | `ReturnsStateDuringCall` |
| `BeginCallNoNameCheck` | no name dispatch | `TypeOK` |
| `CloseKeepsLock` | lock kept after drop | `LockHeldByPrimary` |
| `KindOfAnyName` | any segment name accepted | `TypeOK` |
| `DeriveOutcomeMixedKinds` | no homogeneity check | `AcceptedSchemaMatchesSpec` |
| `OpenReadWriteIgnoresLock` | read-write open that does not check the lock | `ImplementsEngineAccess` |

### Bounds, and why they are enough

**`MC_TypedStore`**

* 2 processes × 2 threads, 2 tables, keys {1, 2}, and 2 scratch directories.
* One primary write (`MaxWrites`).
* At most 2 calls in flight (`InFlightBound`).
* Symmetry on processes, threads and scratch directories. This is sound: none
  of them is named by a property or an action.
* Page sizes {1, 2} and page numbers {1, 4} with a 2-bit `u16` and a 3-bit
  `usize`: 4·2 = 8 wraps, 1·2 does not.

These bounds cover a second open against the lock, a secondary opened before
and after the primary, a crash holding the lock, two threads interleaving with
each other and with a write, and the overflow edge.

`MC_TypedStore_refine.cfg` uses the same constants with one thread per opener.
Threads do not appear in the mapping, and with two threads the property took
nearly three minutes.

**`MC_SchemaDerive`**

* Every struct of at most 2 fields over 6 type shapes, 5 attribute lists and
  3 generic lists.
* Two fields are the least that exercise homogeneity and first-bad-field order.

### Fairness

No liveness property is checked, and no fairness is assumed.

* Every operation is a caller's synchronous call, and the code runs nothing in
  the background whose progress it promises.
* The only progress the code could be said to guarantee is that a `dump` or
  `count_keys` that has caught up finishes its iteration. That iteration waits
  on no lock and no other thread. A weak-fairness assumption on it would
  already say that the call returns, so a "calls return" property would only
  restate its own assumption.

## 4. What is proved (TLAPS)

The proofs hold for all finite table sets, all key sets of naturals, and any
numbers of processes and threads. Page sizes and numbers lie within their
widths, and `2^w` is taken as a positive natural (`WidthAssumption`).

* **`TypeCorrect`**: `Spec => []TypeOK`.
  * `TypeOK` alone is not inductive: `FinishCall` reads `log[view[p]]`, which
    is only defined because a thread is inside a call only on a secondary
    (`CallsOfSecondaries`) and a secondary's view is a version the log holds
    (`ViewInLog`).
  * `TypeInv` is the conjunction of the three. There is one lemma per action
    and a step lemma `NextTypeInv`.
* **`LockExclusive`**: `Spec => []LockHeldByPrimary`.
  * Inductive with `TypeInv`.
  * A successful read-write open finds the lock free, hence no primary.
  * A drop or a crash frees the lock only if its process held it (`ReleaseLock`).
* **`ReturnsCorrect`**: with `OverflowChecks`, `Spec => []ReturnsStateDuringCall`.
  * The strengthening adds `CallStartInView`: every call in flight started no
    later than its handle's current view.
  * It holds because a catch-up only moves a view to the log's length, which
    never shrinks. Drops and crashes happen only with no calls in flight, or
    end them.
  * `FinishCall` then returns a result on `log[view[p]]` with
    `view[p] \in start..Len(log)`.
  * `SkipExact` shows that an unwrapped skip equals the product.

* **`Refinement`** (`TypedStore_refinement`): `Spec => ImplementsEngineAccess`.
  * `Init` maps to `AInit`.
  * Under `TypeInv /\ LockHeldByPrimary`, every step maps to an `EngineAccess`
    step or a stutter, with one lemma per action.
  * `LockHeldByPrimary` gives the lock checks, because a successful read-only
    open is by a process with no handle, so it is not the owner. A dropped
    primary held the lock, and a dropped secondary did not.
  * `ViewInLog` gives `readers[p] # 0` for a secondary's catch-up and close.
* **`SchemaTypeCorrect`**, **`AcceptedSchemaCorrect`** (`SchemaDerive_proofs`):
  `Spec => []TypeOK` and `Spec => []AcceptedSchemaMatchesSpec`, for every set
  of field types, attribute lists, generic lists and field bound.
  * The expansion is one step, so `TypeOK /\ AcceptedSchemaMatchesSpec`
    (`SchemaInv`) is inductive as it stands. Both facts reduce to lemmas about
    `DeriveOutcome(s)` for an arbitrary struct `s`.
  * `DeriveTyped`: a rejected struct panics with one of the macro's messages.
    For a bad field, this needs the `CHOOSE` of `FirstBad` to pick a bad field.
    `LeastNat` gives that: every non-empty set of naturals has a least
    element, by `WFMin` on `NatLessThanWellFounded` from
    `WellFoundedInduction`. No induction over data is needed.
  * `Accepted` recovers, from `ok = TRUE`, every check the struct passed.
  * `GoodField` shows that an accepted field's first segment is its only
    segment, and it carries two arguments. So the macro's kind (first
    segment) is the spec's (last segment), and its value (last argument) is
    the spec's (second argument).
  * `GoodOptions` shows that the options function is the first matching
    attribute's value, as in `RefTable`. Both read the same `SelectSeq`, so
    nothing about `SelectSeq` itself has to be proved.
  * The proof rests on `ShapesAssumption`, which `SchemaDerive` states and TLC
    checks on every `MC_SchemaDerive` run:
    * a path type has at least one segment;
    * a path whose first segment is `DBMap<...>` or `Store<...>` is that one
      segment with two type arguments.

    The macro checks neither. Without the assumption the theorem is false:
    `DBMap<K, V>::X` would be accepted with the spec's kind `X`, and
    `DBMap<K, V, W>` with value `W`. rustc rejects both types, because
    typed_store's `DBMap` and `Store` take exactly two type parameters and have
    no associated types. So the assumption excludes only structs that do not
    compile anyway.

Only TLC checks:

* the violation runs.

## 5. Not modelled

* The configurator (`<S>Configurator`, `init`, `build`, `configurator()`,
  lines 337-373) is a struct of public `Options` fields:
  * `init` sets each field to `default_rocksdb_options()`, as spec 4.2 says;
  * `build` emits one entry per field.

  rustc requires a struct literal to set every field, so a built map always
  names every table. No property of it could fail without the code failing to
  compile. Its map reaches the open as one of the total maps in
  `OverrideInputs`. Hand-built partial maps are in `OverrideInputs` too, and
  they make `OpenReadWrite` take its `MissingTableOverride` panic, as spec 4.2
  requires.

* `describe_tables`, `primary_db_name` and `get_memory_usage` do not change
  state. The schema that `describe_tables` prints is checked through
  `AcceptedSchemaMatchesSpec`.
* The code generation itself (`quote!`, the names of the generated structs,
  `post_process_fn` parsing) is a pure conversion.
* The global `rocksdb::Options` argument is passed through unchanged.
* Reopening a missing column family (line 428) cannot happen in the model:
  opening as primary creates all of them.
