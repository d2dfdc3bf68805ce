----------------------------- MODULE TypedStore -----------------------------
(***************************************************************************)
(* The runtime protocol of the code DBMapUtils generates: several openers  *)
(* (processes) open one on-disk RocksDB instance holding one column family *)
(* per table, either read-write (open_tables_read_write) or as a read-only *)
(* secondary (get_read_only_handle / open_tables_read_only); threads of a  *)
(* secondary call dump and count_keys concurrently, each call catching up  *)
(* with the primary first.                                                 *)
(*                                                                         *)
(* The disk is a log of table contents: every write by the primary appends *)
(* a new version, and a secondary's view is the index of the version it   *)
(* last caught up to.  Keys are naturals; their order is the iteration     *)
(* order of the column family.                                             *)
(***************************************************************************)
EXTENDS TableOptions, Integers, Sequences

CONSTANTS
    Procs,          \* openers of the database
    Threads,        \* threads of one opener sharing its handle
    Keys,           \* keys a table may hold
    ScratchDirs,    \* names tempfile::tempdir() may return
    UnknownName,    \* a table name that is not a field of the struct
    PageSizes,      \* page_size arguments of dump (a u16)
    PageNumbers,    \* page_number arguments of dump (a usize)
    U16Bits,        \* width of u16 in the model
    UsizeBits,      \* width of usize in the model
    OverflowChecks, \* TRUE: a debug build, arithmetic overflow panics
    MaxWrites,      \* bound on the primary's writes
    NoProc, NoDir   \* "nobody holds the lock", "no scratch directory"

ASSUME KeysAssumption == Keys \subseteq Nat /\ IsFiniteSet(Keys)
ASSUME NameAssumption == UnknownName \notin Tables
(* The number of values of a u16 and of a usize in the model.             *)
U16Mod == 2^U16Bits
UsizeMod == 2^UsizeBits

ASSUME WidthAssumption ==
    /\ U16Bits \in Nat \ {0} /\ UsizeBits \in Nat /\ U16Bits <= UsizeBits
    /\ U16Mod \in Nat \ {0} /\ UsizeMod \in Nat \ {0}
    /\ PageSizes \subseteq 0 .. (U16Mod - 1)
    /\ PageNumbers \subseteq 0 .. (UsizeMod - 1)
ASSUME BoundAssumption ==
    /\ MaxWrites \in Nat /\ OverflowChecks \in BOOLEAN
    /\ NoProc \notin Procs /\ NoDir \notin ScratchDirs

VARIABLES
    log,      \* log[i]: the contents of every table after the i-1'th write
    created,  \* the database and its column families exist on disk
    lock,     \* the opener holding RocksDB's LOCK file, or NoProc
    role,     \* role[p]: the handle p holds: "none", "primary", "secondary"
    view,     \* view[p]: the version p's secondary handle has caught up to
    scratch,  \* scratch directories created on disk
    dirOf,    \* dirOf[p]: the scratch directory p's secondary handle uses
    openErr,  \* the panic the open taken in this step raised, or "none"
    call,     \* call[p][w]: the dump or count_keys thread w is inside
    returned  \* what the dump or count_keys returning in this step returned

vars == <<log, created, lock, role, view, scratch, dirOf, openErr, call, returned>>

Contents == [Tables -> SUBSET Keys]
Empty == [t \in Tables |-> {}]
Current == log[Len(log)]

Calls == [pc : {"iter"}, kind : {"dump", "count"}, table : Tables,
          ps : PageSizes \cup {0}, pn : PageNumbers \cup {0}, start : Nat]
NoCall == [pc |-> "idle"]

Returns == [outcome : {"ok", "notfound", "error", "panic"},
            kind : {"dump", "count"}, table : Tables \cup {UnknownName},
            ps : PageSizes \cup {0}, pn : PageNumbers \cup {0},
            start : Nat, page : SUBSET Keys, count : Nat]
NoReturn == [outcome |-> "none"]

-----------------------------------------------------------------------------
(* Iteration order: the rank of k among the keys of S.                     *)
Rank(k, S) == Cardinality({j \in S : j <= k})

(* iter().skip(skip).take(take), collected: the keys of ranks              *)
(* skip+1 .. skip+take.                                                    *)
SkipTake(S, skip, take) == {k \in S : skip < Rank(k, S) /\ Rank(k, S) <= skip + take}

(* page_number * (page_size as usize) in a usize.                          *)
SkipOverflows(pn, ps) == pn * ps >= UsizeMod
WrappedSkip(pn, ps) == (pn * ps) % UsizeMod

-----------------------------------------------------------------------------
Init ==
    /\ log = <<Empty>>
    /\ created = FALSE
    /\ lock = NoProc
    /\ role = [p \in Procs |-> "none"]
    /\ view = [p \in Procs |-> 0]
    /\ scratch = {}
    /\ dirOf = [p \in Procs |-> NoDir]
    /\ openErr = "none"
    /\ call = [p \in Procs |-> [w \in Threads |-> NoCall]]
    /\ returned = NoReturn

(* Faulty variant of OpenReadWrite, kept to confirm the properties catch   *)
(* it: an open that does not take RocksDB's lock (as with a database       *)
(* opened without its LOCK file honoured).                                 *)
OpenReadWriteIgnoresLock(p, o) ==
    /\ role[p] = "none"
    /\ \/ /\ ~CoversAllTables(o)
          /\ openErr' = "MissingTableOverride"
          /\ UNCHANGED <<lock, role, created>>
       \/ /\ CoversAllTables(o)
          /\ lock' = p
          /\ role' = [role EXCEPT ![p] = "primary"]
          /\ created' = TRUE
          /\ openErr' = "none"
    /\ returned' = NoReturn
    /\ UNCHANGED <<log, view, scratch, dirOf, call>>

(* open_tables_read_write -> open_tables_impl(path, None, _, o): resolve   *)
(* the options (panic on a map missing a table), open_cf_opts (panic      *)
(* "Cannot open DB." when another opener holds the lock), which creates   *)
(* the database and any missing column family, then reopen every CF.      *)
OpenReadWrite(p, o) ==
    /\ role[p] = "none"
    /\ \/ /\ ~CoversAllTables(o)
          /\ openErr' = "MissingTableOverride"
          /\ UNCHANGED <<lock, role, created>>
       \/ /\ CoversAllTables(o)
          /\ lock # NoProc
          /\ openErr' = "CannotOpenDB"
          /\ UNCHANGED <<lock, role, created>>
       \/ /\ CoversAllTables(o)
          /\ lock = NoProc
          /\ lock' = p
          /\ role' = [role EXCEPT ![p] = "primary"]
          /\ created' = TRUE
          /\ openErr' = "none"
    /\ returned' = NoReturn
    /\ UNCHANGED <<log, view, scratch, dirOf, call>>

(* get_read_only_handle -> open_tables_read_only: with no secondary path a *)
(* fresh tempdir is created and kept (into_path); open_tables_impl(path,   *)
(* Some(dir), _, None) then opens a secondary, which fails with "Cannot    *)
(* open DB." while the database or its column families do not exist, and  *)
(* otherwise starts from the primary's current state.                     *)
OpenReadOnly(p, withPath) ==
    /\ role[p] = "none"
    /\ \E d \in IF withPath THEN {NoDir} ELSE ScratchDirs \ scratch :
        /\ scratch' = IF withPath THEN scratch ELSE scratch \cup {d}
        /\ \/ /\ ~created
              /\ openErr' = "CannotOpenDB"
              /\ UNCHANGED <<role, view, dirOf>>
           \/ /\ created
              /\ role' = [role EXCEPT ![p] = "secondary"]
              /\ view' = [view EXCEPT ![p] = Len(log)]
              /\ dirOf' = [dirOf EXCEPT ![p] = d]
              /\ openErr' = "none"
    /\ returned' = NoReturn
    /\ UNCHANGED <<log, created, lock, call>>

(* DBMap::insert / DBMap::remove on a primary handle's table.              *)
Write(p, t, k, insert) ==
    /\ role[p] = "primary"
    /\ Len(log) <= MaxWrites
    /\ log' = Append(log, [Current EXCEPT ![t] =
                              IF insert THEN @ \cup {k} ELSE @ \ {k}])
    /\ openErr' = "none" /\ returned' = NoReturn
    /\ UNCHANGED <<created, lock, role, view, scratch, dirOf, call>>

(* Faulty variants of BeginCall, kept to confirm the properties catch them: *)
(* a dump that skips try_catch_up_with_primary, and a dispatch that lets   *)
(* an unknown name through to the engine.                                  *)
BeginCallNoCatchUp(p, w, kind, name, ps, pn) ==
    /\ role[p] = "secondary"
    /\ call[p][w] = NoCall
    /\ name \in Tables
    /\ call' = [call EXCEPT ![p][w] =
                  [pc |-> "iter", kind |-> kind, table |-> name,
                   ps |-> ps, pn |-> pn, start |-> Len(log)]]
    /\ returned' = NoReturn /\ openErr' = "none"
    /\ UNCHANGED <<log, created, lock, role, view, scratch, dirOf>>

BeginCallNoNameCheck(p, w, kind, name, ps, pn) ==
    /\ role[p] = "secondary"
    /\ call[p][w] = NoCall
    /\ view' = [view EXCEPT ![p] = Len(log)]
    /\ call' = [call EXCEPT ![p][w] =
                  [pc |-> "iter", kind |-> kind, table |-> name,
                   ps |-> ps, pn |-> pn, start |-> Len(log)]]
    /\ returned' = NoReturn /\ openErr' = "none"
    /\ UNCHANGED <<log, created, lock, role, scratch, dirOf>>

(* Entering dump or count_keys: match the table name (an unknown one       *)
(* bails before any engine call), then try_catch_up_with_primary, whose    *)
(* error is returned by `?`.                                               *)
BeginCall(p, w, kind, name, ps, pn) ==
    /\ role[p] = "secondary"
    /\ call[p][w] = NoCall
    /\ LET failed(o) == [outcome |-> o, kind |-> kind,
                          table |-> name, ps |-> 0, pn |-> 0, start |-> 0,
                          page |-> {}, count |-> 0]
       IN \/ /\ name \notin Tables
             /\ returned' = failed("notfound")
             /\ UNCHANGED <<view, call>>
          \/ /\ name \in Tables
             /\ returned' = failed("error")
             /\ UNCHANGED <<view, call>>
          \/ /\ name \in Tables
             /\ view' = [view EXCEPT ![p] = Len(log)]
             /\ call' = [call EXCEPT ![p][w] =
                           [pc |-> "iter", kind |-> kind, table |-> name,
                            ps |-> ps, pn |-> pn, start |-> Len(log)]]
             /\ returned' = NoReturn
    /\ openErr' = "none"
    /\ UNCHANGED <<log, created, lock, role, scratch, dirOf>>

(* The rest of the call: iterate the table in the handle's view, which     *)
(* another thread's catch-up may have moved on since this one's.  dump     *)
(* skips page_number * page_size entries (a panic on overflow in a debug   *)
(* build, a wrap-around otherwise) and takes page_size; count_keys counts  *)
(* every entry.                                                            *)
FinishCall(p, w) ==
    /\ call[p][w].pc = "iter"
    /\ LET c == call[p][w]
           S == log[view[p]][c.table]
           done(o, pg, n) == [outcome |-> o, kind |-> c.kind,
                              table |-> c.table, ps |-> c.ps, pn |-> c.pn,
                              start |-> c.start, page |-> pg, count |-> n]
       IN returned' =
            IF c.kind = "count" THEN done("ok", {}, Cardinality(S))
            ELSE IF OverflowChecks /\ SkipOverflows(c.pn, c.ps)
                 THEN done("panic", {}, 0)
                 ELSE done("ok", SkipTake(S, WrappedSkip(c.pn, c.ps), c.ps), 0)
    /\ call' = [call EXCEPT ![p][w] = NoCall]
    /\ openErr' = "none"
    /\ UNCHANGED <<log, created, lock, role, view, scratch, dirOf>>

(* Faulty variant of Close: a drop after which the lock is still held, as  *)
(* when a clone of one of the DBMaps (each holds an Arc of the DB) outlives *)
(* the struct.                                                             *)
CloseKeepsLock(p) ==
    /\ role[p] # "none"
    /\ \A w \in Threads : call[p][w] = NoCall
    /\ role' = [role EXCEPT ![p] = "none"]
    /\ view' = [view EXCEPT ![p] = 0]
    /\ dirOf' = [dirOf EXCEPT ![p] = NoDir]
    /\ openErr' = "none" /\ returned' = NoReturn
    /\ UNCHANGED <<log, created, lock, scratch, call>>

(* Dropping a handle: no call may still borrow it.  The primary's drop     *)
(* releases the lock; a secondary's leaves its scratch directory on disk.  *)
Close(p) ==
    /\ role[p] # "none"
    /\ \A w \in Threads : call[p][w] = NoCall
    /\ role' = [role EXCEPT ![p] = "none"]
    /\ lock' = IF lock = p THEN NoProc ELSE lock
    /\ view' = [view EXCEPT ![p] = 0]
    /\ dirOf' = [dirOf EXCEPT ![p] = NoDir]
    /\ openErr' = "none" /\ returned' = NoReturn
    /\ UNCHANGED <<log, created, scratch, call>>

(* The opener's process dies: the OS releases its lock, its threads are    *)
(* gone, every write already made stays in the WAL.                        *)
Crash(p) ==
    /\ role[p] # "none"
    /\ role' = [role EXCEPT ![p] = "none"]
    /\ lock' = IF lock = p THEN NoProc ELSE lock
    /\ view' = [view EXCEPT ![p] = 0]
    /\ dirOf' = [dirOf EXCEPT ![p] = NoDir]
    /\ call' = [call EXCEPT ![p] = [w \in Threads |-> NoCall]]
    /\ openErr' = "none" /\ returned' = NoReturn
    /\ UNCHANGED <<log, created, scratch>>

Next ==
    \/ \E p \in Procs :
        \/ \E o \in OverrideInputs : OpenReadWrite(p, o)
        \/ \E b \in BOOLEAN : OpenReadOnly(p, b)
        \/ \E t \in Tables, k \in Keys, b \in BOOLEAN : Write(p, t, k, b)
        \/ \E w \in Threads :
            \/ \E n \in Tables \cup {UnknownName} : BeginCall(p, w, "count", n, 0, 0)
            \/ \E n \in Tables, ps \in PageSizes, pn \in PageNumbers :
                  BeginCall(p, w, "dump", n, ps, pn)
            \/ BeginCall(p, w, "dump", UnknownName, 0, 0)
        \/ \E w \in Threads : FinishCall(p, w)
        \/ Close(p)
        \/ Crash(p)

Spec == Init /\ [][Next]_vars

-----------------------------------------------------------------------------
TypeOK ==
    /\ log \in Seq(Contents) /\ Len(log) >= 1
    /\ created \in BOOLEAN
    /\ lock \in Procs \cup {NoProc}
    /\ role \in [Procs -> {"none", "primary", "secondary"}]
    /\ view \in [Procs -> Nat]
    /\ scratch \subseteq ScratchDirs
    /\ dirOf \in [Procs -> ScratchDirs \cup {NoDir}]
    /\ openErr \in {"none", "MissingTableOverride", "CannotOpenDB"}
    /\ call \in [Procs -> [Threads -> Calls \cup {NoCall}]]
    /\ returned \in Returns \cup {NoReturn}

(* RocksDB's LOCK file makes the read-write open exclusive: the lock is    *)
(* held exactly by the one opener whose handle is a primary, across        *)
(* failed opens, closes and crashes of any opener.                         *)
LockHeldByPrimary ==
    \A p \in Procs : role[p] = "primary" <=> lock = p

(* What dump and count_keys promise: a returned page is entries            *)
(* [N*P, N*P+P) of the table, and a returned count its number of entries,  *)
(* in a state of the table that existed between the call's start and its  *)
(* return; with catch-up before every read, no call sees a state older     *)
(* than the one at its start, whatever the other threads and the primary   *)
(* do meanwhile.                                                           *)
ReturnsStateDuringCall ==
    LET r == returned IN
        r.outcome = "ok" =>
            \E v \in r.start .. Len(log) :
                IF r.kind = "count"
                THEN r.count = Cardinality(log[v][r.table])
                ELSE r.page = SkipTake(log[v][r.table], r.pn * r.ps, r.ps)

(* The scratch directory get_read_only_handle creates lives as long as     *)
(* the handle that uses it.                                                *)
ScratchDirsReleased ==
    \A d \in scratch : \E p \in Procs : dirOf[p] = d

-----------------------------------------------------------------------------
(* The refinement mapping: the history is the log; the owner is the lock's *)
(* holder; a process reads at its secondary handle's view.                 *)
readersBar == [p \in Procs |-> IF role[p] = "secondary" THEN view[p] ELSE 0]

EA == INSTANCE EngineAccess
        WITH alog <- log, exists <- created, owner <- lock,
             readers <- readersBar, Versions <- Contents, Initial <- Empty,
             NoOwner <- NoProc

(* The generated opens, the primary's writes, the dump/count_keys catch-ups *)
(* and every drop and crash together implement EngineAccess: one writer,  *)
(* an append-only history written by it alone, readers that start at and  *)
(* only move forward to its latest state.                                  *)
ImplementsEngineAccess == EA!ASpec
=============================================================================
