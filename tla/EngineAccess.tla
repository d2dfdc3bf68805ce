---------------------------- MODULE EngineAccess ----------------------------
(***************************************************************************)
(* What the generated open code, on top of RocksDB, promises its callers   *)
(* (spec sections 4.3 and 5), with no processes' threads, options or       *)
(* scratch directories: at most one writer owns the database at a time;   *)
(* only the owner appends to its history; any number of readers exist,    *)
(* each positioned at a version of the history, and a reader only ever    *)
(* moves to the latest version (catch-up), never back.                    *)
(***************************************************************************)
EXTENDS Naturals, Sequences

CONSTANTS
    Procs,     \* openers
    Versions,  \* the states the tables may be in
    Initial,   \* the state of a freshly created database
    NoOwner    \* nobody owns the database

VARIABLES
    alog,     \* the history of persisted states
    exists,   \* the database has been created
    owner,    \* the read-write opener, or NoOwner
    readers   \* readers[p]: the version p reads at, 0 when p has no reader

avars == <<alog, exists, owner, readers>>

AInit ==
    /\ alog = <<Initial>>
    /\ exists = FALSE
    /\ owner = NoOwner
    /\ readers = [p \in Procs |-> 0]

(* A read-write open, which creates the database if it does not exist.     *)
AcquireWrite(p) ==
    /\ owner = NoOwner /\ readers[p] = 0
    /\ owner' = p /\ exists' = TRUE
    /\ UNCHANGED <<alog, readers>>

ReleaseWrite(p) ==
    /\ owner = p
    /\ owner' = NoOwner
    /\ UNCHANGED <<alog, exists, readers>>

AppendState(p) ==
    /\ owner = p
    /\ \E s \in Versions : alog' = Append(alog, s)
    /\ UNCHANGED <<exists, owner, readers>>

(* A read-only open of an existing database starts at its latest state.    *)
OpenReader(p) ==
    /\ exists /\ readers[p] = 0 /\ owner # p
    /\ readers' = [readers EXCEPT ![p] = Len(alog)]
    /\ UNCHANGED <<alog, exists, owner>>

CatchUp(p) ==
    /\ readers[p] # 0
    /\ readers' = [readers EXCEPT ![p] = Len(alog)]
    /\ UNCHANGED <<alog, exists, owner>>

CloseReader(p) ==
    /\ readers[p] # 0
    /\ readers' = [readers EXCEPT ![p] = 0]
    /\ UNCHANGED <<alog, exists, owner>>

ANext ==
    \E p \in Procs :
        \/ AcquireWrite(p) \/ ReleaseWrite(p) \/ AppendState(p)
        \/ OpenReader(p) \/ CatchUp(p) \/ CloseReader(p)

ASpec == AInit /\ [][ANext]_avars
=============================================================================
