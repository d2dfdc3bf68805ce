-------------------------- MODULE TypedStore_proofs --------------------------
(***************************************************************************)
(* Proofs about TypedStore, for every value of its constants: the type     *)
(* invariant and the exclusivity of the read-write open.                   *)
(***************************************************************************)
EXTENDS TypedStore, FiniteSetTheorems, TLAPS

USE TablesAssumption, KeysAssumption, NameAssumption, WidthAssumption,
    BoundAssumption

(* Only a secondary handle has threads inside dump or count_keys.          *)
CallsOfSecondaries ==
    \A p \in Procs, w \in Threads : call[p][w] # NoCall => role[p] = "secondary"

(* A secondary's view is a version the log holds.                          *)
ViewInLog ==
    \A p \in Procs : role[p] = "secondary" => view[p] \in 1 .. Len(log)

(* The inductive strengthening of TypeOK.                                  *)
TypeInv == TypeOK /\ CallsOfSecondaries /\ ViewInLog

-----------------------------------------------------------------------------
(* Every page a dump can return is a set of keys, and every count a count  *)
(* of one.                                                                 *)
LEMMA PageAndCount ==
    ASSUME NEW S \in SUBSET Keys, NEW skip \in Int, NEW take \in Int
    PROVE  /\ SkipTake(S, skip, take) \in SUBSET Keys
           /\ Cardinality(S) \in Nat
<1>1. IsFiniteSet(S)
  BY FS_Subset
<1>2. QED
  BY <1>1, FS_CardinalityType DEF SkipTake

(* A write keeps the log a non-empty sequence of contents and lengthens it. *)
LEMMA AppendContents ==
    ASSUME NEW l \in Seq(Contents), Len(l) >= 1,
           NEW t \in Tables, NEW k \in Keys, NEW b \in BOOLEAN
    PROVE  LET c == l[Len(l)]
               l2 == Append(l, [c EXCEPT ![t] = IF b THEN @ \cup {k} ELSE @ \ {k}])
           IN  /\ l2 \in Seq(Contents)
               /\ Len(l2) = Len(l) + 1
               /\ \A i \in 1 .. Len(l) : l2[i] = l[i]
<1> DEFINE c == l[Len(l)]
<1>1. c \in Contents
  OBVIOUS
<1>2. [c EXCEPT ![t] = IF b THEN @ \cup {k} ELSE @ \ {k}] \in Contents
  BY <1>1 DEF Contents
<1>3. QED
  BY <1>2

LEMMA NoCallIdle == NoCall.pc = "idle" /\ NoReturn.outcome = "none"
  BY DEF NoCall, NoReturn

-----------------------------------------------------------------------------
LEMMA InitTypeInv == Init => TypeInv
<1> SUFFICES ASSUME Init PROVE TypeInv
  OBVIOUS
<1>1. log \in Seq(Contents) /\ Len(log) >= 1
  BY DEF Init, Empty, Contents
<1>2. call \in [Procs -> [Threads -> Calls \cup {NoCall}]]
      /\ returned \in Returns \cup {NoReturn}
  BY DEF Init
<1>3. /\ created \in BOOLEAN /\ lock \in Procs \cup {NoProc}
      /\ scratch \subseteq ScratchDirs
      /\ openErr \in {"none", "MissingTableOverride", "CannotOpenDB"}
      /\ view \in [Procs -> Nat] /\ dirOf \in [Procs -> ScratchDirs \cup {NoDir}]
      /\ role \in [Procs -> {"none", "primary", "secondary"}]
  BY DEF Init
<1>4. CallsOfSecondaries /\ ViewInLog
  BY DEF Init, CallsOfSecondaries, ViewInLog
<1>5. QED
  BY <1>1, <1>2, <1>3, <1>4 DEF TypeInv, TypeOK

LEMMA OpenReadWriteTypeInv ==
    ASSUME TypeInv, NEW p \in Procs, NEW o \in OverrideInputs, OpenReadWrite(p, o)
    PROVE  TypeInv'
<1>1. /\ lock' \in Procs \cup {NoProc}
      /\ role' \in [Procs -> {"none", "primary", "secondary"}]
      /\ created' \in BOOLEAN
      /\ openErr' \in {"none", "MissingTableOverride", "CannotOpenDB"}
  BY DEF OpenReadWrite, TypeInv, TypeOK
<1>2. returned' \in Returns \cup {NoReturn}
  BY DEF OpenReadWrite
<1>3. UNCHANGED <<log, view, scratch, dirOf, call>>
  BY DEF OpenReadWrite
<1>4. \A q \in Procs : role'[q] = "secondary" => role[q] = "secondary"
  BY DEF OpenReadWrite, TypeInv, TypeOK
<1>5. CallsOfSecondaries'
  <2>1. role[p] = "none"
    BY DEF OpenReadWrite
  <2>2. \A w \in Threads : call[p][w] = NoCall
    BY <2>1 DEF TypeInv, CallsOfSecondaries
  <2>3. \A q \in Procs : q # p => role'[q] = role[q]
    BY DEF OpenReadWrite, TypeInv, TypeOK
  <2>4. QED
    BY <1>3, <2>2, <2>3 DEF TypeInv, CallsOfSecondaries
<1>6. ViewInLog'
  BY <1>3, <1>4 DEF TypeInv, ViewInLog
<1>7. QED
  BY <1>1, <1>2, <1>3, <1>5, <1>6 DEF TypeInv, TypeOK

LEMMA OpenReadOnlyTypeInv ==
    ASSUME TypeInv, NEW p \in Procs, NEW b \in BOOLEAN, OpenReadOnly(p, b)
    PROVE  TypeInv'
<1>1. PICK d \in IF b THEN {NoDir} ELSE ScratchDirs \ scratch :
          /\ scratch' = IF b THEN scratch ELSE scratch \cup {d}
          /\ \/ /\ ~created
                /\ openErr' = "CannotOpenDB"
                /\ UNCHANGED <<role, view, dirOf>>
             \/ /\ created
                /\ role' = [role EXCEPT ![p] = "secondary"]
                /\ view' = [view EXCEPT ![p] = Len(log)]
                /\ dirOf' = [dirOf EXCEPT ![p] = d]
                /\ openErr' = "none"
  BY DEF OpenReadOnly
<1>2. UNCHANGED <<log, created, lock, call>> /\ returned' = NoReturn
  BY DEF OpenReadOnly
<1>3. d \in ScratchDirs \cup {NoDir} /\ scratch' \subseteq ScratchDirs
  BY <1>1 DEF TypeInv, TypeOK
<1>4. /\ role' \in [Procs -> {"none", "primary", "secondary"}]
      /\ view' \in [Procs -> Nat]
      /\ dirOf' \in [Procs -> ScratchDirs \cup {NoDir}]
      /\ openErr' \in {"none", "MissingTableOverride", "CannotOpenDB"}
  <2>1. Len(log) \in Nat
    BY DEF TypeInv, TypeOK
  <2>2. CASE UNCHANGED <<role, view, dirOf>> /\ openErr' = "CannotOpenDB"
    BY <2>2 DEF TypeInv, TypeOK
  <2>3. CASE /\ role' = [role EXCEPT ![p] = "secondary"]
             /\ view' = [view EXCEPT ![p] = Len(log)]
             /\ dirOf' = [dirOf EXCEPT ![p] = d]
             /\ openErr' = "none"
    BY <2>1, <2>3, <1>3 DEF TypeInv, TypeOK
  <2>4. QED
    BY <1>1, <2>2, <2>3
<1>5. TypeOK'
  BY <1>2, <1>3, <1>4 DEF TypeInv, TypeOK
<1>6. \A q \in Procs : q # p => role'[q] = role[q] /\ view'[q] = view[q]
  BY <1>1 DEF TypeInv, TypeOK
<1>7. CallsOfSecondaries'
  <2>1. \A w \in Threads : call[p][w] = NoCall
    BY DEF OpenReadOnly, TypeInv, CallsOfSecondaries
  <2>2. QED
    BY <1>2, <1>6, <2>1 DEF TypeInv, CallsOfSecondaries
<1>8. ViewInLog'
  <2>1. role'[p] = "secondary" => view'[p] \in 1 .. Len(log)
    BY <1>1 DEF OpenReadOnly, TypeInv, TypeOK
  <2>2. QED
    BY <1>2, <1>6, <2>1 DEF TypeInv, ViewInLog
<1>9. QED
  BY <1>5, <1>7, <1>8 DEF TypeInv

LEMMA WriteTypeInv ==
    ASSUME TypeInv, NEW p \in Procs, NEW t \in Tables, NEW k \in Keys,
           NEW b \in BOOLEAN, Write(p, t, k, b)
    PROVE  TypeInv'
<1>1. log' \in Seq(Contents) /\ Len(log') = Len(log) + 1
  BY AppendContents DEF Write, TypeInv, TypeOK, Current
<1>2. UNCHANGED <<created, lock, role, view, scratch, dirOf, call>>
      /\ openErr' = "none" /\ returned' = NoReturn
  BY DEF Write
<1>3. QED
  BY <1>1, <1>2 DEF TypeInv, TypeOK, CallsOfSecondaries, ViewInLog

LEMMA BeginCallTypeInv ==
    ASSUME TypeInv, NEW p \in Procs, NEW w \in Threads,
           NEW kind \in {"dump", "count"}, NEW n \in Tables \cup {UnknownName},
           NEW ps \in PageSizes \cup {0}, NEW pn \in PageNumbers \cup {0},
           BeginCall(p, w, kind, n, ps, pn)
    PROVE  TypeInv'
<1> DEFINE failed(o) == [outcome |-> o, kind |-> kind, table |-> n,
                         ps |-> 0, pn |-> 0, start |-> 0, page |-> {}, count |-> 0]
           started == [pc |-> "iter", kind |-> kind, table |-> n,
                       ps |-> ps, pn |-> pn, start |-> Len(log)]
<1>1. UNCHANGED <<log, created, lock, role, scratch, dirOf>> /\ openErr' = "none"
  BY DEF BeginCall
<1>2. role[p] = "secondary"
  BY DEF BeginCall
<1>3. CASE /\ returned' \in {failed("notfound"), failed("error")}
           /\ UNCHANGED <<view, call>>
  <2>1. returned' \in Returns
    BY <1>3 DEF Returns
  <2>2. QED
    BY <1>1, <1>3, <2>1 DEF TypeInv, TypeOK, CallsOfSecondaries, ViewInLog
<1>4. CASE /\ n \in Tables
           /\ view' = [view EXCEPT ![p] = Len(log)]
           /\ call' = [call EXCEPT ![p][w] = started]
           /\ returned' = NoReturn
  <2>1. started \in Calls
    BY <1>4 DEF Calls, TypeInv, TypeOK
  <2>2. TypeOK'
    BY <1>1, <1>4, <2>1 DEF TypeInv, TypeOK
  <2>3. CallsOfSecondaries'
    BY <1>1, <1>2, <1>4 DEF TypeInv, TypeOK, CallsOfSecondaries
  <2>4. ViewInLog'
    BY <1>1, <1>4 DEF TypeInv, TypeOK, ViewInLog
  <2>5. QED
    BY <2>2, <2>3, <2>4 DEF TypeInv
<1>5. QED
  BY <1>3, <1>4 DEF BeginCall

LEMMA InUnionZero ==
    ASSUME NEW S \in SUBSET Nat, NEW x \in S \cup {0}
    PROVE  x \in Nat
  OBVIOUS

LEMMA FinishCallTypeInv ==
    ASSUME TypeInv, NEW p \in Procs, NEW w \in Threads, FinishCall(p, w)
    PROVE  TypeInv'
<1> DEFINE c == call[p][w]
           S == log[view[p]][c.table]
<1>1. c \in Calls
  BY NoCallIdle DEF FinishCall, TypeInv, TypeOK
<1>2. role[p] = "secondary"
  BY NoCallIdle DEF FinishCall, TypeInv, CallsOfSecondaries
<1>3. S \in SUBSET Keys
  BY <1>1, <1>2 DEF TypeInv, TypeOK, ViewInLog, Contents, Calls
<1>4. WrappedSkip(c.pn, c.ps) \in Int /\ c.ps \in Int
  <2>1. UsizeMod \in Nat \ {0} /\ U16Mod \in Nat \ {0}
    BY WidthAssumption
  <2>2. PageNumbers \subseteq Nat /\ PageSizes \subseteq Nat
    BY <2>1, WidthAssumption
  <2>3. c.pn \in PageNumbers \cup {0} /\ c.ps \in PageSizes \cup {0}
    BY <1>1 DEF Calls
  <2>5. c.pn \in Nat /\ c.ps \in Nat
    BY <2>2, <2>3, InUnionZero, Zenon
  <2>4. QED
    BY <2>1, <2>5 DEF WrappedSkip
<1>5. returned' \in Returns
  <2>1. /\ SkipTake(S, WrappedSkip(c.pn, c.ps), c.ps) \in SUBSET Keys
        /\ Cardinality(S) \in Nat
    BY <1>3, <1>4, PageAndCount
  <2>2. QED
    BY <1>1, <2>1 DEF FinishCall, Calls, Returns
<1>6. call' \in [Procs -> [Threads -> Calls \cup {NoCall}]]
  BY DEF FinishCall, TypeInv, TypeOK
<1>7. UNCHANGED <<log, created, lock, role, view, scratch, dirOf>> /\ openErr' = "none"
  BY DEF FinishCall
<1>8. CallsOfSecondaries'
  BY <1>7 DEF FinishCall, TypeInv, TypeOK, CallsOfSecondaries
<1>9. QED
  BY <1>5, <1>6, <1>7, <1>8 DEF TypeInv, TypeOK, ViewInLog

LEMMA CloseTypeInv ==
    ASSUME TypeInv, NEW p \in Procs, Close(p)
    PROVE  TypeInv'
<1>1. /\ role' \in [Procs -> {"none", "primary", "secondary"}]
      /\ lock' \in Procs \cup {NoProc}
      /\ view' \in [Procs -> Nat]
      /\ dirOf' \in [Procs -> ScratchDirs \cup {NoDir}]
  BY DEF Close, TypeInv, TypeOK
<1>2. UNCHANGED <<log, created, scratch, call>>
      /\ openErr' = "none" /\ returned' = NoReturn
  BY DEF Close
<1>3. \A q \in Procs : q # p => role'[q] = role[q] /\ view'[q] = view[q]
  BY DEF Close, TypeInv, TypeOK
<1>4. CallsOfSecondaries'
  BY <1>2, <1>3 DEF Close, TypeInv, CallsOfSecondaries
<1>5. ViewInLog'
  BY <1>2, <1>3 DEF Close, TypeInv, TypeOK, ViewInLog
<1>6. QED
  BY <1>1, <1>2, <1>4, <1>5 DEF TypeInv, TypeOK

LEMMA CrashTypeInv ==
    ASSUME TypeInv, NEW p \in Procs, Crash(p)
    PROVE  TypeInv'
<1>1. /\ role' \in [Procs -> {"none", "primary", "secondary"}]
      /\ lock' \in Procs \cup {NoProc}
      /\ view' \in [Procs -> Nat]
      /\ dirOf' \in [Procs -> ScratchDirs \cup {NoDir}]
      /\ call' \in [Procs -> [Threads -> Calls \cup {NoCall}]]
  BY DEF Crash, TypeInv, TypeOK
<1>2. UNCHANGED <<log, created, scratch>>
      /\ openErr' = "none" /\ returned' = NoReturn
  BY DEF Crash
<1>3. \A q \in Procs : q # p => role'[q] = role[q] /\ view'[q] = view[q]
                                /\ call'[q] = call[q]
  BY DEF Crash, TypeInv, TypeOK
<1>4. CallsOfSecondaries'
  <2>1. \A w \in Threads : call'[p][w] = NoCall
    BY DEF Crash, TypeInv, TypeOK
  <2>2. QED
    BY <1>3, <2>1 DEF TypeInv, CallsOfSecondaries
<1>5. ViewInLog'
  BY <1>2, <1>3 DEF Crash, TypeInv, TypeOK, ViewInLog
<1>6. QED
  BY <1>1, <1>2, <1>4, <1>5 DEF TypeInv, TypeOK

LEMMA StutterTypeInv ==
    ASSUME TypeInv, UNCHANGED vars
    PROVE  TypeInv'
  BY DEF vars, TypeInv, TypeOK, CallsOfSecondaries, ViewInLog

LEMMA NextTypeInv == TypeInv /\ [Next]_vars => TypeInv'
<1> SUFFICES ASSUME TypeInv, [Next]_vars PROVE TypeInv'
  OBVIOUS
<1>1. CASE Next
  <2> PICK p \in Procs :
        \/ \E o \in OverrideInputs : OpenReadWrite(p, o)
        \/ \E b \in BOOLEAN : OpenReadOnly(p, b)
        \/ \E t \in Tables, k \in Keys, b \in BOOLEAN : Write(p, t, k, b)
        \/ \E w \in Threads :
            \/ \E n \in Tables \cup {UnknownName} : BeginCall(p, w, "count", n, 0, 0)
            \/ \E n \in Tables, ps \in PageSizes, pn \in PageNumbers :
                  BeginCall(p, w, "dump", n, ps, pn)
            \/ BeginCall(p, w, "dump", UnknownName, 0, 0)
        \/ \E w \in Threads : FinishCall(p, w)
        \/ Close(p)
        \/ Crash(p)
    BY <1>1 DEF Next
  <2>1. ASSUME NEW w \in Threads,
               \/ \E n \in Tables \cup {UnknownName} : BeginCall(p, w, "count", n, 0, 0)
               \/ \E n \in Tables, ps \in PageSizes, pn \in PageNumbers :
                     BeginCall(p, w, "dump", n, ps, pn)
               \/ BeginCall(p, w, "dump", UnknownName, 0, 0)
        PROVE  TypeInv'
    BY <2>1, BeginCallTypeInv
  <2>2. QED
    BY <2>1, OpenReadWriteTypeInv, OpenReadOnlyTypeInv, WriteTypeInv,
       FinishCallTypeInv, CloseTypeInv, CrashTypeInv
<1>2. CASE UNCHANGED vars
  BY <1>2, StutterTypeInv
<1>3. QED
  BY <1>1, <1>2

(* Whatever opens, drops, crashes, writes and dump/count_keys calls of any *)
(* number of openers and threads interleave, the state stays well typed:  *)
(* in particular every iteration reads a version the log holds.           *)
THEOREM TypeCorrect == Spec => []TypeOK
<1>1. Spec => []TypeInv
  BY InitTypeInv, NextTypeInv, PTL DEF Spec
<1>2. QED
  BY <1>1, PTL DEF TypeInv

-----------------------------------------------------------------------------
(* Exclusivity of the read-write open.                                     *)

LEMMA LockUntouched ==
    ASSUME LockHeldByPrimary, UNCHANGED <<lock, role>>
    PROVE  LockHeldByPrimary'
  BY DEF LockHeldByPrimary

(* A drop or a crash of p takes p's role away and frees the lock if p held *)
(* it; nobody else's role or claim on the lock changes.                    *)
LEMMA ReleaseLock ==
    ASSUME TypeInv, LockHeldByPrimary, NEW p \in Procs,
           role' = [role EXCEPT ![p] = "none"],
           lock' = IF lock = p THEN NoProc ELSE lock
    PROVE  LockHeldByPrimary'
<1> SUFFICES ASSUME NEW q \in Procs PROVE role'[q] = "primary" <=> lock' = q
  BY DEF LockHeldByPrimary
<1>1. CASE q = p
  BY <1>1 DEF TypeInv, TypeOK
<1>2. CASE q # p
  BY <1>2 DEF TypeInv, TypeOK, LockHeldByPrimary
<1>3. QED
  BY <1>1, <1>2

LEMMA OpenReadWriteLock ==
    ASSUME TypeInv, LockHeldByPrimary, NEW p \in Procs,
           NEW o \in OverrideInputs, OpenReadWrite(p, o)
    PROVE  LockHeldByPrimary'
<1>1. CASE UNCHANGED <<lock, role>>
  BY <1>1, LockUntouched
<1>2. CASE /\ lock = NoProc /\ lock' = p
           /\ role' = [role EXCEPT ![p] = "primary"]
  <2> SUFFICES ASSUME NEW q \in Procs PROVE role'[q] = "primary" <=> lock' = q
    BY DEF LockHeldByPrimary
  <2>1. role[q] # "primary"
    BY <1>2 DEF LockHeldByPrimary
  <2>2. QED
    BY <1>2, <2>1 DEF TypeInv, TypeOK
<1>3. QED
  BY <1>1, <1>2 DEF OpenReadWrite

LEMMA OpenReadOnlyLock ==
    ASSUME TypeInv, LockHeldByPrimary, NEW p \in Procs,
           NEW b \in BOOLEAN, OpenReadOnly(p, b)
    PROVE  LockHeldByPrimary'
<1>1. UNCHANGED lock /\ role[p] = "none"
  BY DEF OpenReadOnly
<1>2. CASE UNCHANGED role
  BY <1>1, <1>2, LockUntouched
<1>3. CASE role' = [role EXCEPT ![p] = "secondary"]
  <2> SUFFICES ASSUME NEW q \in Procs PROVE role'[q] = "primary" <=> lock' = q
    BY DEF LockHeldByPrimary
  <2>1. lock # p
    BY <1>1 DEF LockHeldByPrimary
  <2>2. QED
    BY <1>1, <1>3, <2>1 DEF TypeInv, TypeOK, LockHeldByPrimary
<1>4. QED
  <2>1. PICK d \in IF b THEN {NoDir} ELSE ScratchDirs \ scratch :
           \/ UNCHANGED role
           \/ role' = [role EXCEPT ![p] = "secondary"]
    BY DEF OpenReadOnly
  <2>2. QED
    BY <2>1, <1>2, <1>3

(* Every step keeps the lock with the primary.                             *)
LEMMA NextLock ==
    TypeInv /\ LockHeldByPrimary /\ [Next]_vars => LockHeldByPrimary'
<1> SUFFICES ASSUME TypeInv, LockHeldByPrimary, [Next]_vars
             PROVE  LockHeldByPrimary'
  OBVIOUS
<1>1. CASE Next
  <2> PICK p \in Procs :
        \/ \E o \in OverrideInputs : OpenReadWrite(p, o)
        \/ \E b \in BOOLEAN : OpenReadOnly(p, b)
        \/ \E t \in Tables, k \in Keys, b \in BOOLEAN : Write(p, t, k, b)
        \/ \E w \in Threads :
            \/ \E n \in Tables \cup {UnknownName} : BeginCall(p, w, "count", n, 0, 0)
            \/ \E n \in Tables, ps \in PageSizes, pn \in PageNumbers :
                  BeginCall(p, w, "dump", n, ps, pn)
            \/ BeginCall(p, w, "dump", UnknownName, 0, 0)
        \/ \E w \in Threads : FinishCall(p, w)
        \/ Close(p)
        \/ Crash(p)
    BY <1>1 DEF Next
  <2>1. CASE \E o \in OverrideInputs : OpenReadWrite(p, o)
    BY <2>1, OpenReadWriteLock
  <2>2. CASE \E b \in BOOLEAN : OpenReadOnly(p, b)
    BY <2>2, OpenReadOnlyLock
  <2>3. CASE \/ \E t \in Tables, k \in Keys, b \in BOOLEAN : Write(p, t, k, b)
             \/ \E w \in Threads :
                 \/ \E n \in Tables \cup {UnknownName} : BeginCall(p, w, "count", n, 0, 0)
                 \/ \E n \in Tables, ps \in PageSizes, pn \in PageNumbers :
                       BeginCall(p, w, "dump", n, ps, pn)
                 \/ BeginCall(p, w, "dump", UnknownName, 0, 0)
             \/ \E w \in Threads : FinishCall(p, w)
    <3>1. UNCHANGED <<lock, role>>
      BY <2>3 DEF Write, BeginCall, FinishCall
    <3>2. QED
      BY <3>1, LockUntouched
  <2>4. CASE Close(p) \/ Crash(p)
    BY <2>4, ReleaseLock DEF Close, Crash
  <2>5. QED
    BY <2>1, <2>2, <2>3, <2>4
<1>2. CASE UNCHANGED vars
  BY <1>2, LockUntouched DEF vars
<1>3. QED
  BY <1>1, <1>2

LEMMA InitLock == Init => LockHeldByPrimary
  BY BoundAssumption DEF Init, LockHeldByPrimary

(* RocksDB's lock makes the read-write open exclusive: in every reachable  *)
(* state the lock is held by exactly the opener whose handle is the        *)
(* primary, whatever sequence of opens, failed opens, drops and crashes    *)
(* led there.                                                              *)
THEOREM LockExclusive == Spec => []LockHeldByPrimary
<1>1. Init => TypeInv /\ LockHeldByPrimary
  BY InitTypeInv, InitLock
<1>2. TypeInv /\ LockHeldByPrimary /\ [Next]_vars
        => (TypeInv /\ LockHeldByPrimary)'
  BY NextTypeInv, NextLock
<1>3. QED
  BY <1>1, <1>2, PTL DEF Spec

-----------------------------------------------------------------------------
(* What dump and count_keys return, in a debug build.                      *)

(* A call in flight started no later than its handle's view: catch-ups by  *)
(* the other threads only move the view forward.                           *)
CallStartInView ==
    \A p \in Procs, w \in Threads :
        call[p][w] # NoCall => call[p][w].start <= view[p]

LEMMA NotOkReturn ==
    ASSUME returned'.outcome # "ok"
    PROVE  ReturnsStateDuringCall'
  BY DEF ReturnsStateDuringCall

(* The calls a step leaves in flight: those it did not touch, whose        *)
(* handle's view it did not move back.                                     *)
LEMMA CallsKept ==
    ASSUME TypeInv, CallStartInView,
           \A p \in Procs, w \in Threads :
              call'[p][w] # NoCall =>
                 call'[p][w] = call[p][w] /\ view'[p] >= view[p],
           view' \in [Procs -> Nat]
    PROVE  CallStartInView'
  BY DEF CallStartInView, TypeInv, TypeOK, Calls

LEMMA BeginCallReads ==
    ASSUME TypeInv, CallStartInView, NEW p \in Procs, NEW w \in Threads,
           NEW kind, NEW name, NEW ps, NEW pn, BeginCall(p, w, kind, name, ps, pn)
    PROVE  CallStartInView' /\ ReturnsStateDuringCall'
<1>1. ReturnsStateDuringCall'
  <2>1. returned'.outcome # "ok"
    BY NoCallIdle DEF BeginCall
  <2>2. QED
    BY <2>1, NotOkReturn
<1>2. CallStartInView'
  <2>1. CASE UNCHANGED <<view, call>>
    <3>1. view' = view /\ call' = call
      BY <2>1
    <3>2. QED
      BY <3>1, Zenon DEF CallStartInView
  <2>2. CASE /\ view' = [view EXCEPT ![p] = Len(log)]
             /\ call' = [call EXCEPT ![p][w] =
                            [pc |-> "iter", kind |-> kind, table |-> name,
                             ps |-> ps, pn |-> pn, start |-> Len(log)]]
    <3> SUFFICES ASSUME NEW q \in Procs, NEW u \in Threads, call'[q][u] # NoCall
                 PROVE  call'[q][u].start <= view'[q]
      BY Zenon DEF CallStartInView
    <3>1. role[p] = "secondary" /\ Len(log) \in Nat
      BY DEF BeginCall, TypeInv, TypeOK
    <3>2. view[p] <= Len(log)
      BY <3>1 DEF TypeInv, ViewInLog
    <3>3. CASE q = p /\ u = w
      BY <2>2, <3>3 DEF TypeInv, TypeOK
    <3>4. CASE q = p /\ u # w
      <4>1. call[p][u] # NoCall /\ call[p][u].start <= view[p]
        BY <2>2, <3>4 DEF TypeInv, TypeOK, CallStartInView
      <4>2. call[p][u] \in Calls
        BY <4>1 DEF TypeInv, TypeOK
      <4>3. call'[p][u] = call[p][u] /\ view'[p] = Len(log)
        BY <2>2, <3>4 DEF TypeInv, TypeOK
      <4>4. call[p][u].start \in Nat /\ view[p] \in Nat
        BY <4>2 DEF TypeInv, TypeOK, Calls
      <4>5. QED
        BY <3>4, <3>2, <4>1, <4>3, <4>4
    <3>5. CASE q # p
      BY <2>2, <3>5 DEF TypeInv, TypeOK, CallStartInView
    <3>6. QED
      BY <3>3, <3>4, <3>5
  <2>3. QED
    BY <2>1, <2>2 DEF BeginCall
<1>3. QED
  BY <1>1, <1>2

(* In a debug build an unwrapped skip is the product itself.               *)
LEMMA SkipExact ==
    ASSUME NEW pn \in Nat, NEW ps \in Nat, ~SkipOverflows(pn, ps)
    PROVE  WrappedSkip(pn, ps) = pn * ps
<1>1. UsizeMod \in Nat \ {0}
  BY WidthAssumption
<1>2. pn * ps \in 0 .. UsizeMod - 1
  BY <1>1 DEF SkipOverflows
<1>3. QED
  BY <1>1, <1>2 DEF WrappedSkip

LEMMA FinishCallReads ==
    ASSUME OverflowChecks, TypeInv, CallStartInView,
           NEW p \in Procs, NEW w \in Threads, FinishCall(p, w)
    PROVE  CallStartInView' /\ ReturnsStateDuringCall'
<1> DEFINE c == call[p][w]
           S == log[view[p]][c.table]
<1>1. c \in Calls /\ c # NoCall
  <2>1. c.pc = "iter"
    BY DEF FinishCall
  <2>2. c \in Calls \cup {NoCall}
    BY DEF TypeInv, TypeOK
  <2>3. QED
    BY <2>1, <2>2, NoCallIdle
<1>2. view[p] \in 1 .. Len(log) /\ c.start <= view[p]
  BY <1>1 DEF TypeInv, CallsOfSecondaries, ViewInLog, CallStartInView
<1>3. UNCHANGED <<log, view>>
  BY DEF FinishCall
<1>4. CallStartInView'
  BY <1>3 DEF FinishCall, TypeInv, TypeOK, CallStartInView
<1> DEFINE done(o, pg, n) == [outcome |-> o, kind |-> c.kind,
                              table |-> c.table, ps |-> c.ps, pn |-> c.pn,
                              start |-> c.start, page |-> pg, count |-> n]
<1>5. returned' = IF c.kind = "count" THEN done("ok", {}, Cardinality(S))
                  ELSE IF OverflowChecks /\ SkipOverflows(c.pn, c.ps)
                       THEN done("panic", {}, 0)
                       ELSE done("ok", SkipTake(S, WrappedSkip(c.pn, c.ps), c.ps), 0)
  BY DEF FinishCall
<1>6. c.start \in Nat /\ c.pn \in Nat /\ c.ps \in Nat
  <2>1. PageNumbers \subseteq Nat /\ PageSizes \subseteq Nat
    BY WidthAssumption
  <2>2. c.pn \in PageNumbers \cup {0} /\ c.ps \in PageSizes \cup {0}
        /\ c.start \in Nat
    BY <1>1 DEF Calls
  <2>3. QED
    BY <2>1, <2>2, InUnionZero, Zenon
<1>7. view[p] \in c.start .. Len(log)
  BY <1>2, <1>6
<1> DEFINE r == returned'
           Holds(v) == IF r.kind = "count"
                       THEN r.count = Cardinality(log'[v][r.table])
                       ELSE r.page = SkipTake(log'[v][r.table], r.pn * r.ps, r.ps)
<1>8. ASSUME r.start = c.start, Holds(view[p]) PROVE ReturnsStateDuringCall'
  <2>1. view[p] \in r.start .. Len(log') /\ Holds(view[p])
    BY <1>3, <1>7, <1>8
  <2>2. QED
    BY <2>1 DEF ReturnsStateDuringCall
<1>9. CASE c.kind = "count"
  <2>1. r = done("ok", {}, Cardinality(S))
    BY <1>5, <1>9
  <2>2. r.start = c.start /\ Holds(view[p])
    BY <1>3, <1>9, <2>1
  <2>3. QED
    BY <1>4, <1>8, <2>2
<1>10. CASE c.kind # "count" /\ SkipOverflows(c.pn, c.ps)
  <2>1. r = done("panic", {}, 0)
    BY <1>5, <1>10
  <2>2. QED
    BY <1>4, <2>1, NotOkReturn
<1>12. CASE c.kind # "count" /\ ~SkipOverflows(c.pn, c.ps)
  <2>1. r = done("ok", SkipTake(S, c.pn * c.ps, c.ps), 0)
    BY <1>5, <1>6, <1>12, SkipExact
  <2>2. r.start = c.start /\ Holds(view[p])
    BY <1>3, <1>12, <2>1
  <2>3. QED
    BY <1>4, <1>8, <2>2
<1>13. QED
  BY <1>4, <1>9, <1>10, <1>12

(* A step that leaves every call and every view alone.                     *)
LEMMA ViewsUntouched ==
    ASSUME CallStartInView, UNCHANGED <<view, call>>
    PROVE  CallStartInView'
<1>1. view' = view /\ call' = call
  OBVIOUS
<1>2. QED
  BY <1>1, Zenon DEF CallStartInView

(* A step that moves only p's view, when p has no call in flight, or that  *)
(* also ends all of p's calls.                                             *)
LEMMA OnlyIdleViewMoves ==
    ASSUME TypeInv, CallStartInView, NEW p \in Procs,
           \A w \in Threads : call'[p][w] = NoCall,
           \A q \in Procs \ {p} : call'[q] = call[q] /\ view'[q] = view[q]
    PROVE  CallStartInView'
  BY DEF CallStartInView, TypeInv, TypeOK

LEMMA OpenReadOnlyReads ==
    ASSUME TypeInv, CallStartInView, NEW p \in Procs,
           NEW b \in BOOLEAN, OpenReadOnly(p, b)
    PROVE  CallStartInView'
<1>1. \A w \in Threads : call'[p][w] = NoCall
  BY DEF OpenReadOnly, TypeInv, CallsOfSecondaries
<1>2. \A q \in Procs \ {p} : call'[q] = call[q] /\ view'[q] = view[q]
  <2>1. PICK d \in IF b THEN {NoDir} ELSE ScratchDirs \ scratch :
           \/ UNCHANGED view
           \/ view' = [view EXCEPT ![p] = Len(log)]
    BY DEF OpenReadOnly
  <2>2. QED
    BY <2>1 DEF OpenReadOnly, TypeInv, TypeOK
<1>3. QED
  BY <1>1, <1>2, OnlyIdleViewMoves

(* Every step keeps calls behind their views, and a debug build's dump and *)
(* count_keys return a state of the table the call overlapped.            *)
LEMMA NextReads ==
    ASSUME OverflowChecks, TypeInv, CallStartInView, ReturnsStateDuringCall,
           [Next]_vars
    PROVE  CallStartInView' /\ ReturnsStateDuringCall'
<1>1. CASE Next
  <2> PICK p \in Procs :
        \/ \E o \in OverrideInputs : OpenReadWrite(p, o)
        \/ \E b \in BOOLEAN : OpenReadOnly(p, b)
        \/ \E t \in Tables, k \in Keys, b \in BOOLEAN : Write(p, t, k, b)
        \/ \E w \in Threads :
            \/ \E n \in Tables \cup {UnknownName} : BeginCall(p, w, "count", n, 0, 0)
            \/ \E n \in Tables, ps \in PageSizes, pn \in PageNumbers :
                  BeginCall(p, w, "dump", n, ps, pn)
            \/ BeginCall(p, w, "dump", UnknownName, 0, 0)
        \/ \E w \in Threads : FinishCall(p, w)
        \/ Close(p)
        \/ Crash(p)
    BY <1>1 DEF Next
  <2>1. CASE \/ \E o \in OverrideInputs : OpenReadWrite(p, o)
             \/ \E t \in Tables, k \in Keys, b \in BOOLEAN : Write(p, t, k, b)
    <3>1. UNCHANGED <<view, call>> /\ returned' = NoReturn
      BY <2>1 DEF OpenReadWrite, Write
    <3>2. QED
      BY <3>1, ViewsUntouched, NotOkReturn, NoCallIdle
  <2>2. CASE \E b \in BOOLEAN : OpenReadOnly(p, b)
    <3>1. returned' = NoReturn
      BY <2>2 DEF OpenReadOnly
    <3>2. QED
      BY <2>2, <3>1, OpenReadOnlyReads, NotOkReturn, NoCallIdle
  <2>3. CASE \E w \in Threads :
               \/ \E n \in Tables \cup {UnknownName} : BeginCall(p, w, "count", n, 0, 0)
               \/ \E n \in Tables, ps \in PageSizes, pn \in PageNumbers :
                     BeginCall(p, w, "dump", n, ps, pn)
               \/ BeginCall(p, w, "dump", UnknownName, 0, 0)
    BY <2>3, BeginCallReads
  <2>4. CASE \E w \in Threads : FinishCall(p, w)
    BY <2>4, FinishCallReads
  <2>5. CASE Close(p) \/ Crash(p)
    <3>1. returned' = NoReturn
      BY <2>5 DEF Close, Crash
    <3>2. \A w \in Threads : call'[p][w] = NoCall
      BY <2>5 DEF Close, Crash, TypeInv, TypeOK
    <3>3. \A q \in Procs \ {p} : call'[q] = call[q] /\ view'[q] = view[q]
      BY <2>5 DEF Close, Crash, TypeInv, TypeOK
    <3>4. QED
      BY <3>1, <3>2, <3>3, OnlyIdleViewMoves, NotOkReturn, NoCallIdle
  <2>6. QED
    BY <2>1, <2>2, <2>3, <2>4, <2>5
<1>2. CASE UNCHANGED vars
  <2>1. UNCHANGED <<view, call, returned, log>>
    BY <1>2 DEF vars
  <2>2. QED
    BY <2>1, ViewsUntouched DEF ReturnsStateDuringCall
<1>3. QED
  BY <1>1, <1>2

(* What dump and count_keys promise, for every value of the constants in a *)
(* debug build (overflow checks on): a page they return is entries        *)
(* [N*P, N*P+P) and a count they return the number of entries of a state  *)
(* of the table that existed between the call's start and its return,    *)
(* however the other threads' catch-ups and the primary's writes          *)
(* interleave with it.                                                     *)
THEOREM ReturnsCorrect ==
    ASSUME OverflowChecks
    PROVE  Spec => []ReturnsStateDuringCall
<1> DEFINE Inv == TypeInv /\ CallStartInView /\ ReturnsStateDuringCall
<1>1. Init => Inv
  <2> SUFFICES ASSUME Init PROVE Inv
    OBVIOUS
  <2>1. TypeInv
    BY InitTypeInv
  <2>2. CallStartInView /\ ReturnsStateDuringCall
    BY NoCallIdle DEF Init, CallStartInView, ReturnsStateDuringCall
  <2>3. QED
    BY <2>1, <2>2
<1>2. Inv /\ [Next]_vars => Inv'
  BY NextTypeInv, NextReads
<1>3. QED
  BY <1>1, <1>2, PTL DEF Spec
=============================================================================
