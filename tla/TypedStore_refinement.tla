------------------------ MODULE TypedStore_refinement ------------------------
(***************************************************************************)
(* TypedStore implements EngineAccess under the mapping readersBar: every  *)
(* initial state maps to an initial state, and every step of the opens,    *)
(* writes, calls, drops and crashes maps to an EngineAccess step or to a   *)
(* stutter.  The steps rest on the invariants of TypedStore_proofs.        *)
(***************************************************************************)
EXTENDS TypedStore_proofs

USE TablesAssumption, KeysAssumption, NameAssumption, WidthAssumption,
    BoundAssumption

(* The step every TypedStore step must map to.                             *)
AStep == [EA!ANext]_EA!avars

(* A step that changes none of the mapped state is a stutter.              *)
LEMMA MappedStutter ==
    ASSUME UNCHANGED <<log, created, lock, role, view>>
    PROVE  AStep
  BY DEF AStep, EA!avars, readersBar

LEMMA OpenReadWriteRefines ==
    ASSUME TypeInv, LockHeldByPrimary, NEW p \in Procs,
           NEW o \in OverrideInputs, OpenReadWrite(p, o)
    PROVE  AStep
<1>1. UNCHANGED <<log, view>>
  BY DEF OpenReadWrite
<1>2. CASE UNCHANGED <<lock, role, created>>
  BY <1>1, <1>2, MappedStutter
<1>3. CASE /\ lock = NoProc /\ lock' = p /\ created' = TRUE
           /\ role' = [role EXCEPT ![p] = "primary"]
  <2>1. role[p] = "none"
    BY DEF OpenReadWrite
  <2>2. readersBar[p] = 0 /\ readersBar' = readersBar
    BY <1>1, <1>3, <2>1 DEF readersBar, TypeInv, TypeOK
  <2>3. EA!AcquireWrite(p)
    BY <1>1, <1>3, <2>2 DEF EA!AcquireWrite
  <2>4. QED
    BY <2>3 DEF AStep, EA!ANext
<1>4. QED
  BY <1>2, <1>3 DEF OpenReadWrite

LEMMA OpenReadOnlyRefines ==
    ASSUME TypeInv, LockHeldByPrimary, NEW p \in Procs,
           NEW b \in BOOLEAN, OpenReadOnly(p, b)
    PROVE  AStep
<1>1. UNCHANGED <<log, created, lock>> /\ role[p] = "none"
  BY DEF OpenReadOnly
<1>2. PICK d \in IF b THEN {NoDir} ELSE ScratchDirs \ scratch :
        \/ /\ ~created /\ UNCHANGED <<role, view>>
        \/ /\ created
           /\ role' = [role EXCEPT ![p] = "secondary"]
           /\ view' = [view EXCEPT ![p] = Len(log)]
  BY DEF OpenReadOnly
<1>3. CASE UNCHANGED <<role, view>>
  BY <1>1, <1>3, MappedStutter
<1>4. CASE /\ created
           /\ role' = [role EXCEPT ![p] = "secondary"]
           /\ view' = [view EXCEPT ![p] = Len(log)]
  <2>1. lock # p
    BY <1>1 DEF LockHeldByPrimary
  <2>2. readersBar[p] = 0
    BY <1>1 DEF readersBar
  <2>3. readersBar' = [readersBar EXCEPT ![p] = Len(log)]
    BY <1>1, <1>4 DEF readersBar, TypeInv, TypeOK
  <2>4. EA!OpenReader(p)
    BY <1>1, <1>4, <2>1, <2>2, <2>3 DEF EA!OpenReader
  <2>5. QED
    BY <2>4 DEF AStep, EA!ANext
<1>5. QED
  BY <1>2, <1>3, <1>4

LEMMA WriteRefines ==
    ASSUME TypeInv, LockHeldByPrimary, NEW p \in Procs, NEW t \in Tables,
           NEW k \in Keys, NEW b \in BOOLEAN, Write(p, t, k, b)
    PROVE  AStep
<1>1. lock = p
  BY DEF Write, LockHeldByPrimary
<1>2. [Current EXCEPT ![t] = IF b THEN @ \cup {k} ELSE @ \ {k}] \in Contents
  <2>1. Current \in Contents
    BY DEF TypeInv, TypeOK, Current
  <2>2. QED
    BY <2>1 DEF Contents
<1>3. UNCHANGED <<created, lock, role, view>>
  BY DEF Write
<1>4. EA!AppendState(p)
  BY <1>1, <1>2, <1>3 DEF Write, EA!AppendState, readersBar
<1>5. QED
  BY <1>4 DEF AStep, EA!ANext

LEMMA BeginCallRefines ==
    ASSUME TypeInv, NEW p \in Procs, NEW w \in Threads,
           NEW kind, NEW name, NEW ps, NEW pn, BeginCall(p, w, kind, name, ps, pn)
    PROVE  AStep
<1>1. UNCHANGED <<log, created, lock, role>> /\ role[p] = "secondary"
  BY DEF BeginCall
<1>2. CASE UNCHANGED view
  BY <1>1, <1>2, MappedStutter
<1>3. CASE view' = [view EXCEPT ![p] = Len(log)]
  <2>1. readersBar[p] # 0
    BY <1>1 DEF readersBar, TypeInv, ViewInLog
  <2>2. readersBar' = [readersBar EXCEPT ![p] = Len(log)]
    BY <1>1, <1>3 DEF readersBar, TypeInv, TypeOK
  <2>3. EA!CatchUp(p)
    BY <1>1, <2>1, <2>2 DEF EA!CatchUp
  <2>4. QED
    BY <2>3 DEF AStep, EA!ANext
<1>4. QED
  BY <1>2, <1>3 DEF BeginCall

(* A drop and a crash map alike: the writer releases, a reader closes.     *)
LEMMA ReleaseRefines ==
    ASSUME TypeInv, LockHeldByPrimary, NEW p \in Procs, role[p] # "none",
           role' = [role EXCEPT ![p] = "none"],
           lock' = IF lock = p THEN NoProc ELSE lock,
           view' = [view EXCEPT ![p] = 0],
           UNCHANGED <<log, created>>
    PROVE  AStep
<1>1. CASE role[p] = "primary"
  <2>1. lock = p /\ lock' = NoProc
    BY <1>1 DEF LockHeldByPrimary
  <2>2. readersBar' = readersBar
    BY <1>1 DEF readersBar, TypeInv, TypeOK
  <2>3. EA!ReleaseWrite(p)
    BY <2>1, <2>2 DEF EA!ReleaseWrite
  <2>4. QED
    BY <2>3 DEF AStep, EA!ANext
<1>2. CASE role[p] = "secondary"
  <2>1. lock # p /\ lock' = lock
    BY <1>2 DEF LockHeldByPrimary
  <2>2. readersBar[p] # 0
    BY <1>2 DEF readersBar, TypeInv, ViewInLog
  <2>3. readersBar' = [readersBar EXCEPT ![p] = 0]
    BY DEF readersBar, TypeInv, TypeOK
  <2>4. EA!CloseReader(p)
    BY <2>1, <2>2, <2>3 DEF EA!CloseReader
  <2>5. QED
    BY <2>4 DEF AStep, EA!ANext
<1>3. QED
  BY <1>1, <1>2 DEF TypeInv, TypeOK

LEMMA NextRefines ==
    ASSUME TypeInv, LockHeldByPrimary, [Next]_vars
    PROVE  AStep
<1>1. CASE Next
  <2> PICK p \in Procs :
        \/ \E o \in OverrideInputs : OpenReadWrite(p, o)
        \/ \E b \in BOOLEAN : OpenReadOnly(p, b)
        \/ \E t \in Tables, k \in Keys, b \in BOOLEAN : Write(p, t, k, b)
        \/ \E w \in Threads :
            \/ \E n \in Tables \cup {UnknownName} : BeginCall(p, w, "count", n, 0, 0)
            \/ \E n \in Tables, ps \in PageSizes, pn \in PageNumbers :
                  BeginCall(p, w, "dump", n, ps, pn)
            \/ BeginCall(p, w, "dump", UnknownName, 0, 0)
        \/ \E w \in Threads : FinishCall(p, w)
        \/ Close(p)
        \/ Crash(p)
    BY <1>1 DEF Next
  <2>1. CASE \E w \in Threads :
               \/ \E n \in Tables \cup {UnknownName} : BeginCall(p, w, "count", n, 0, 0)
               \/ \E n \in Tables, ps \in PageSizes, pn \in PageNumbers :
                     BeginCall(p, w, "dump", n, ps, pn)
               \/ BeginCall(p, w, "dump", UnknownName, 0, 0)
    BY <2>1, BeginCallRefines
  <2>2. CASE \E w \in Threads : FinishCall(p, w)
    BY <2>2, MappedStutter DEF FinishCall
  <2>3. CASE Close(p) \/ Crash(p)
    BY <2>3, ReleaseRefines DEF Close, Crash
  <2>4. CASE \E o \in OverrideInputs : OpenReadWrite(p, o)
    BY <2>4, OpenReadWriteRefines
  <2>5. CASE \E b \in BOOLEAN : OpenReadOnly(p, b)
    BY <2>5, OpenReadOnlyRefines
  <2>6. CASE \E t \in Tables, k \in Keys, b \in BOOLEAN : Write(p, t, k, b)
    BY <2>6, WriteRefines
  <2>7. QED
    BY <2>1, <2>2, <2>3, <2>4, <2>5, <2>6
<1>2. CASE UNCHANGED vars
  BY <1>2, MappedStutter DEF vars
<1>3. QED
  BY <1>1, <1>2

(* The detailed protocol of the generated opens and introspection calls    *)
(* implements the abstract promise of spec sections 4.3 and 5: a single    *)
(* writer owning an append-only history, and readers that open at its      *)
(* latest state and only ever catch up forward.                            *)
THEOREM Refinement == Spec => ImplementsEngineAccess
<1>1. Init => EA!AInit
  BY DEF Init, EA!AInit, readersBar
<1>2. TypeInv /\ LockHeldByPrimary /\ [Next]_vars => AStep
  BY NextRefines
<1>3. Spec => [](TypeInv /\ LockHeldByPrimary)
  BY InitTypeInv, InitLock, NextTypeInv, NextLock, PTL DEF Spec
<1>4. QED
  BY <1>1, <1>2, <1>3, PTL DEF Spec, ImplementsEngineAccess, EA!ASpec, AStep
=============================================================================
