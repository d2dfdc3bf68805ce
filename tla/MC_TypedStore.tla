--------------------------- MODULE MC_TypedStore ---------------------------
(* A small instance of TypedStore: two openers, two threads each, two      *)
(* tables of at most two keys, a 3-bit usize and a 2-bit u16, so that      *)
(* page_number * page_size can exceed usize::MAX.                          *)
EXTENDS TypedStore, TLC

CONSTANTS ta, tb, o1, o2

(* None, a configurator-built map, and a hand-built map missing a table.  *)
MCOverrideInputs == {NoOverride, [t \in Tables |-> o1], [t \in {ta} |-> o2]}
MCPageSizes == {1, 2}
MCPageNumbers == {1, 4}
MCSymmetry == Permutations(Procs) \cup Permutations(Threads) \cup Permutations(ScratchDirs)
(* At most two dump or count_keys calls in flight at once.                  *)
MaxInFlight == 2
InFlightBound ==
    Cardinality({pw \in Procs \X Threads : call[pw[1]][pw[2]] # NoCall}) <= MaxInFlight
=============================================================================
