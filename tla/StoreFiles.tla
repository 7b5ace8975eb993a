----------------------------- MODULE StoreFiles -----------------------------
(* The files of one imported dictionary (store.cpp): the database, its key   *)
(* filter, and the staged copies of both that an import leaves when it finds *)
(* the database open.  A file is the number of the import that wrote it.     *)
EXTENDS Naturals

CONSTANT MaxImports   \* bound: the imports a behaviour starts

ASSUME MaxImportsAssumption == MaxImports \in Nat

Absent == 0
Import == 1 .. MaxImports
File == Import \cup {Absent}

Files == [db : File, keys : File, stagedDb : File, stagedKeys : File]
NoFiles == [db |-> Absent, keys |-> Absent, stagedDb |-> Absent, stagedKeys |-> Absent]

(* An open Store keeps the database and the filter it mapped; `keys` is      *)
(* Absent for a Store opened without a filter.                               *)
Store == [db : Import, keys : File]
NoStore == [db |-> Absent, keys |-> Absent]
Opened(f) == [db |-> f.db, keys |-> f.keys]

(* What the set `open` of Stores keeps from being replaced or deleted.       *)
DbBusy(open) == open # {}
KeysBusy(open) == \E s \in open : s.keys # Absent

HasStaged(f) == f.stagedDb # Absent \/ f.stagedKeys # Absent

(* The import a lookup should read once the staged files are in place.       *)
Newest(f) == IF f.stagedDb # Absent THEN f.stagedDb ELSE f.db

-----------------------------------------------------------------------------
(* promoteStagedStore(): the filter beside the database goes first, then the *)
(* staged database moves, then the staged filter.  It stops at the first     *)
(* file that is open.  No other failure is modelled.                         *)

(* Mutant: the filter beside the replaced database is kept.                  *)
PromoteKeepingFilter(f, open) ==
    IF f.stagedDb # Absent /\ DbBusy(open) THEN f
    ELSE [db |-> IF f.stagedDb # Absent THEN f.stagedDb ELSE f.db,
          keys |-> IF f.stagedKeys # Absent THEN f.stagedKeys ELSE f.keys,
          stagedDb |-> Absent, stagedKeys |-> Absent]

Promote(f, open) ==
    LET filterless == IF f.stagedDb # Absent /\ ~KeysBusy(open)
                      THEN [f EXCEPT !.keys = Absent] ELSE f
        moved == IF f.stagedDb # Absent /\ ~KeysBusy(open) /\ ~DbBusy(open)
                 THEN [filterless EXCEPT !.db = f.stagedDb, !.stagedDb = Absent]
                 ELSE filterless
    IN IF moved.stagedDb = Absent /\ f.stagedKeys # Absent /\ ~KeysBusy(open)
       THEN [moved EXCEPT !.keys = f.stagedKeys, !.stagedKeys = Absent]
       ELSE moved

PromotePending(f, open) == HasStaged(Promote(f, open))

(* removeStoreFiles(): every file that is not open goes, in one call.        *)
RemoveFiles(f, open) ==
    [NoFiles EXCEPT !.db = IF DbBusy(open) THEN f.db ELSE Absent,
                    !.keys = IF KeysBusy(open) THEN f.keys ELSE Absent]

RemovePending(f, open) == RemoveFiles(f, open) # NoFiles
=============================================================================
