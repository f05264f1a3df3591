------------------------ MODULE ArtifactStore_proofs ------------------------
(***************************************************************************)
(* Theorems about ArtifactStore, for every set of processes and artifacts  *)
(* and for every bound.                                                    *)
(***************************************************************************)
EXTENDS ArtifactStore, TLAPS

LEMMA InitIInv == Init => IInv
<1> SUFFICES ASSUME Init PROVE IInv
  OBVIOUS
<1>1. TypeOK
  <2>1. 0 \in 0..MaxCrashes /\ 0 \in 0..MaxLosses
    BY BoundsAssumption
  <2>2. QED
    BY <2>1 DEF Init, TypeOK
<1>2. /\ RowsAreReadable /\ LoadsReturnWholeFiles /\ PromisedIsIndexed
      /\ SavesHaveTheirFile /\ RebuildsMissNothing
  BY DEF Init, RowsAreReadable, LoadsReturnWholeFiles, PromisedIsIndexed,
         SavesHaveTheirFile, RebuildsMissNothing
<1>3. QED
  BY <1>1, <1>2 DEF IInv

LEMMA TypeStep == TypeOK /\ [Next]_vars => TypeOK'
<1> SUFFICES ASSUME TypeOK, [Next]_vars PROVE TypeOK'
  OBVIOUS
<1> USE BoundsAssumption
    DEF TypeOK, Whole, Written, Goto, store, rebuild, bounds
<1>1. ASSUME NEW p \in Procs, NEW i \in Ids,
             OpenFile(p, i) \/ FetchRow(p, i) \/ WalkFinds(p, i) \/ ReadListed(p, i)
      PROVE  TypeOK'
  <2>1. CASE OpenFile(p, i)
    BY <2>1 DEF OpenFile
  <2>2. CASE FetchRow(p, i)
    BY <2>2 DEF FetchRow
  <2>3. CASE WalkFinds(p, i)
    BY <2>3 DEF WalkFinds
  <2>4. CASE ReadListed(p, i)
    BY <2>4 DEF ReadListed
  <2>5. QED
    BY <1>1, <2>1, <2>2, <2>3, <2>4
<1>2. ASSUME NEW p \in Procs, WriteFile(p) \/ UpsertRow(p) \/ ReadFile(p)
      PROVE  TypeOK'
  <2>1. CASE WriteFile(p)
    BY <2>1 DEF WriteFile
  <2>2. CASE UpsertRow(p)
    BY <2>2 DEF UpsertRow
  <2>3. CASE ReadFile(p)
    BY <2>3 DEF ReadFile
  <2>4. QED
    BY <1>2, <2>1, <2>2, <2>3
<1>3. ASSUME NEW p \in Procs, StartRebuild(p) \/ WalkEnds(p) \/ ReplaceRows(p)
      PROVE  TypeOK'
  <2>1. CASE StartRebuild(p)
    BY <2>1 DEF StartRebuild
  <2>2. CASE WalkEnds(p)
    BY <2>2 DEF WalkEnds
  <2>3. CASE ReplaceRows(p)
    BY <2>3 DEF ReplaceRows
  <2>4. QED
    BY <1>3, <2>1, <2>2, <2>3
<1>4. ASSUME NEW p \in Procs, SqliteRaises(p) \/ Crash(p) PROVE TypeOK'
  <2>1. crashes' \in 0..MaxCrashes
    BY <1>4 DEF SqliteRaises, Crash
  <2>2. QED
    BY <1>4, <2>1 DEF SqliteRaises, Crash
<1>5. CASE LoseIndex
  <2>1. losses' \in 0..MaxLosses
    BY <1>5 DEF LoseIndex
  <2>2. QED
    BY <1>5, <2>1 DEF LoseIndex
<1>6. CASE UNCHANGED vars
  BY <1>6 DEF vars
<1>7. QED
  BY <1>1, <1>2, <1>3, <1>4, <1>5, <1>6 DEF Next, Proceed

(* No step takes a whole file away: saves open fresh files only.  What the *)
(* index, a load or a rebuild has relied on stays true.                    *)
LEMMA WholeStaysWhole ==
  ASSUME TypeOK, [Next]_vars
  PROVE  Whole \subseteq Whole'
<1> USE DEF TypeOK, Whole
<1>1. ASSUME NEW p \in Procs, NEW i \in Ids, OpenFile(p, i)
      PROVE  Whole \subseteq Whole'
  BY <1>1 DEF OpenFile
<1>2. ASSUME NEW p \in Procs, WriteFile(p)
      PROVE  Whole \subseteq Whole'
  BY <1>2 DEF WriteFile
<1>3. CASE file' = file
  BY <1>3
<1>4. QED
  BY <1>1, <1>2, <1>3 DEF Next, Proceed, UpsertRow, ReadFile, WalkEnds,
     ReadListed, ReplaceRows, SqliteRaises, StartRebuild, FetchRow, WalkFinds,
     Crash, LoseIndex, vars, store

(* A save has its own file, a load and an upsert a whole one.              *)
LEMMA SavesStep ==
  ASSUME IInv, [Next]_vars
  PROVE  SavesHaveTheirFile'
<1> USE DEF IInv, TypeOK, SavesHaveTheirFile, RowsAreReadable, Whole, Goto,
            store, rebuild
<1>1. ASSUME NEW p \in Procs, NEW i \in Ids, OpenFile(p, i)
      PROVE  SavesHaveTheirFile'
  BY <1>1 DEF OpenFile
<1>2. ASSUME NEW p \in Procs, WriteFile(p) PROVE SavesHaveTheirFile'
  BY <1>2 DEF WriteFile
<1>3. ASSUME NEW p \in Procs, NEW i \in Ids, FetchRow(p, i)
      PROVE  SavesHaveTheirFile'
  BY <1>3 DEF FetchRow
<1>4. ASSUME NEW p \in Procs,
             \/ UpsertRow(p) \/ ReadFile(p) \/ StartRebuild(p) \/ WalkEnds(p)
             \/ ReplaceRows(p) \/ SqliteRaises(p) \/ Crash(p)
      PROVE  SavesHaveTheirFile'
  BY <1>4 DEF UpsertRow, ReadFile, StartRebuild, WalkEnds, ReplaceRows,
              SqliteRaises, Crash
<1>5. CASE UNCHANGED <<file, pc, id>>
  BY <1>5
<1>6. QED
  BY <1>1, <1>2, <1>3, <1>4, <1>5
     DEF Next, Proceed, WalkFinds, ReadListed, LoseIndex, vars

(* A rebuild will have read every file that was whole when it started.     *)
LEMMA RebuildsStep ==
  ASSUME IInv, [Next]_vars
  PROVE  RebuildsMissNothing'
<1>w. Whole \subseteq Whole'
  BY WholeStaysWhole DEF IInv
<1> USE DEF IInv, TypeOK, RebuildsMissNothing, Goto, store, rebuild
<1>1. ASSUME NEW p \in Procs, StartRebuild(p) PROVE RebuildsMissNothing'
  BY <1>1 DEF StartRebuild, Whole, Written
<1>2. ASSUME NEW p \in Procs, NEW i \in Ids, WalkFinds(p, i)
      PROVE  RebuildsMissNothing'
  BY <1>2, <1>w DEF WalkFinds
<1>3. ASSUME NEW p \in Procs, NEW i \in Ids, ReadListed(p, i)
      PROVE  RebuildsMissNothing'
  BY <1>3, <1>w DEF ReadListed
<1>4. ASSUME NEW p \in Procs, NEW i \in Ids, OpenFile(p, i) \/ FetchRow(p, i)
      PROVE  RebuildsMissNothing'
  BY <1>4, <1>w DEF OpenFile, FetchRow
<1>5. ASSUME NEW p \in Procs,
             \/ WriteFile(p) \/ UpsertRow(p) \/ ReadFile(p) \/ WalkEnds(p)
             \/ ReplaceRows(p) \/ SqliteRaises(p) \/ Crash(p)
      PROVE  RebuildsMissNothing'
  BY <1>5, <1>w DEF WriteFile, UpsertRow, ReadFile, WalkEnds, ReplaceRows,
                    SqliteRaises, Crash
<1>6. CASE UNCHANGED <<pc, rebuild>>
  BY <1>6, <1>w
<1>7. QED
  BY <1>1, <1>2, <1>3, <1>4, <1>5, <1>6 DEF Next, Proceed, LoseIndex, vars

LEMMA IndexStep ==
  ASSUME IInv, [Next]_vars
  PROVE  RowsAreReadable' /\ PromisedIsIndexed'
<1>w. Whole \subseteq Whole'
  BY WholeStaysWhole DEF IInv
<1> USE DEF IInv, RowsAreReadable, PromisedIsIndexed
<1>1. ASSUME NEW p \in Procs, UpsertRow(p)
      PROVE  RowsAreReadable' /\ PromisedIsIndexed'
  BY <1>1 DEF UpsertRow, SavesHaveTheirFile, TypeOK, Whole
<1>2. ASSUME NEW p \in Procs, ReplaceRows(p)
      PROVE  RowsAreReadable' /\ PromisedIsIndexed'
  BY <1>2, <1>w DEF ReplaceRows, RebuildsMissNothing
<1>3. CASE LoseIndex
  BY <1>3 DEF LoseIndex
<1>4. CASE UNCHANGED <<rows, promised>>
  BY <1>4, <1>w
<1>5. QED
  BY <1>1, <1>2, <1>3, <1>4
     DEF Next, Proceed, OpenFile, WriteFile, FetchRow, ReadFile, StartRebuild,
         WalkFinds, WalkEnds, ReadListed, SqliteRaises, Crash, vars, store

LEMMA LoadsStep ==
  ASSUME IInv, [Next]_vars
  PROVE  LoadsReturnWholeFiles'
<1> USE DEF IInv, TypeOK, LoadsReturnWholeFiles
<1>1. ASSUME NEW p \in Procs, ReadFile(p) PROVE LoadsReturnWholeFiles'
  BY <1>1 DEF ReadFile, SavesHaveTheirFile
<1>2. ASSUME NEW p \in Procs, NEW i \in Ids, FetchRow(p, i)
      PROVE  LoadsReturnWholeFiles'
  BY <1>2 DEF FetchRow
<1>3. CASE UNCHANGED outcome
  BY <1>3
<1>4. QED
  BY <1>1, <1>2, <1>3
     DEF Next, Proceed, OpenFile, WriteFile, UpsertRow, StartRebuild,
         WalkFinds, WalkEnds, ReadListed, ReplaceRows, SqliteRaises, Crash,
         LoseIndex, vars

(* The inductive invariant: a row needs a whole file because the save that *)
(* adds it has written its file, the rebuild that adds it has read it, and *)
(* whole files stay; what is promised is indexed because a rebuild reads   *)
(* whatever was whole when it started.                                     *)
THEOREM StoreInductive == Spec => []IInv
<1>1. IInv /\ [Next]_vars => IInv'
  BY TypeStep, SavesStep, RebuildsStep, IndexStep, LoadsStep DEF IInv
<1>2. QED
  BY InitIInv, <1>1, PTL DEF Spec

(* TypeOK holds in every reachable state.                                  *)
THEOREM StoreTypeCorrect == Spec => []TypeOK
<1>1. IInv => TypeOK
  BY DEF IInv
<1>2. QED
  BY <1>1, StoreInductive, PTL

(* A row of the index always leads to a file that can be parsed.           *)
THEOREM RowsAlwaysReadable == Spec => []RowsAreReadable
<1>1. IInv => RowsAreReadable
  BY DEF IInv
<1>2. QED
  BY <1>1, StoreInductive, PTL

(* A load that finds a row returns the artifact, whatever happens to the   *)
(* index between its two reads.                                            *)
THEOREM LoadsAlwaysWhole == Spec => []LoadsReturnWholeFiles
<1>1. IInv => LoadsReturnWholeFiles
  BY DEF IInv
<1>2. QED
  BY <1>1, StoreInductive, PTL

(* Saves that returned and files that were whole before a rebuild started  *)
(* are in the index, until it is lost or replaced by an older rebuild.     *)
THEOREM PromisedAlwaysIndexed == Spec => []PromisedIsIndexed
<1>1. IInv => PromisedIsIndexed
  BY DEF IInv
<1>2. QED
  BY <1>1, StoreInductive, PTL
=============================================================================
