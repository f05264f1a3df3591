------------------------ MODULE CuratedBatches_proofs ------------------------
(***************************************************************************)
(* Every property of CuratedBatches that its runs check, for every value   *)
(* of the constants its assumptions allow: any trees, edits and crashes,   *)
(* any contents and any finite registry of families.                       *)
(*                                                                         *)
(* Two invariants carry them.  TreeOK says what a place for a batch holds, *)
(* and OutputsOK what a distillation has still to write; the other         *)
(* properties hold of any tree that is TreeOK, because of what the two     *)
(* readers do with a finite set of records.                                *)
(*                                                                         *)
(* Python's max and sum are a CHOOSE and a recursive function of the model, *)
(* and what they return is shown without induction over data: by a         *)
(* smallest set, among the subsets of a finite set, where it would fail    *)
(* (SmallestExists).                                                       *)
(***************************************************************************)
EXTENDS CuratedBatches, FiniteSetTheorems, SequenceTheorems, TLAPS

-----------------------------------------------------------------------------
(* Ranks and places: tuples of numbers in lexicographic order. *)

Ranks == Nat \X Nat \X Nat \X Nat
AllPlaces == Nat \X Nat

LEMMA RankBelow ==
  ASSUME NEW a \in Ranks, NEW b \in Ranks
  PROVE  Below(a, b) <=>
           \/ a[1] < b[1]
           \/ a[1] = b[1] /\ a[2] < b[2]
           \/ a[1] = b[1] /\ a[2] = b[2] /\ a[3] < b[3]
           \/ a[1] = b[1] /\ a[2] = b[2] /\ a[3] = b[3] /\ a[4] < b[4]
<1>1. DOMAIN a = 1..4
  BY DEF Ranks
<1>2. Below(a, b) <=> \/ a[1] < b[1] /\ \A j \in 1..0 : a[j] = b[j]
                      \/ a[2] < b[2] /\ \A j \in 1..1 : a[j] = b[j]
                      \/ a[3] < b[3] /\ \A j \in 1..2 : a[j] = b[j]
                      \/ a[4] < b[4] /\ \A j \in 1..3 : a[j] = b[j]
  BY <1>1 DEF Below
<1> QED BY <1>2

LEMMA PlaceBelow ==
  ASSUME NEW a \in AllPlaces, NEW b \in AllPlaces
  PROVE  Below(a, b) <=> a[1] < b[1] \/ (a[1] = b[1] /\ a[2] < b[2])
<1>1. DOMAIN a = 1..2
  BY DEF AllPlaces
<1>2. Below(a, b) <=> \/ a[1] < b[1] /\ \A j \in 1..0 : a[j] = b[j]
                      \/ a[2] < b[2] /\ \A j \in 1..1 : a[j] = b[j]
  BY <1>1 DEF Below
<1> QED BY <1>2

(* The order is strict and total. *)
LEMMA RanksOrdered ==
  /\ \A a \in Ranks : ~Below(a, a)
  /\ \A a, b, c \in Ranks : Below(a, b) /\ Below(b, c) => Below(a, c)
  /\ \A a, b \in Ranks : a # b => Below(a, b) \/ Below(b, a)
<1>1. ASSUME NEW a \in Ranks
      PROVE  /\ a[1] \in Nat /\ a[2] \in Nat /\ a[3] \in Nat /\ a[4] \in Nat
             /\ a = <<a[1], a[2], a[3], a[4]>>
  BY DEF Ranks
<1>2. \A a \in Ranks : ~Below(a, a)
  BY <1>1, RankBelow
<1>3. ASSUME NEW a \in Ranks, NEW b \in Ranks, NEW c \in Ranks, Below(a, b), Below(b, c)
      PROVE  Below(a, c)
  BY <1>1, <1>3, RankBelow
<1>4. ASSUME NEW a \in Ranks, NEW b \in Ranks, ~Below(a, b), ~Below(b, a)
      PROVE  a = b
  <2>1. a[1] = b[1] /\ a[2] = b[2] /\ a[3] = b[3] /\ a[4] = b[4]
    BY <1>1, <1>4, RankBelow
  <2> QED BY <1>1, <2>1
<1> QED BY <1>2, <1>3, <1>4

LEMMA PlacesOrdered ==
  /\ \A a \in AllPlaces : ~Below(a, a)
  /\ \A a, b, c \in AllPlaces : Below(a, b) /\ Below(b, c) => Below(a, c)
<1>1. ASSUME NEW a \in AllPlaces
      PROVE  a[1] \in Nat /\ a[2] \in Nat
  BY DEF AllPlaces
<1>2. \A a \in AllPlaces : ~Below(a, a)
  BY <1>1, PlaceBelow
<1>3. ASSUME NEW a \in AllPlaces, NEW b \in AllPlaces, NEW c \in AllPlaces,
             Below(a, b), Below(b, c)
      PROVE  Below(a, c)
  BY <1>1, <1>3, PlaceBelow
<1> QED BY <1>2, <1>3

(* Among the subsets of a finite set that are of some kind is a smallest: *)
(* what the library's induction over finite sets says, for a set of sets. *)
LEMMA SmallestExists ==
  ASSUME NEW S, IsFiniteSet(S), NEW Kind \in SUBSET SUBSET S, Kind # {}
  PROVE  \E U \in Kind : \A V \in Kind : V \subseteq U => V = U
<1> DEFINE R == StrictSubsetOrdering(S)
<1>1. IsWellFoundedOn(R, SUBSET S)
  <2>1. FiniteSubsetsOf(S) = SUBSET S
    BY FS_FiniteSubsetsOfFinite
  <2>2. IsWellFoundedOn(R, FiniteSubsetsOf(S))
    BY FS_StrictSubsetOrderingWellFounded
  <2> QED BY <2>1, <2>2
<1>2. PICK U \in Kind : \A V \in Kind : <<V, U>> \notin R
  <2> HIDE DEF R
  <2> QED BY <1>1, WFMin
<1>3. ASSUME NEW V \in Kind, V \subseteq U, V # U
      PROVE  FALSE
  BY <1>2, <1>3 DEF StrictSubsetOrdering
<1> QED BY <1>3

(* A strict order on a finite set has a maximal element: one whose set of *)
(* greater elements is smallest has none.                                 *)
LEMMA MaximalExists ==
  ASSUME NEW S, IsFiniteSet(S), S # {}, NEW Less \in SUBSET (S \X S),
         \A x \in S : <<x, x>> \notin Less,
         \A x, y, z \in S : <<x, y>> \in Less /\ <<y, z>> \in Less => <<x, z>> \in Less
  PROVE  \E x \in S : \A y \in S : <<x, y>> \notin Less
<1> DEFINE Up(x) == {y \in S : <<x, y>> \in Less}
           Ups == {Up(x) : x \in S}
<1>1. Ups \in SUBSET SUBSET S /\ Ups # {}
  <2>1. PICK x \in S : TRUE
    OBVIOUS
  <2>2. Up(x) \in Ups
    BY <2>1
  <2>3. ASSUME NEW U \in Ups
        PROVE  U \in SUBSET S
    <3>1. PICK y \in S : U = Up(y)
      BY <2>3
    <3> QED BY <3>1
  <2> HIDE DEF Ups
  <2> QED BY <2>2, <2>3
<1>2. PICK U \in Ups : \A V \in Ups : V \subseteq U => V = U
  <2> HIDE DEF Ups
  <2> QED BY <1>1, SmallestExists
<1>3. PICK x \in S : U = Up(x)
  BY <1>2
<1>4. ASSUME NEW y \in S, <<x, y>> \in Less
      PROVE  FALSE
  <2>1. Up(y) \subseteq Up(x)
    BY <1>4
  <2>2. y \in Up(x) /\ y \notin Up(y)
    BY <1>4
  <2>3. Up(y) \in Ups
    BY ZenonT(30)
  <2> QED BY <1>2, <1>3, <2>1, <2>2, <2>3
<1> QED BY <1>4

LEMMA ImageFinite ==
  ASSUME NEW S, IsFiniteSet(S), NEW f, DOMAIN f = S, NEW T, \A y \in T : \E x \in S : y = f[x]
  PROVE  IsFiniteSet(T)
<1> DEFINE image == {f[x] : x \in S}
           g == [x \in S |-> f[x]]
<1>1. g \in Surjection(S, image)
  BY DEF Surjection
<1>2. IsFiniteSet(image)
  <2> HIDE DEF g, image
  <2> QED BY <1>1, FS_Surjection
<1>3. T \in SUBSET image
  OBVIOUS
<1> HIDE DEF image
<1> QED BY <1>2, <1>3, FS_Subset

LEMMA MaxExists ==
  ASSUME NEW T \in SUBSET Nat, IsFiniteSet(T), T # {}
  PROVE  Max(T) \in T /\ \A x \in T : x <= Max(T)
<1> DEFINE Less == {p \in T \X T : p[1] < p[2]}
<1>1. \A x, y \in T : <<x, y>> \in Less <=> x < y
  OBVIOUS
<1>2. \E x \in T : \A y \in T : <<x, y>> \notin Less
  <2>1. \A x \in T : <<x, x>> \notin Less
    BY <1>1
  <2>2. \A x, y, z \in T : <<x, y>> \in Less /\ <<y, z>> \in Less => <<x, z>> \in Less
    BY <1>1
  <2>3. Less \in SUBSET (T \X T)
    OBVIOUS
  <2> HIDE DEF Less
  <2> QED BY <2>1, <2>2, <2>3, MaximalExists
<1> HIDE DEF Less
<1>3. PICK x \in T : \A y \in T : <<x, y>> \notin Less
  BY <1>2
<1>4. \A y \in T : ~(x < y)
  BY <1>1, <1>3
<1>5. \A y \in T : x >= y
  BY <1>4
<1> QED BY <1>5 DEF Max

(* What max returns: one of the values, and none is ranked higher. *)
LEMMA HighestOccurrence ==
  ASSUME NEW S, IsFiniteSet(S), S # {}, \A x \in S : OccurrenceRank(x) \in Ranks
  PROVE  /\ Highest(S, OccurrenceRank) \in S
         /\ \A y \in S : ~Below(OccurrenceRank(Highest(S, OccurrenceRank)), OccurrenceRank(y))
<1> DEFINE Less == {p \in S \X S : Below(OccurrenceRank(p[1]), OccurrenceRank(p[2]))}
<1>1. \A x, y \in S : <<x, y>> \in Less <=> Below(OccurrenceRank(x), OccurrenceRank(y))
  OBVIOUS
<1>2. \E x \in S : \A y \in S : <<x, y>> \notin Less
  <2>1. \A x \in S : <<x, x>> \notin Less
    BY <1>1, RanksOrdered
  <2>2. \A x, y, z \in S : <<x, y>> \in Less /\ <<y, z>> \in Less => <<x, z>> \in Less
    BY <1>1, RanksOrdered
  <2>3. Less \in SUBSET (S \X S)
    OBVIOUS
  <2> HIDE DEF Less
  <2> QED BY <2>1, <2>2, <2>3, MaximalExists
<1>3. \E x \in S : \A y \in S : ~Below(OccurrenceRank(x), OccurrenceRank(y))
  BY <1>1, <1>2
<1> QED BY <1>3 DEF Highest

LEMMA HighestMerged ==
  ASSUME NEW S, IsFiniteSet(S), S # {}, \A x \in S : MergedRank(x) \in Ranks
  PROVE  /\ Highest(S, MergedRank) \in S
         /\ \A y \in S : ~Below(MergedRank(Highest(S, MergedRank)), MergedRank(y))
<1> DEFINE Less == {p \in S \X S : Below(MergedRank(p[1]), MergedRank(p[2]))}
<1>1. \A x, y \in S : <<x, y>> \in Less <=> Below(MergedRank(x), MergedRank(y))
  OBVIOUS
<1>2. \E x \in S : \A y \in S : <<x, y>> \notin Less
  <2>1. \A x \in S : <<x, x>> \notin Less
    BY <1>1, RanksOrdered
  <2>2. \A x, y, z \in S : <<x, y>> \in Less /\ <<y, z>> \in Less => <<x, z>> \in Less
    BY <1>1, RanksOrdered
  <2>3. Less \in SUBSET (S \X S)
    OBVIOUS
  <2> HIDE DEF Less
  <2> QED BY <2>1, <2>2, <2>3, MaximalExists
<1>3. \E x \in S : \A y \in S : ~Below(MergedRank(x), MergedRank(y))
  BY <1>1, <1>2
<1> QED BY <1>3 DEF Highest

-----------------------------------------------------------------------------
(* The files.  A place for a batch holds a batch, whole or in part; and what *)
(* a run has still to write ends in the manifest and names every file that   *)
(* is not yet of this run.                                                   *)

Manifests ==
  [id : Nat, version : Nat, created : Nat, zoned : BOOLEAN, declared : Seq(Texts),
   fits : BOOLEAN]
Batches ==
  [jsonl : BOOLEAN, items : Seq(Texts) \cup {Absent, Torn},
   manifest : Manifests \cup {Absent, Torn}]
Initializations == [slot : Slots, next : {"items", "manifest"}, manifest : Manifests]

TreeOK ==
  /\ tree \in [Slots -> Batches]
  /\ pending # Absent => pending \in Initializations

Files == Range(Outputs) \cup {"manifest"}

OutputsOK ==
  /\ DOMAIN outputs = Range(Outputs)
  /\ manifest \notin {Absent, Torn} =>
       \A f \in Range(Outputs) : manifest.hashes[f] = manifest.run
  /\ written \in Seq(Files)
  /\ written # <<>> =>
       /\ written[Len(written)] = "manifest"
       /\ \A i \in 1..Len(written) - 1 : written[i] \in Range(Outputs)
       /\ \A f \in Range(Outputs) :
            (\A i \in 1..Len(written) : written[i] # f) => outputs[f] = runs

LEMMA BatchFields ==
  ASSUME NEW b
  PROVE  b \in Batches <=>
           /\ b = [jsonl |-> b.jsonl, items |-> b.items, manifest |-> b.manifest]
           /\ b.jsonl \in BOOLEAN
           /\ b.items \in Seq(Texts) \/ b.items \in {Absent, Torn}
           /\ b.manifest \in Manifests \/ b.manifest \in {Absent, Torn}
BY DEF Batches

LEMMA ManifestTyped ==
  ASSUME NEW id \in BatchIds, NEW v \in Versions, NEW l \in Templates
  PROVE  Manifest(id, v, Now, TRUE, l) \in Manifests
BY OrderAssumption, ListsAssumption, StampAssumption DEF Manifest, Manifests

LEMMA HandWrittenTyped ==
  ASSUME NEW s \in Slots, NEW b \in HandWritten[s]
  PROVE  b \in Batches
BY HandWrittenAssumption, StampAssumption DEF Batches, Manifests

LEMMA TreeInit == Init => TreeOK
<1> SUFFICES ASSUME Init
             PROVE  TreeOK
  OBVIOUS
<1>1. NoBatch \in Batches
  BY DEF NoBatch, Batches
<1>2. \A s \in Slots : tree[s] \in Batches
  BY <1>1, HandWrittenTyped DEF Init
<1>3. tree \in [Slots -> Batches]
  BY <1>2 DEF Init
<1> QED BY <1>3 DEF Init, TreeOK

LEMMA TreeStep == TreeOK /\ [Next]_vars => TreeOK'
<1> SUFFICES ASSUME TreeOK, [Next]_vars
             PROVE  TreeOK'
  OBVIOUS
<1>1. ASSUME NEW s \in Slots, NEW b \in Batches, tree' = [tree EXCEPT ![s] = b]
      PROVE  tree' \in [Slots -> Batches]
  BY <1>1 DEF TreeOK
<1>2. ASSUME NEW s \in Slots, InitializeBatch(s)
      PROVE  TreeOK'
  <2>1. /\ tree' = tree /\ tree \in [Slots -> Batches]
        /\ \E id \in BatchIds, v \in Versions, l \in Templates :
             pending' = [slot |-> s, next |-> "items", manifest |-> Manifest(id, v, Now, TRUE, l)]
    BY <1>2, Zenon DEF InitializeBatch, TreeOK
  <2>2. PICK id \in BatchIds, v \in Versions, l \in Templates :
          pending' = [slot |-> s, next |-> "items", manifest |-> Manifest(id, v, Now, TRUE, l)]
    BY <2>1, Zenon
  <2>3. PICK m \in Manifests : pending' = [slot |-> s, next |-> "items", manifest |-> m]
    BY <2>2, ManifestTyped, Zenon
  <2>4. pending' \in Initializations
    BY <2>3 DEF Initializations
  <2> QED BY <2>1, <2>4 DEF TreeOK
<1>3. ASSUME NEW s \in Slots, AuthorEdits(s)
      PROVE  TreeOK'
  <2>1. CASE \E l \in Lists : tree' = [tree EXCEPT ![s].items = l]
    <3>1. PICK l \in Lists : tree' = [tree EXCEPT ![s].items = l]
      BY <2>1
    <3>2. l \in Seq(Texts) /\ tree[s] \in Batches /\ tree \in [Slots -> Batches]
      BY ListsAssumption DEF TreeOK
    <3>3. [tree[s] EXCEPT !.items = l] \in Batches
      BY <3>2 DEF Batches
    <3>4. tree' = [tree EXCEPT ![s] = [tree[s] EXCEPT !.items = l]]
      BY <3>1, <3>2
    <3> QED BY <1>1, <1>3, <3>3, <3>4 DEF AuthorEdits, TreeOK
  <2>2. CASE /\ tree[s].manifest \notin {Absent, Torn}
             /\ \E l \in Lists :
                  tree' = [tree EXCEPT ![s] = [@ EXCEPT !.items = l, !.manifest.declared = l]]
    <3>1. PICK l \in Lists :
            tree' = [tree EXCEPT ![s] = [@ EXCEPT !.items = l, !.manifest.declared = l]]
      BY <2>2
    <3>2. l \in Seq(Texts) /\ tree[s] \in Batches /\ tree \in [Slots -> Batches]
      BY ListsAssumption DEF TreeOK
    <3>3. /\ tree[s] = [jsonl |-> tree[s].jsonl, items |-> tree[s].items,
                        manifest |-> tree[s].manifest]
          /\ tree[s].jsonl \in BOOLEAN /\ tree[s].manifest \in Manifests
      BY <2>2, <3>2, BatchFields
    <3>4. [tree[s] EXCEPT !.items = l, !.manifest.declared = l] \in Batches
      BY <3>2, <3>3 DEF Batches, Manifests
    <3>5. tree' = [tree EXCEPT ![s] = [tree[s] EXCEPT !.items = l, !.manifest.declared = l]]
      BY <3>1, <3>2
    <3> QED BY <1>1, <1>3, <3>4, <3>5 DEF AuthorEdits, TreeOK
  <2>3. CASE /\ tree[s].manifest \notin {Absent, Torn}
             /\ tree' = [tree EXCEPT ![s].manifest.fits = FALSE]
    <3>1. tree[s] \in Batches /\ tree \in [Slots -> Batches]
      BY DEF TreeOK
    <3>2. /\ tree[s] = [jsonl |-> tree[s].jsonl, items |-> tree[s].items,
                        manifest |-> tree[s].manifest]
          /\ tree[s].jsonl \in BOOLEAN /\ tree[s].manifest \in Manifests
      BY <2>3, <3>1, BatchFields
    <3>3. [tree[s] EXCEPT !.manifest.fits = FALSE] \in Batches
      BY <3>1, <3>2 DEF Batches, Manifests
    <3>4. tree' = [tree EXCEPT ![s] = [tree[s] EXCEPT !.manifest.fits = FALSE]]
      BY <2>3, <3>1
    <3> QED BY <1>1, <1>3, <3>3, <3>4 DEF AuthorEdits, TreeOK
  <2> QED BY <1>3, <2>1, <2>2, <2>3 DEF AuthorEdits
<1>4. ASSUME NEW l \in Seq(Texts) \cup {Torn}, pending \in Initializations,
             WriteItems(l)
      PROVE  tree' \in [Slots -> Batches]
  <2>1. CASE tree[pending.slot].jsonl
    BY <1>4, <2>1 DEF WriteItems, TreeOK
  <2>2. CASE ~tree[pending.slot].jsonl
    <3> DEFINE s == pending.slot
               b == [tree[s] EXCEPT !.items = l]
    <3>1. s \in Slots /\ tree[s] \in Batches /\ tree \in [Slots -> Batches]
      BY <1>4 DEF Initializations, TreeOK
    <3>2. b \in Batches
      BY <3>1 DEF Batches
    <3>3. tree' = [tree EXCEPT ![s] = b]
      BY <1>4, <2>2, <3>1 DEF WriteItems
    <3> QED BY <1>1, <3>1, <3>2, <3>3
  <2> QED BY <2>1, <2>2
<1>5. CASE WriteItemsFile
  <2>1. pending \in Initializations /\ pending.manifest.declared \in Seq(Texts)
    BY <1>5 DEF WriteItemsFile, TreeOK, Initializations, Manifests
  <2>2. tree' \in [Slots -> Batches]
    BY <1>4, <1>5, <2>1 DEF WriteItemsFile
  <2>3. pending' \in Initializations
    BY <1>5, <2>1 DEF WriteItemsFile, Initializations
  <2> QED BY <2>2, <2>3 DEF TreeOK
<1>6. CASE WriteManifestFile
  <2> DEFINE b == [jsonl |-> FALSE, items |-> pending.manifest.declared,
                   manifest |-> pending.manifest]
  <2>1. /\ pending.slot \in Slots /\ pending.manifest \in Manifests
        /\ pending.manifest.declared \in Seq(Texts)
    BY <1>6 DEF WriteManifestFile, TreeOK, Initializations, Manifests
  <2>2. b \in Batches
    BY <2>1 DEF Batches
  <2>3. tree' \in [Slots -> Batches]
    BY <1>1, <1>6, <2>1, <2>2 DEF WriteManifestFile
  <2> QED BY <1>6, <2>3 DEF WriteManifestFile, TreeOK
<1>7. CASE CrashAuthoring
  <2>1. pending \in Initializations /\ pending' = Absent
    BY <1>7 DEF CrashAuthoring, TreeOK
  <2>2. CASE UNCHANGED tree
    BY <2>1, <2>2 DEF TreeOK
  <2>3. CASE WriteItems(Torn)
    BY <1>4, <2>1, <2>3 DEF TreeOK
  <2>4. CASE tree' = [tree EXCEPT ![pending.slot].manifest = Torn]
    <3> DEFINE s == pending.slot
               b == [tree[s] EXCEPT !.manifest = Torn]
    <3>1. s \in Slots /\ tree[s] \in Batches /\ tree \in [Slots -> Batches]
      BY <2>1 DEF Initializations, TreeOK
    <3>2. b \in Batches
      BY <3>1 DEF Batches
    <3>3. tree' = [tree EXCEPT ![s] = b]
      BY <2>4, <3>1
    <3> QED BY <1>1, <2>1, <3>1, <3>2, <3>3 DEF TreeOK
  <2> QED BY <1>7, <2>2, <2>3, <2>4 DEF CrashAuthoring
<1>8. CASE RunBatches \/ WriteOutput \/ CrashDistilling \/ UNCHANGED vars
  BY <1>8 DEF RunBatches, WriteOutput, CrashDistilling, vars, TreeOK
<1> QED BY <1>2, <1>3, <1>5, <1>6, <1>7, <1>8 DEF Next

LEMMA TreeAlwaysOK == Spec => []TreeOK
<1> QED BY TreeInit, TreeStep, PTL DEF Spec

(* The run: what is to be written. *)
LEMMA WriteOrderEnds ==
  LET n == Len(WriteOrder)
  IN /\ WriteOrder \in Seq(Files) /\ n \in Nat /\ WriteOrder[n] = "manifest"
     /\ \A i \in 1..n - 1 : WriteOrder[i] \in Range(Outputs)
     /\ \A f \in Range(Outputs) : \E i \in 1..n : WriteOrder[i] = f
<1>1. /\ Outputs \in Seq(Files) /\ Len(Outputs) \in Nat
      /\ DOMAIN Outputs = 1..Len(Outputs)
  <2>1. /\ Outputs = [i \in 1..Len(Outputs) |-> Outputs[i]]
        /\ Len(Outputs) \in Nat /\ DOMAIN Outputs = 1..Len(Outputs)
    BY OutputsAssumption
  <2>2. \A i \in 1..Len(Outputs) : Outputs[i] \in Files
    BY <2>1 DEF Range, Files
  <2> QED BY <2>1, <2>2
<1> DEFINE last == "manifest"
<1>0. last \in Files
  BY DEF Files
<1>2. /\ WriteOrder \in Seq(Files) /\ Len(WriteOrder) = Len(Outputs) + 1
      /\ WriteOrder[Len(Outputs) + 1] = last
      /\ \A i \in 1..Len(Outputs) : WriteOrder[i] = Outputs[i]
  <2> HIDE DEF last
  <2>1. WriteOrder = Append(Outputs, last)
    BY DEF WriteOrder, last
  <2> QED BY <1>0, <1>1, <2>1, AppendProperties
<1>3. \A i \in 1..Len(Outputs) : WriteOrder[i] \in Range(Outputs)
  BY <1>1, <1>2 DEF Range
<1>4. ASSUME NEW f \in Range(Outputs)
      PROVE  \E i \in 1..Len(WriteOrder) : WriteOrder[i] = f
  <2>1. PICK i \in 1..Len(Outputs) : Outputs[i] = f
    BY <1>1 DEF Range
  <2> QED BY <1>1, <1>2, <2>1
<1> QED BY <1>1, <1>2, <1>3, <1>4

LEMMA OutputsInit == Init => OutputsOK
BY DEF Init, OutputsOK

LEMMA OutputsStep == OutputsOK /\ [Next]_vars => OutputsOK'
<1> SUFFICES ASSUME OutputsOK, [Next]_vars
             PROVE  OutputsOK'
  OBVIOUS
<1>1. CASE RunBatches
  BY <1>1, WriteOrderEnds DEF RunBatches, OutputsOK
<1>2. CASE WriteOutput
  <2>1. /\ written \in Seq(Files) /\ Len(written) \in Nat \ {0}
        /\ Head(written) = written[1]
        /\ written' = Tail(written) /\ Len(written') = Len(written) - 1
        /\ \A i \in 1..Len(written) - 1 : written'[i] = written[i + 1]
        /\ written' \in Seq(Files) /\ runs' = runs
    BY <1>2 DEF WriteOutput, OutputsOK
  <2>2. CASE Head(written) = "manifest"
    <3>1. Len(written) = 1
      BY <1>2, <2>1, <2>2, OutputsAssumption DEF WriteOutput, OutputsOK
    <3>2. \A f \in Range(Outputs) : outputs[f] = runs
      BY <1>2, <2>1, <2>2, <3>1, OutputsAssumption DEF WriteOutput, OutputsOK
    <3>3. manifest' = [run |-> runs, hashes |-> outputs] /\ outputs' = outputs
      BY <1>2, <2>2 DEF WriteOutput
    <3>4. written' = <<>>
      BY <2>1, <3>1
    <3> QED BY <3>2, <3>3, <3>4 DEF OutputsOK
  <2>3. CASE Head(written) # "manifest"
    <3>1. /\ outputs' = [outputs EXCEPT ![Head(written)] = runs]
          /\ manifest' = manifest
      BY <1>2, <2>3 DEF WriteOutput
    <3>2. Len(written) > 1 /\ written[Len(written)] = "manifest"
      BY <1>2, <2>1, <2>3 DEF WriteOutput, OutputsOK
    <3>3. written'[Len(written')] = "manifest"
      BY <2>1, <3>2
    <3>4. \A i \in 1..Len(written') - 1 : written'[i] \in Range(Outputs)
      BY <1>2, <2>1, <3>2 DEF OutputsOK, WriteOutput
    <3>5. ASSUME NEW f \in Range(Outputs), \A i \in 1..Len(written') : written'[i] # f
          PROVE  outputs'[f] = runs
      <4>1. CASE f = Head(written)
        BY <3>1, <4>1 DEF OutputsOK
      <4>2. CASE f # Head(written)
        <5>1. ASSUME NEW i \in 1..Len(written), written[i] = f
              PROVE  FALSE
          <6>1. i # 1 /\ i - 1 \in 1..Len(written')
            BY <2>1, <4>2, <5>1
          <6>2. written'[i - 1] = written[i]
            BY <2>1, <6>1
          <6> QED BY <3>5, <5>1, <6>1, <6>2
        <5>2. outputs[f] = runs
          BY <1>2, <5>1 DEF WriteOutput, OutputsOK
        <5>3. outputs'[f] = outputs[f]
          BY <3>1, <4>2 DEF OutputsOK
        <5> QED BY <5>2, <5>3
      <4> QED BY <4>1, <4>2
    <3> QED BY <2>1, <3>1, <3>3, <3>4, <3>5 DEF OutputsOK
  <2> QED BY <2>2, <2>3
<1>3. CASE CrashDistilling
  BY <1>3 DEF CrashDistilling, OutputsOK
<1>4. CASE UNCHANGED <<outputs, manifest, written, runs>>
  BY <1>4 DEF OutputsOK
<1> QED BY <1>1, <1>2, <1>3, <1>4
    DEF Next, InitializeBatch, AuthorEdits, WriteItemsFile, WriteManifestFile,
        CrashAuthoring, vars

(* When every generated file has the hash that manifest.json lists, they are *)
(* all of the run that wrote it, however many runs died before               *)
(* (_run_records, generated_files).                                          *)
THEOREM ManifestAlwaysVouches == Spec => []ManifestVouches
<1>1. OutputsOK => ManifestVouches
  BY DEF OutputsOK, ManifestVouches
<1> QED BY <1>1, OutputsInit, OutputsStep, PTL DEF Spec

-----------------------------------------------------------------------------
(* The records that are read. *)

ItemIds == {Content[x].item : x \in Texts}
Records ==
  {r \in [at : AllPlaces, item : ItemIds, text : Texts,
          batch : Nat, version : Nat, created : Nat] : r.item = Content[r.text].item}

LEMMA RecordFields ==
  ASSUME NEW r \in Records
  PROVE  /\ r.at \in AllPlaces /\ r.text \in Texts /\ r.item = Content[r.text].item
         /\ r.batch \in Nat /\ r.version \in Nat /\ r.created \in Nat
         /\ OccurrenceRank(r) \in Ranks
<1>1. /\ r.at \in AllPlaces /\ r.text \in Texts /\ r.item = Content[r.text].item
      /\ r.batch \in Nat /\ r.version \in Nat /\ r.created \in Nat
  BY DEF Records
<1>2. r.text \in Nat
  BY <1>1, OrderAssumption
<1> QED BY <1>1, <1>2 DEF OccurrenceRank, Ranks

(* The date that is known of a batch. *)
Dated(m) == IF m.fits THEN m.created ELSE 0

LEMMA OccurrenceTyped ==
  ASSUME NEW t \in [Slots -> Batches], NEW s \in Found(t), Readable(t, s),
         NEW i \in DOMAIN t[s].items
  PROVE  /\ Occurrence(t, s, i) \in Records
         /\ Occurrence(t, s, i).text = t[s].items[i]
         /\ Occurrence(t, s, i).batch = t[s].manifest.id
         /\ Occurrence(t, s, i).version = t[s].manifest.version
         /\ Occurrence(t, s, i).created = Dated(t[s].manifest)
<1>1. s \in Slots /\ t[s] \in Batches
  BY DEF Found
<1>2. t[s].items \in Seq(Texts) /\ t[s].manifest \in Manifests
  BY <1>1, BatchFields DEF Readable, Found
<1>3. i \in Nat /\ t[s].items[i] \in Texts
  BY <1>2
<1>4. /\ t[s].manifest.id \in Nat /\ t[s].manifest.version \in Nat
      /\ Dated(t[s].manifest) \in Nat
  BY <1>2 DEF Manifests, Dated
<1>5. Content[t[s].items[i]].item \in ItemIds
  BY <1>3 DEF ItemIds
<1>6. <<s, i>> \in AllPlaces
  BY <1>1, <1>3, SlotsAssumption DEF AllPlaces
<1> QED BY <1>3, <1>4, <1>5, <1>6 DEF Occurrence, Records, Dated

LEMMA OccurrencesTyped ==
  ASSUME NEW t \in [Slots -> Batches], NEW S \in SUBSET Found(t), \A s \in S : Readable(t, s)
  PROVE  /\ Occurrences(t, S) \in SUBSET Records
         /\ IsFiniteSet(Occurrences(t, S))
         /\ \A r : r \in Occurrences(t, S) <=>
              \E s \in S : \E i \in DOMAIN t[s].items : r = Occurrence(t, s, i)
<1> DEFINE of(s) == {Occurrence(t, s, i) : i \in DOMAIN t[s].items}
           parts == {of(s) : s \in S}
<1>1. \A r : r \in Occurrences(t, S) <=>
        \E s \in S : \E i \in DOMAIN t[s].items : r = Occurrence(t, s, i)
  BY DEF Occurrences
<1>2. Occurrences(t, S) \in SUBSET Records
  BY <1>1, OccurrenceTyped
<1>3. ASSUME NEW s \in S
      PROVE  IsFiniteSet(of(s))
  <2>1. s \in Found(t) /\ Readable(t, s) /\ t[s] \in Batches
    BY DEF Found
  <2>2. t[s].items \in Seq(Texts)
    BY <2>1, BatchFields DEF Readable
  <2> DEFINE n == Len(t[s].items)
             f == [i \in 1..n |-> Occurrence(t, s, i)]
  <2>3. n \in Nat /\ DOMAIN t[s].items = 1..n
    BY <2>2
  <2>4. IsFiniteSet(1..n)
    BY <2>3, FS_Interval
  <2>5. \A y \in of(s) : \E i \in 1..n : y = f[i]
    BY <2>3
  <2>6. DOMAIN f = 1..n
    OBVIOUS
  <2> HIDE DEF of, f, n
  <2> QED BY <2>4, <2>5, <2>6, ImageFinite
<1>4. IsFiniteSet(S)
  BY SlotsAssumption, FS_Subset DEF Found
<1>5. IsFiniteSet(parts)
  <2> DEFINE f == [s \in S |-> of(s)]
  <2>1. DOMAIN f = S /\ \A y \in parts : \E s \in S : y = f[s]
    OBVIOUS
  <2> HIDE DEF f, parts
  <2> QED BY <1>4, <2>1, ImageFinite
<1>6. IsFiniteSet(UNION parts)
  <2>1. \A P \in parts : IsFiniteSet(P)
    BY <1>3
  <2> HIDE DEF parts
  <2> QED BY <1>5, <2>1, FS_UNION
<1>7. Occurrences(t, S) = UNION parts
  BY DEF Occurrences
<1> QED BY <1>1, <1>2, <1>6, <1>7

(* What the pipeline loads when loading does not fail. *)
LEMMA LoadedTyped ==
  ASSUME NEW t \in [Slots -> Batches], ~LoadFails(t)
  PROVE  /\ Loaded(t) \in SUBSET Records /\ IsFiniteSet(Loaded(t))
         /\ \A r : r \in Loaded(t) <=>
              \E s \in Found(t) : \E i \in DOMAIN t[s].items : r = Occurrence(t, s, i)
         /\ \A s \in Found(t) : Readable(t, s) /\ ~Malformed(t, s)
<1>1. \A s \in Found(t) : Readable(t, s) /\ ~Malformed(t, s)
  BY DEF LoadFails
<1>2. Found(t) \in SUBSET Found(t)
  OBVIOUS
<1> QED BY <1>1, <1>2, OccurrencesTyped DEF Loaded

(* What the workbench's scan finds to be sound, of any tree. *)
LEMMA SoundTyped ==
  ASSUME NEW t \in [Slots -> Batches]
  PROVE  /\ SoundOccurrences(t) \in SUBSET Records /\ IsFiniteSet(SoundOccurrences(t))
         /\ \A r : r \in SoundOccurrences(t) <=>
              \E s \in Found(t) :
                /\ Readable(t, s)
                /\ \E i \in DOMAIN t[s].items : r = Occurrence(t, s, i)
                /\ Content[r.text].schema /\ SoundText(r.text)
<1> DEFINE S == {s \in Found(t) : Readable(t, s)}
           all == Occurrences(t, S)
<1>1. /\ all \in SUBSET Records /\ IsFiniteSet(all)
      /\ \A r : r \in all <=>
           \E s \in S : \E i \in DOMAIN t[s].items : r = Occurrence(t, s, i)
  <2>1. S \in SUBSET Found(t) /\ \A s \in S : Readable(t, s)
    OBVIOUS
  <2> HIDE DEF S
  <2> QED BY <2>1, OccurrencesTyped
<1>2. SoundOccurrences(t) = {r \in all : Content[r.text].schema /\ SoundText(r.text)}
  BY DEF SoundOccurrences
<1> HIDE DEF all
<1>3. SoundOccurrences(t) \in SUBSET all
  BY <1>2
<1>4. IsFiniteSet(SoundOccurrences(t))
  BY <1>1, <1>3, FS_Subset
<1> QED BY <1>1, <1>2, <1>3, <1>4

-----------------------------------------------------------------------------
(* The two decisions, for any finite set of records. *)

LEMMA FirstLoadedExists ==
  ASSUME NEW S \in SUBSET Records, IsFiniteSet(S), S # {}
  PROVE  \E r \in S : \A q \in S : ~Below(q.at, r.at)
<1> DEFINE Less == {p \in S \X S : Below(p[2].at, p[1].at)}
<1>1. \A x, y \in S : <<x, y>> \in Less <=> Below(y.at, x.at)
  OBVIOUS
<1>2. \A x \in S : x.at \in AllPlaces
  BY RecordFields
<1>3. \A x \in S : <<x, x>> \notin Less
  BY <1>1, <1>2, PlacesOrdered
<1>4. \A x, y, z \in S : <<x, y>> \in Less /\ <<y, z>> \in Less => <<x, z>> \in Less
  BY <1>1, <1>2, PlacesOrdered
<1>5. Less \in SUBSET (S \X S)
  OBVIOUS
<1> HIDE DEF Less
<1>6. \E x \in S : \A y \in S : <<x, y>> \notin Less
  BY <1>3, <1>4, <1>5, MaximalExists
<1> QED BY <1>1, <1>6

LEMMA LastLoadedIn ==
  ASSUME NEW S \in SUBSET Records, IsFiniteSet(S), S # {}
  PROVE  LastLoaded(S) \in S
<1> DEFINE Less == {p \in S \X S : Below(p[1].at, p[2].at)}
<1>1. \A x, y \in S : <<x, y>> \in Less <=> Below(x.at, y.at)
  OBVIOUS
<1>2. \A x \in S : x.at \in AllPlaces
  BY RecordFields
<1>3. \A x \in S : <<x, x>> \notin Less
  BY <1>1, <1>2, PlacesOrdered
<1>4. \A x, y, z \in S : <<x, y>> \in Less /\ <<y, z>> \in Less => <<x, z>> \in Less
  BY <1>1, <1>2, PlacesOrdered
<1>5. Less \in SUBSET (S \X S)
  OBVIOUS
<1> HIDE DEF Less
<1>6. \E x \in S : \A y \in S : <<x, y>> \notin Less
  BY <1>3, <1>4, <1>5, MaximalExists
<1>7. \E x \in S : \A y \in S : ~Below(x.at, y.at)
  BY <1>1, <1>6
<1> QED BY <1>7 DEF LastLoaded, Highest

(* Some record is the first of all, hence the first with its value. *)
LEMMA LastMetTyped ==
  ASSUME NEW S \in SUBSET Records, IsFiniteSet(S), S # {}
  PROVE  /\ LastMet(S, LAMBDA r : r.batch) \in Nat
         /\ LastMet(S, LAMBDA r : r.version) \in Nat
<1>1. PICK first \in S : \A q \in S : ~Below(q.at, first.at)
  BY FirstLoadedExists
<1> DEFINE withBatch == {r \in S : \A q \in S : Below(q.at, r.at) => q.batch # r.batch}
           withVersion == {r \in S : \A q \in S : Below(q.at, r.at) => q.version # r.version}
<1>2. withBatch \in SUBSET S /\ withBatch # {}
  BY <1>1
<1>3. withVersion \in SUBSET S /\ withVersion # {}
  BY <1>1
<1>4. LastMet(S, LAMBDA r : r.batch) = LastLoaded(withBatch).batch
  BY DEF LastMet
<1>5. LastMet(S, LAMBDA r : r.version) = LastLoaded(withVersion).version
  BY DEF LastMet
<1> HIDE DEF withBatch, withVersion
<1>6. LastLoaded(withBatch) \in Records /\ LastLoaded(withVersion) \in Records
  <2>1. IsFiniteSet(withBatch) /\ IsFiniteSet(withVersion)
    BY <1>2, <1>3, FS_Subset
  <2>2. withBatch \in SUBSET Records /\ withVersion \in SUBSET Records
    BY <1>2, <1>3
  <2> QED BY <1>2, <1>3, <2>1, <2>2, LastLoadedIn
<1> QED BY <1>4, <1>5, <1>6, RecordFields

LEMMA LatestCreatedIs ==
  ASSUME NEW S \in SUBSET Records, IsFiniteSet(S), S # {}
  PROVE  /\ LatestCreated(S) \in Nat
         /\ \E r \in S : r.created = LatestCreated(S)
         /\ \A r \in S : r.created <= LatestCreated(S)
<1> DEFINE T == {r.created : r \in S}
           f == [r \in S |-> r.created]
<1>1. T \in SUBSET Nat /\ T # {}
  BY RecordFields
<1>2. IsFiniteSet(T)
  <2>1. DOMAIN f = S /\ \A y \in T : \E x \in S : y = f[x]
    OBVIOUS
  <2> HIDE DEF T, f
  <2> QED BY <2>1, ImageFinite
<1>3. Max(T) \in T /\ \A x \in T : x <= Max(T)
  <2> HIDE DEF T, f
  <2> QED BY <1>1, <1>2, MaxExists
<1>4. LatestCreated(S) = Max(T)
  BY DEF LatestCreated
<1> QED BY <1>1, <1>3, <1>4

LEMMA GroupFacts ==
  ASSUME NEW loaded \in SUBSET Records, IsFiniteSet(loaded), NEW item,
         NEW x \in TextsOf(loaded, item)
  PROVE  /\ GroupOf(loaded, item, x) \in SUBSET Records
         /\ IsFiniteSet(GroupOf(loaded, item, x))
         /\ GroupOf(loaded, item, x) # {}
         /\ x \in Texts /\ Content[x].item = item
<1>1. GroupOf(loaded, item, x) \in SUBSET loaded
  BY DEF GroupOf
<1>2. PICK r \in loaded : r.item = item /\ r.text = x
  BY DEF TextsOf
<1>3. r \in GroupOf(loaded, item, x)
  BY <1>2 DEF GroupOf
<1> QED BY <1>1, <1>2, <1>3, FS_Subset, RecordFields

MergedText(loaded, item, x) == Merged(item, x, GroupOf(loaded, item, x))

LEMMA MergedFacts ==
  ASSUME NEW loaded \in SUBSET Records, IsFiniteSet(loaded), NEW item,
         NEW x \in TextsOf(loaded, item), NEW m, m = MergedText(loaded, item, x)
  PROVE  /\ m.item = item /\ m.text = x
         /\ m.batches = {r.batch : r \in GroupOf(loaded, item, x)}
         /\ m.versions = {r.version : r \in GroupOf(loaded, item, x)}
         /\ m.created = LatestCreated(GroupOf(loaded, item, x))
         /\ MergedRank(m) \in Ranks /\ MergedRank(m)[1] = m.created
         /\ MergedRank(m)[4] = x
<1> DEFINE group == GroupOf(loaded, item, x)
<1>1. group \in SUBSET Records /\ IsFiniteSet(group) /\ group # {} /\ x \in Texts
  BY GroupFacts
<1>2. m = Merged(item, x, group)
  BY DEF MergedText
<1> HIDE DEF group
<1>3. /\ m.item = item /\ m.text = x
      /\ m.batches = {r.batch : r \in group} /\ m.versions = {r.version : r \in group}
      /\ m.created = LatestCreated(group)
  BY <1>2 DEF Merged
<1>4. /\ m.lastBatch = LastMet(group, LAMBDA r : r.batch)
      /\ m.lastVersion = LastMet(group, LAMBDA r : r.version)
  BY <1>2 DEF Merged
<1>5. m.lastBatch \in Nat /\ m.lastVersion \in Nat
  BY <1>1, <1>4, LastMetTyped
<1>6. m.created \in Nat /\ m.text \in Nat
  BY <1>1, <1>3, LatestCreatedIs, OrderAssumption
<1>7. MergedRank(m) \in Ranks /\ MergedRank(m)[1] = m.created /\ MergedRank(m)[4] = m.text
  BY <1>5, <1>6 DEF MergedRank, Ranks
<1> QED BY <1>3, <1>7 DEF group

LEMMA TextsFinite ==
  ASSUME NEW loaded \in SUBSET Records, IsFiniteSet(loaded), NEW item
  PROVE  IsFiniteSet(TextsOf(loaded, item))
<1> DEFINE f == [r \in loaded |-> r.text]
<1>1. DOMAIN f = loaded /\ \A x \in TextsOf(loaded, item) : \E r \in loaded : x = f[r]
  BY DEF TextsOf
<1> HIDE DEF f
<1> QED BY <1>1, ImageFinite

(* The version of an item that is distilled. *)
LEMMA RetainedVersion ==
  ASSUME NEW loaded \in SUBSET Records, IsFiniteSet(loaded),
         NEW item \in ItemsOf(loaded)
  PROVE  LET m == Highest(MergedVersions(loaded, item), MergedRank)
         IN \E x \in TextsOf(loaded, item) :
              /\ m = MergedText(loaded, item, x)
              /\ \A y \in TextsOf(loaded, item) :
                   ~Below(MergedRank(m), MergedRank(MergedText(loaded, item, y)))
<1> DEFINE texts == TextsOf(loaded, item)
           V == MergedVersions(loaded, item)
           f == [x \in texts |-> MergedText(loaded, item, x)]
<1>1. V = {MergedText(loaded, item, x) : x \in texts}
  BY DEF MergedVersions, MergedText
<1>2. texts # {}
  BY DEF ItemsOf, TextsOf
<1>3. IsFiniteSet(V)
  <2>1. IsFiniteSet(texts)
    BY TextsFinite
  <2>2. DOMAIN f = texts /\ \A v \in V : \E x \in texts : v = f[x]
    BY <1>1
  <2> HIDE DEF texts, V, f
  <2> QED BY <2>1, <2>2, ImageFinite
<1>4. \A v \in V : MergedRank(v) \in Ranks
  BY <1>1, MergedFacts
<1>5. V # {}
  BY <1>1, <1>2
<1> HIDE DEF V
<1>6. /\ Highest(V, MergedRank) \in V
      /\ \A v \in V : ~Below(MergedRank(Highest(V, MergedRank)), MergedRank(v))
  BY <1>3, <1>4, <1>5, HighestMerged
<1> QED BY <1>1, <1>6 DEF V

LEMMA DistilledFacts ==
  ASSUME NEW loaded \in SUBSET Records, IsFiniteSet(loaded)
  PROVE  /\ \A m \in Distilled(loaded) : \E item \in ItemsOf(loaded) :
              \E x \in TextsOf(loaded, item) :
                /\ m = MergedText(loaded, item, x)
                /\ \A y \in TextsOf(loaded, item) :
                     ~Below(MergedRank(m), MergedRank(MergedText(loaded, item, y)))
         /\ \A item \in ItemsOf(loaded) : \E m \in Distilled(loaded) : m.item = item
<1> DEFINE top(item) == Highest(MergedVersions(loaded, item), MergedRank)
           Wins(m, item, x) ==
             /\ m = MergedText(loaded, item, x)
             /\ \A y \in TextsOf(loaded, item) :
                  ~Below(MergedRank(m), MergedRank(MergedText(loaded, item, y)))
<1>1. Distilled(loaded) = {top(item) : item \in ItemsOf(loaded)}
  BY DEF Distilled
<1>2. ASSUME NEW item \in ItemsOf(loaded)
      PROVE  \E x \in TextsOf(loaded, item) : Wins(top(item), item, x)
  BY RetainedVersion
<1> HIDE DEF top
<1>3. ASSUME NEW item \in ItemsOf(loaded)
      PROVE  top(item).item = item
  <2>1. PICK x \in TextsOf(loaded, item) : Wins(top(item), item, x)
    BY <1>2
  <2> QED BY <2>1, MergedFacts
<1>4. ASSUME NEW m \in Distilled(loaded)
      PROVE  \E item \in ItemsOf(loaded) : \E x \in TextsOf(loaded, item) : Wins(m, item, x)
  <2>1. PICK item \in ItemsOf(loaded) : m = top(item)
    BY <1>1
  <2> HIDE DEF Wins
  <2> QED BY <1>2, <2>1
<1>5. ASSUME NEW item \in ItemsOf(loaded)
      PROVE  \E m \in Distilled(loaded) : m.item = item
  <2>1. top(item) \in Distilled(loaded)
    BY <1>1
  <2> QED BY <1>3, <2>1
<1> QED BY <1>4, <1>5

LEMMA DistilledText ==
  ASSUME NEW loaded \in SUBSET Records, IsFiniteSet(loaded), NEW m \in Distilled(loaded)
  PROVE  /\ m.text \in {r.text : r \in loaded}
         /\ m.item = Content[m.text].item
         /\ m = MergedText(loaded, m.item, m.text)
         /\ m.text \in TextsOf(loaded, m.item)
         /\ \A y \in TextsOf(loaded, m.item) :
              ~Below(MergedRank(m), MergedRank(MergedText(loaded, m.item, y)))
<1>1. PICK item \in ItemsOf(loaded) : \E x \in TextsOf(loaded, item) :
        /\ m = MergedText(loaded, item, x)
        /\ \A y \in TextsOf(loaded, item) :
             ~Below(MergedRank(m), MergedRank(MergedText(loaded, item, y)))
  BY DistilledFacts
<1>2. PICK x \in TextsOf(loaded, item) :
        /\ m = MergedText(loaded, item, x)
        /\ \A y \in TextsOf(loaded, item) :
             ~Below(MergedRank(m), MergedRank(MergedText(loaded, item, y)))
  BY <1>1
<1>3. m.text = x /\ m.item = item
  BY <1>2, MergedFacts
<1>4. Content[x].item = item
  BY GroupFacts
<1>5. x \in {r.text : r \in loaded}
  BY DEF TextsOf
<1> QED BY <1>2, <1>3, <1>4, <1>5

(* The occurrence of an item that is counted. *)
LEMMA CountedFacts ==
  ASSUME NEW sound \in SUBSET Records, IsFiniteSet(sound)
  PROVE  /\ \A r \in Counted(sound) :
              /\ r \in sound
              /\ \A q \in sound : q.item = r.item =>
                   ~Below(OccurrenceRank(r), OccurrenceRank(q))
         /\ \A item \in ItemsOf(sound) : \E r \in Counted(sound) : r.item = item
<1> DEFINE top(item, x) == Highest(GroupOf(sound, item, x), OccurrenceRank)
           versions(item) == {top(item, x) : x \in TextsOf(sound, item)}
           latest(item) == Highest(versions(item), OccurrenceRank)
<1>1. Counted(sound) = {latest(item) : item \in ItemsOf(sound)}
  BY DEF Counted
<1>2. ASSUME NEW item, NEW x \in TextsOf(sound, item)
      PROVE  /\ top(item, x) \in sound /\ top(item, x).item = item
             /\ OccurrenceRank(top(item, x)) \in Ranks
             /\ \A q \in sound : q.item = item /\ q.text = x =>
                  ~Below(OccurrenceRank(top(item, x)), OccurrenceRank(q))
  <2> DEFINE group == GroupOf(sound, item, x)
  <2>1. group \in SUBSET Records /\ IsFiniteSet(group) /\ group # {}
    BY GroupFacts
  <2>2. \A q : q \in group <=> q \in sound /\ q.item = item /\ q.text = x
    BY DEF GroupOf
  <2> HIDE DEF group
  <2>3. /\ Highest(group, OccurrenceRank) \in group
        /\ \A q \in group : ~Below(OccurrenceRank(Highest(group, OccurrenceRank)), OccurrenceRank(q))
    BY <2>1, RecordFields, HighestOccurrence
  <2>4. OccurrenceRank(Highest(group, OccurrenceRank)) \in Ranks
    BY <2>1, <2>3, RecordFields
  <2> QED BY <2>2, <2>3, <2>4 DEF group
<1> HIDE DEF top
<1>3. ASSUME NEW item \in ItemsOf(sound)
      PROVE  /\ latest(item) \in sound /\ latest(item).item = item
             /\ \A q \in sound : q.item = item =>
                  ~Below(OccurrenceRank(latest(item)), OccurrenceRank(q))
  <2> DEFINE texts == TextsOf(sound, item)
             V == versions(item)
             f == [x \in texts |-> top(item, x)]
  <2>1. texts # {} /\ IsFiniteSet(texts)
    <3>1. texts # {}
      BY DEF ItemsOf, TextsOf
    <3> QED BY <3>1, TextsFinite
  <2>2. \A v : v \in V <=> \E x \in texts : v = top(item, x)
    OBVIOUS
  <2>3. DOMAIN f = texts /\ \A x \in texts : f[x] = top(item, x)
    OBVIOUS
  <2>4. \A q \in sound : q.item = item => q.text \in texts
    BY DEF TextsOf
  <2>5. \A x \in texts : top(item, x) \in sound /\ top(item, x).item = item
    BY <1>2
  <2>6. \A x \in texts : OccurrenceRank(top(item, x)) \in Ranks
    BY <1>2
  <2>7. \A x \in texts : \A q \in sound : q.item = item /\ q.text = x =>
          ~Below(OccurrenceRank(top(item, x)), OccurrenceRank(q))
    BY <1>2
  <2> HIDE DEF texts, V, f
  <2>8. IsFiniteSet(V) /\ V # {}
    <3>1. \A v \in V : \E x \in texts : v = f[x]
      BY <2>2, <2>3
    <3>2. IsFiniteSet(V)
      BY <2>1, <2>3, <3>1, ImageFinite
    <3> QED BY <2>1, <2>2, <3>2
  <2> DEFINE h == Highest(V, OccurrenceRank)
  <2>9. h \in V /\ \A v \in V : ~Below(OccurrenceRank(h), OccurrenceRank(v))
    BY <2>2, <2>6, <2>8, HighestOccurrence
  <2> HIDE DEF h
  <2>10. h \in sound /\ h.item = item /\ OccurrenceRank(h) \in Ranks
    BY <2>2, <2>5, <2>6, <2>9
  <2>11. ASSUME NEW q \in sound, q.item = item, Below(OccurrenceRank(h), OccurrenceRank(q))
         PROVE  FALSE
    <3>1. q.text \in texts
      BY <2>4, <2>11
    <3> DEFINE v == top(item, q.text)
    <3>2. v \in V /\ OccurrenceRank(v) \in Ranks
      BY <2>2, <2>6, <3>1
    <3>3. ~Below(OccurrenceRank(v), OccurrenceRank(q))
      BY <2>7, <2>11, <3>1
    <3>4. ~Below(OccurrenceRank(h), OccurrenceRank(v))
      BY <2>9, <3>2
    <3>5. OccurrenceRank(q) \in Ranks
      BY RecordFields
    <3> HIDE DEF v
    <3>6. OccurrenceRank(v) # OccurrenceRank(q) => Below(OccurrenceRank(q), OccurrenceRank(v))
      BY <3>2, <3>3, <3>5, RanksOrdered
    <3> QED BY <2>10, <2>11, <3>2, <3>4, <3>5, <3>6, RanksOrdered
  <2>12. latest(item) = h
    BY DEF h, V
  <2> HIDE DEF latest
  <2> QED BY <2>10, <2>11, <2>12
<1> HIDE DEF latest
<1>4. ASSUME NEW r \in Counted(sound)
      PROVE  /\ r \in sound
             /\ \A q \in sound : q.item = r.item =>
                  ~Below(OccurrenceRank(r), OccurrenceRank(q))
  <2>1. PICK item \in ItemsOf(sound) : r = latest(item)
    BY <1>1
  <2> QED BY <1>3, <2>1
<1>5. ASSUME NEW item \in ItemsOf(sound)
      PROVE  \E r \in Counted(sound) : r.item = item
  <2>1. latest(item) \in Counted(sound)
    BY <1>1
  <2>2. latest(item).item = item
    BY <1>3
  <2> QED BY <2>1, <2>2
<1> QED BY <1>4, <1>5

-----------------------------------------------------------------------------
(* Texts and their batches. *)

LEMMA LoadedTexts ==
  ASSUME NEW t \in [Slots -> Batches], ~LoadFails(t)
  PROVE  /\ \A r \in Loaded(t) : \E s \in Found(t) :
              /\ r.text \in Range(t[s].items)
              /\ r.batch = t[s].manifest.id /\ r.version = t[s].manifest.version
         /\ \A s \in Found(t) : \A x \in Range(t[s].items) : \E r \in Loaded(t) :
              /\ r.text = x
              /\ r.batch = t[s].manifest.id /\ r.version = t[s].manifest.version
<1>1. ASSUME NEW r \in Loaded(t)
      PROVE  \E s \in Found(t) :
               /\ r.text \in Range(t[s].items)
               /\ r.batch = t[s].manifest.id /\ r.version = t[s].manifest.version
  <2>0. PICK s \in Found(t) : \E i \in DOMAIN t[s].items : r = Occurrence(t, s, i)
    BY <1>1, LoadedTyped
  <2>1. PICK i \in DOMAIN t[s].items : r = Occurrence(t, s, i)
    BY <2>0
  <2>2. Readable(t, s)
    BY LoadedTyped
  <2>3. /\ r.text = t[s].items[i]
        /\ r.batch = t[s].manifest.id /\ r.version = t[s].manifest.version
    BY <2>1, <2>2, OccurrenceTyped
  <2> QED BY <2>3 DEF Range
<1>2. ASSUME NEW s \in Found(t), NEW x \in Range(t[s].items)
      PROVE  \E r \in Loaded(t) :
               /\ r.text = x
               /\ r.batch = t[s].manifest.id /\ r.version = t[s].manifest.version
  <2>1. PICK i \in DOMAIN t[s].items : x = t[s].items[i]
    BY DEF Range
  <2>2. Readable(t, s) /\ Occurrence(t, s, i) \in Loaded(t)
    BY LoadedTyped
  <2> QED BY <2>1, <2>2, OccurrenceTyped
<1> QED BY <1>1, <1>2

LEMMA ItemsText ==
  ASSUME NEW s \in Slots, NEW t \in [Slots -> Batches], Readable(t, s)
  PROVE  /\ t[s].items \in Seq(Texts)
         /\ \A x \in Range(t[s].items) : x \in Texts
<1>1. t[s].items \in Seq(Texts)
  BY BatchFields DEF Readable
<1>2. DOMAIN t[s].items = 1..Len(t[s].items)
  BY <1>1
<1>3. \A i \in 1..Len(t[s].items) : t[s].items[i] \in Texts
  BY <1>1
<1> QED BY <1>1, <1>2, <1>3 DEF Range

-----------------------------------------------------------------------------
(* What validation lets pass is distilled, unless it is of one of three kinds. *)

LEMMA ValidIsDistilled ==
  ASSUME NEW t \in [Slots -> Batches], WorkbenchValid(t),
         \E s \in Found(t) : t[s].items # <<>>,
         \A s \in Found(t) : t[s].jsonl => t[s].items # <<>>,
         ~DatesClash(t)
  PROVE  ~RunRaises(t)
<1>1. \A s \in Found(t) : ScanIsClean(t, s)
  BY DEF WorkbenchValid
<1>2. ~LoadFails(t)
  BY <1>1 DEF LoadFails, ScanIsClean
<1>3. \A s \in Found(t) : TruthfulManifest(t, s)
  BY <1>1 DEF ScanIsClean
<1>4. Loaded(t) # {}
  <2>1. PICK s \in Found(t) : t[s].items # <<>>
    OBVIOUS
  <2>2. t[s].items \in Seq(Texts)
    BY <1>1, ItemsText DEF ScanIsClean, Found
  <2>3. t[s].items[1] \in Range(t[s].items)
    BY <2>1, <2>2 DEF Range
  <2> QED BY <1>2, <2>3, LoadedTexts
<1>5. ASSUME NEW m \in Distilled(Loaded(t))
      PROVE  Content[m.text].builds
  <2> DEFINE loaded == Loaded(t)
  <2>1. loaded \in SUBSET Records /\ IsFiniteSet(loaded)
    BY <1>2, LoadedTyped
  <2>2. \A r \in loaded : \E s \in Found(t) : r.text \in Range(t[s].items)
    BY <1>2, LoadedTexts
  <2> HIDE DEF loaded
  <2>3. m.text \in {r.text : r \in loaded}
    BY <1>5, <2>1, DistilledText DEF loaded
  <2>4. \E s \in Found(t) : m.text \in Range(t[s].items)
    BY <2>2, <2>3
  <2> QED BY <1>1, <2>4 DEF ScanIsClean, SoundText
<1> QED BY <1>2, <1>3, <1>4, <1>5 DEF RunRaises, Dedupes

LEMMA ThreeAreRefused ==
  ASSUME NEW t \in [Slots -> Batches],
         \/ \A s \in Found(t) : t[s].items = <<>>
         \/ \E s \in Found(t) : t[s].jsonl /\ t[s].items = <<>>
         \/ DatesClash(t)
  PROVE  RunRaises(t)
<1>1. CASE \A s \in Found(t) : t[s].items = <<>>
  <2>1. ASSUME ~LoadFails(t), NEW r \in Loaded(t)
        PROVE  FALSE
    <3>1. PICK s \in Found(t) : r.text \in Range(t[s].items)
      BY <2>1, LoadedTexts
    <3>2. t[s].items = <<>>
      BY <1>1
    <3> QED BY <3>1, <3>2 DEF Range
  <2> QED BY <2>1 DEF RunRaises, Dedupes
<1>2. CASE \E s \in Found(t) : t[s].jsonl /\ t[s].items = <<>>
  BY <1>2 DEF RunRaises, Dedupes, LoadFails
<1>3. CASE DatesClash(t)
  BY <1>3 DEF RunRaises, Dedupes
<1> QED BY <1>1, <1>2, <1>3

(* Of the trees that authoring, edits and crashes can leave and the         *)
(* workbench finds no error in, run_batches refuses those without an item,  *)
(* with an empty batch in JSON lines or with dates that max cannot compare, *)
(* and no other (validate_batches, run_batches).                            *)
THEOREM ValidTreesRefusedAreThese == Spec => []RefusalsOfValidTrees
<1>1. ASSUME TreeOK, WorkbenchValid(tree)
      PROVE  RunRaises(tree) <=>
               \/ \A s \in Found(tree) : tree[s].items = <<>>
               \/ \E s \in Found(tree) : tree[s].jsonl /\ tree[s].items = <<>>
               \/ DatesClash(tree)
  <2>1. tree \in [Slots -> Batches]
    BY <1>1 DEF TreeOK
  <2> QED BY <1>1, <2>1, ValidIsDistilled, ThreeAreRefused
<1>2. TreeOK => RefusalsOfValidTrees
  BY <1>1 DEF RefusalsOfValidTrees
<1> QED BY <1>2, TreeAlwaysOK, PTL

-----------------------------------------------------------------------------
(* Where dates decide, both readers keep the newest version. *)

Newest(loaded, x) == Max({r.created : r \in {q \in loaded : q.text = x}})

LEMMA NewestIs ==
  ASSUME NEW loaded \in SUBSET Records, IsFiniteSet(loaded), NEW item,
         NEW x \in TextsOf(loaded, item)
  PROVE  /\ Newest(loaded, x) = LatestCreated(GroupOf(loaded, item, x))
         /\ Newest(loaded, x) \in Nat
         /\ \E r \in loaded : r.text = x /\ r.item = item /\ r.created = Newest(loaded, x)
         /\ \A r \in loaded : r.text = x => r.created <= Newest(loaded, x)
<1> DEFINE group == GroupOf(loaded, item, x)
<1>1. group \in SUBSET Records /\ IsFiniteSet(group) /\ group # {} /\ Content[x].item = item
  BY GroupFacts
<1>2. \A r \in loaded : r.text = x => r.item = item
  BY <1>1, RecordFields
<1>3. group = {q \in loaded : q.text = x}
  BY <1>2 DEF GroupOf
<1>4. Newest(loaded, x) = LatestCreated(group)
  BY <1>3 DEF Newest, LatestCreated
<1> HIDE DEF group
<1>5. /\ LatestCreated(group) \in Nat
      /\ \E r \in group : r.created = LatestCreated(group)
      /\ \A r \in group : r.created <= LatestCreated(group)
  BY <1>1, LatestCreatedIs
<1> QED BY <1>2, <1>3, <1>4, <1>5 DEF group

(* A text newer than all others of its item is the one distilled... *)
LEMMA NewestIsDistilled ==
  ASSUME NEW loaded \in SUBSET Records, IsFiniteSet(loaded), NEW item,
         NEW x \in TextsOf(loaded, item),
         \A y \in TextsOf(loaded, item) \ {x} : Newest(loaded, y) < Newest(loaded, x)
  PROVE  \E m \in Distilled(loaded) : m.text = x
<1>1. item \in ItemsOf(loaded)
  BY DEF TextsOf, ItemsOf
<1>2. PICK m \in Distilled(loaded) : m.item = item
  BY <1>1, DistilledFacts
<1> DEFINE y == m.text
           other == MergedText(loaded, item, x)
<1>3. /\ m = MergedText(loaded, item, y) /\ y \in TextsOf(loaded, item)
      /\ ~Below(MergedRank(m), MergedRank(other))
  BY <1>2, DistilledText
<1> HIDE DEF y
<1>4. /\ MergedRank(m) \in Ranks /\ MergedRank(other) \in Ranks
      /\ MergedRank(m)[1] = Newest(loaded, y) /\ MergedRank(other)[1] = Newest(loaded, x)
  <2>1. MergedRank(m) \in Ranks /\ MergedRank(m)[1] = Newest(loaded, y)
    BY <1>3, MergedFacts, NewestIs
  <2>2. MergedRank(other) \in Ranks /\ MergedRank(other)[1] = Newest(loaded, x)
    BY MergedFacts, NewestIs
  <2> QED BY <2>1, <2>2
<1> HIDE DEF other
<1>5. ~(MergedRank(m)[1] < MergedRank(other)[1])
  BY <1>3, <1>4, RankBelow
<1>6. y = x
  BY <1>3, <1>4, <1>5
<1> QED BY <1>6 DEF y

(* ...and if it is sound the one counted. *)
LEMMA NewestIsCounted ==
  ASSUME NEW loaded \in SUBSET Records, IsFiniteSet(loaded), NEW item,
         NEW x \in TextsOf(loaded, item),
         \A y \in TextsOf(loaded, item) \ {x} : Newest(loaded, y) < Newest(loaded, x),
         NEW sound \in SUBSET loaded, \A r \in loaded : r.text = x => r \in sound
  PROVE  \E r \in Counted(sound) : r.text = x
<1>1. PICK new \in loaded :
        new.text = x /\ new.item = item /\ new.created = Newest(loaded, x)
  BY NewestIs
<1>2. new \in sound /\ item \in ItemsOf(sound)
  BY <1>1 DEF ItemsOf
<1>3. sound \in SUBSET Records /\ IsFiniteSet(sound)
  BY FS_Subset
<1>4. PICK r \in Counted(sound) : r.item = item
  BY <1>2, <1>3, CountedFacts
<1>5. r \in sound /\ ~Below(OccurrenceRank(r), OccurrenceRank(new))
  BY <1>1, <1>2, <1>3, <1>4, CountedFacts
<1>6. ~(r.created < new.created)
  <2>1. /\ OccurrenceRank(r) \in Ranks /\ OccurrenceRank(new) \in Ranks
        /\ OccurrenceRank(r)[1] = r.created /\ OccurrenceRank(new)[1] = new.created
    BY <1>2, <1>3, <1>5, RecordFields DEF OccurrenceRank
  <2> QED BY <1>5, <2>1, RankBelow
<1>7. ASSUME r.text # x
      PROVE  FALSE
  <2>1. r.text \in TextsOf(loaded, item) \ {x}
    BY <1>4, <1>5, <1>7 DEF TextsOf
  <2>2. r.created <= Newest(loaded, r.text) /\ Newest(loaded, r.text) \in Nat
    BY <1>5, <2>1, NewestIs
  <2>3. Newest(loaded, r.text) < Newest(loaded, x) /\ Newest(loaded, x) \in Nat
    BY <2>1, NewestIs
  <2>4. r.created \in Nat
    BY <1>3, <1>5, RecordFields
  <2> QED BY <1>1, <1>6, <2>2, <2>3, <2>4
<1> QED BY <1>7

LEMMA SoundAreLoaded ==
  ASSUME NEW t \in [Slots -> Batches], ~LoadFails(t)
  PROVE  /\ SoundOccurrences(t) \in SUBSET Loaded(t)
         /\ \A r \in Loaded(t) : SoundText(r.text) => r \in SoundOccurrences(t)
<1>1. SoundOccurrences(t) \in SUBSET Loaded(t)
  BY LoadedTyped, SoundTyped
<1>2. ASSUME NEW r \in Loaded(t), SoundText(r.text)
      PROVE  r \in SoundOccurrences(t)
  <2>1. r.text \in Texts /\ Content[r.text].schema
    BY <1>2, LoadedTyped, RecordFields, ContentAssumption DEF SoundText
  <2>2. PICK s \in Found(t) : \E i \in DOMAIN t[s].items : r = Occurrence(t, s, i)
    BY <1>2, LoadedTyped
  <2>3. Readable(t, s)
    BY LoadedTyped
  <2> QED BY <1>2, <2>1, <2>2, <2>3, SoundTyped
<1> QED BY <1>1, <1>2

(* Of the versions of an item, one that is dated after all others is both   *)
(* distilled and, if sound, counted, whatever else is in the tree           *)
(* (_dedupe_source_records, _retain_latest_occurrences).                    *)
THEOREM NewestIsAlwaysKept == Spec => []NewestIsKept
<1>1. ASSUME TreeOK
      PROVE  NewestIsKept
  <2> DEFINE loaded == Loaded(tree)
             sound == SoundOccurrences(tree)
             retained == {m.text : m \in Distilled(loaded)}
             counted == {r.text : r \in Counted(sound)}
  <2>1. SUFFICES ASSUME ~LoadFails(tree), NEW x \in {r.text : r \in loaded},
                        \A y \in TextsOf(loaded, Content[x].item) \ {x} :
                          Newest(loaded, y) < Newest(loaded, x)
                 PROVE  x \in retained /\ (SoundText(x) => x \in counted)
    BY DEF NewestIsKept, Newest, Dedupes
  <2>2. tree \in [Slots -> Batches]
    BY <1>1 DEF TreeOK
  <2>3. /\ loaded \in SUBSET Records /\ IsFiniteSet(loaded)
        /\ sound \in SUBSET loaded
        /\ \A r \in loaded : SoundText(r.text) => r \in sound
    BY <2>1, <2>2, LoadedTyped, SoundAreLoaded
  <2> HIDE DEF loaded, sound
  <2>4. x \in TextsOf(loaded, Content[x].item)
    BY <2>3, RecordFields DEF TextsOf
  <2>5. x \in retained
    BY <2>1, <2>3, <2>4, NewestIsDistilled
  <2>6. ASSUME SoundText(x)
        PROVE  x \in counted
    <3>1. \A r \in loaded : r.text = x => r \in sound
      BY <2>3, <2>6
    <3> QED BY <2>1, <2>3, <2>4, <3>1, NewestIsCounted
  <2> QED BY <2>5, <2>6
<1> QED BY <1>1, TreeAlwaysOK, PTL

-----------------------------------------------------------------------------
(* Coverage does not depend on where the batches are. *)

Unplace(r) == [r EXCEPT !.at = <<>>]

LEMMA UnplacedRecord ==
  ASSUME NEW r \in Records, NEW q \in Records
  PROVE  /\ Unplace(r) = Unplace(q) <=>
              /\ r.item = q.item /\ r.text = q.text /\ r.batch = q.batch
              /\ r.version = q.version /\ r.created = q.created
         /\ r.item = q.item /\ OccurrenceRank(r) = OccurrenceRank(q)
              => Unplace(r) = Unplace(q)
         /\ Unplace(r) = Unplace(q) => OccurrenceRank(r) = OccurrenceRank(q)
<1>1. /\ r = [at |-> r.at, item |-> r.item, text |-> r.text,
              batch |-> r.batch, version |-> r.version, created |-> r.created]
      /\ q = [at |-> q.at, item |-> q.item, text |-> q.text,
              batch |-> q.batch, version |-> q.version, created |-> q.created]
  BY DEF Records
<1>2. /\ Unplace(r) = [at |-> <<>>, item |-> r.item, text |-> r.text,
                       batch |-> r.batch, version |-> r.version, created |-> r.created]
      /\ Unplace(q) = [at |-> <<>>, item |-> q.item, text |-> q.text,
                       batch |-> q.batch, version |-> q.version, created |-> q.created]
  BY <1>1 DEF Unplace
<1>3. Unplace(r) = Unplace(q) <=>
        /\ r.item = q.item /\ r.text = q.text /\ r.batch = q.batch
        /\ r.version = q.version /\ r.created = q.created
  BY <1>2
<1>4. OccurrenceRank(r) = OccurrenceRank(q) <=>
        /\ r.created = q.created /\ r.version = q.version
        /\ r.batch = q.batch /\ r.text = q.text
  BY DEF OccurrenceRank
<1> QED BY <1>3, <1>4

(* What is counted is, places aside, what no record of the item outranks. *)
LEMMA CountedIsUnbeaten ==
  ASSUME NEW sound \in SUBSET Records, IsFiniteSet(sound), NEW u
  PROVE  u \in Unplaced(Counted(sound)) <=>
           \E r \in sound :
             /\ u = Unplace(r)
             /\ \A q \in sound : q.item = r.item =>
                  ~Below(OccurrenceRank(r), OccurrenceRank(q))
<1>1. u \in Unplaced(Counted(sound)) <=> \E r \in Counted(sound) : u = Unplace(r)
  BY DEF Unplaced, Unplace
<1>2. ASSUME NEW r \in sound,
             \A q \in sound : q.item = r.item => ~Below(OccurrenceRank(r), OccurrenceRank(q))
      PROVE  \E c \in Counted(sound) : Unplace(c) = Unplace(r)
  <2>1. r.item \in ItemsOf(sound)
    BY DEF ItemsOf
  <2>2. PICK c \in Counted(sound) : c.item = r.item
    BY <2>1, CountedFacts
  <2>3. c \in sound /\ ~Below(OccurrenceRank(c), OccurrenceRank(r))
    BY <2>2, CountedFacts
  <2>4. OccurrenceRank(c) = OccurrenceRank(r)
    BY <1>2, <2>2, <2>3, RecordFields, RanksOrdered
  <2> QED BY <2>2, <2>3, <2>4, UnplacedRecord
<1>3. \A r \in Counted(sound) :
        /\ r \in sound
        /\ \A q \in sound : q.item = r.item => ~Below(OccurrenceRank(r), OccurrenceRank(q))
  BY CountedFacts
<1> QED BY <1>1, <1>2, <1>3

(* So it is the same for two sets of records with the same contents. *)
LEMMA CountedAlike ==
  ASSUME NEW a \in SUBSET Records, IsFiniteSet(a), NEW b \in SUBSET Records, IsFiniteSet(b),
         \A r \in a : \E q \in b : Unplace(q) = Unplace(r),
         \A q \in b : \E r \in a : Unplace(r) = Unplace(q)
  PROVE  Unplaced(Counted(a)) \subseteq Unplaced(Counted(b))
<1> SUFFICES ASSUME NEW u \in Unplaced(Counted(a))
             PROVE  u \in Unplaced(Counted(b))
  OBVIOUS
<1>1. PICK r \in a :
        /\ u = Unplace(r)
        /\ \A q \in a : q.item = r.item => ~Below(OccurrenceRank(r), OccurrenceRank(q))
  BY CountedIsUnbeaten
<1>2. PICK s \in b : Unplace(s) = Unplace(r)
  OBVIOUS
<1>3. s.item = r.item /\ OccurrenceRank(s) = OccurrenceRank(r)
  BY <1>2, UnplacedRecord
<1>4. ASSUME NEW q \in b, q.item = s.item
      PROVE  ~Below(OccurrenceRank(s), OccurrenceRank(q))
  <2>1. PICK p \in a : Unplace(p) = Unplace(q)
    OBVIOUS
  <2>2. p.item = q.item /\ OccurrenceRank(p) = OccurrenceRank(q)
    BY <2>1, UnplacedRecord
  <2> QED BY <1>1, <1>3, <1>4, <2>2
<1> QED BY <1>1, <1>2, <1>4, CountedIsUnbeaten

Moved(t, p) == [s \in Slots |-> t[p[s]]]

LEMMA MovedOccurrence ==
  ASSUME NEW t \in [Slots -> Batches], NEW p \in Bijection(Slots, Slots)
  PROVE  /\ Moved(t, p) \in [Slots -> Batches]
         /\ \A r \in SoundOccurrences(t) :
              \E q \in SoundOccurrences(Moved(t, p)) : Unplace(q) = Unplace(r)
         /\ \A q \in SoundOccurrences(Moved(t, p)) :
              \E r \in SoundOccurrences(t) : Unplace(r) = Unplace(q)
<1> DEFINE u == Moved(t, p)
<1>1. p \in [Slots -> Slots] /\ \A s \in Slots : \E q \in Slots : p[q] = s
  BY DEF Bijection, Injection, Surjection
<1>2. u \in [Slots -> Batches] /\ \A s \in Slots : u[s] = t[p[s]]
  BY <1>1 DEF Moved
<1> HIDE DEF u
<1>3. \A s \in Slots : /\ s \in Found(u) <=> p[s] \in Found(t)
                       /\ Readable(u, s) <=> Readable(t, p[s])
  BY <1>1, <1>2 DEF Found, Readable
<1>4. ASSUME NEW s \in Slots, s \in Found(u), Readable(u, s), NEW i \in DOMAIN u[s].items
      PROVE  /\ Unplace(Occurrence(u, s, i)) = Unplace(Occurrence(t, p[s], i))
             /\ Occurrence(u, s, i).text = Occurrence(t, p[s], i).text
  <2>1. u[s] = t[p[s]] /\ p[s] \in Found(t) /\ Readable(t, p[s])
    BY <1>2, <1>3, <1>4
  <2>2. /\ Occurrence(u, s, i) \in Records /\ Occurrence(t, p[s], i) \in Records
        /\ Occurrence(u, s, i).text = Occurrence(t, p[s], i).text
        /\ Occurrence(u, s, i).batch = Occurrence(t, p[s], i).batch
        /\ Occurrence(u, s, i).version = Occurrence(t, p[s], i).version
        /\ Occurrence(u, s, i).created = Occurrence(t, p[s], i).created
    BY <1>2, <1>4, <2>1, OccurrenceTyped
  <2>3. Occurrence(u, s, i).item = Occurrence(t, p[s], i).item
    BY <2>2, RecordFields
  <2> QED BY <2>2, <2>3, UnplacedRecord
<1>5. ASSUME NEW q \in SoundOccurrences(u)
      PROVE  \E r \in SoundOccurrences(t) : Unplace(r) = Unplace(q)
  <2>1. PICK s \in Found(u) :
          /\ Readable(u, s)
          /\ \E i \in DOMAIN u[s].items : q = Occurrence(u, s, i)
          /\ Content[q.text].schema /\ SoundText(q.text)
    BY <1>2, <1>5, SoundTyped
  <2>2. PICK i \in DOMAIN u[s].items : q = Occurrence(u, s, i)
    BY <2>1
  <2>3. s \in Slots /\ p[s] \in Found(t) /\ Readable(t, p[s]) /\ i \in DOMAIN t[p[s]].items
    BY <1>2, <1>3, <2>1, <2>2 DEF Found
  <2> DEFINE r == Occurrence(t, p[s], i)
  <2>4. Unplace(r) = Unplace(q) /\ r.text = q.text
    BY <1>4, <2>1, <2>2, <2>3
  <2>5. r \in SoundOccurrences(t)
    BY <2>1, <2>3, <2>4, SoundTyped
  <2> QED BY <2>4, <2>5
<1>6. ASSUME NEW r \in SoundOccurrences(t)
      PROVE  \E q \in SoundOccurrences(u) : Unplace(q) = Unplace(r)
  <2>1. PICK z \in Found(t) :
          /\ Readable(t, z)
          /\ \E i \in DOMAIN t[z].items : r = Occurrence(t, z, i)
          /\ Content[r.text].schema /\ SoundText(r.text)
    BY <1>6, SoundTyped
  <2>2. PICK i \in DOMAIN t[z].items : r = Occurrence(t, z, i)
    BY <2>1
  <2>3. PICK s \in Slots : p[s] = z
    BY <1>1 DEF Found
  <2>4. s \in Found(u) /\ Readable(u, s) /\ i \in DOMAIN u[s].items
    BY <1>2, <1>3, <2>1, <2>2, <2>3
  <2> DEFINE q == Occurrence(u, s, i)
  <2>5. Unplace(q) = Unplace(r) /\ q.text = r.text
    BY <1>4, <2>2, <2>3, <2>4
  <2>6. q \in SoundOccurrences(u)
    BY <1>2, <2>1, <2>4, <2>5, SoundTyped
  <2> QED BY <2>5, <2>6
<1> QED BY <1>2, <1>5, <1>6 DEF u

(* However the batch files are named, the coverage report counts the same   *)
(* texts of the same batches (_retain_latest_occurrences).                  *)
THEOREM CoverageAlwaysIgnoresOrder == Spec => []CoverageIgnoresOrder
<1>1. ASSUME TreeOK
      PROVE  CoverageIgnoresOrder
  <2>1. SUFFICES ASSUME NEW p \in Bijection(Slots, Slots)
                 PROVE  Unplaced(Counted(SoundOccurrences(Moved(tree, p)))) =
                          Unplaced(Counted(SoundOccurrences(tree)))
    BY DEF CoverageIgnoresOrder, Moved
  <2>2. tree \in [Slots -> Batches]
    BY <1>1 DEF TreeOK
  <2> DEFINE a == SoundOccurrences(tree)
             b == SoundOccurrences(Moved(tree, p))
  <2>3. /\ a \in SUBSET Records /\ IsFiniteSet(a) /\ b \in SUBSET Records /\ IsFiniteSet(b)
        /\ \A r \in a : \E q \in b : Unplace(q) = Unplace(r)
        /\ \A q \in b : \E r \in a : Unplace(r) = Unplace(q)
    BY <2>2, MovedOccurrence, SoundTyped
  <2> HIDE DEF a, b
  <2>4. Unplaced(Counted(a)) \subseteq Unplaced(Counted(b))
    BY <2>3, CountedAlike
  <2>5. Unplaced(Counted(b)) \subseteq Unplaced(Counted(a))
    BY <2>3, CountedAlike
  <2> QED BY <2>4, <2>5 DEF a, b
<1> QED BY <1>1, TreeAlwaysOK, PTL
-----------------------------------------------------------------------------
(* Atoms. *)

StepAtom(x, step, batches, versions, hashes) ==
  [topic |-> Content[x].topic, label |-> step.label, moves |-> step.moves,
   forms |-> Content[x].forms, items |-> {Content[x].item},
   batches |-> batches, versions |-> versions, hashes |-> hashes]

LEMMA AtomsAreSteps ==
  ASSUME NEW x, NEW batches, NEW versions, NEW hashes
  PROVE  AtomsOf(x, batches, versions, hashes) =
           {StepAtom(x, step, batches, versions, hashes) : step \in Content[x].steps}
BY DEF AtomsOf, StepAtom

LEMMA StepAtomFields ==
  ASSUME NEW x, NEW step, NEW batches, NEW versions, NEW hashes, NEW a,
         a = StepAtom(x, step, batches, versions, hashes)
  PROVE  /\ Key(a) = <<Content[x].topic, step.label>>
         /\ a.batches = batches /\ a.versions = versions /\ a.hashes = hashes
BY DEF StepAtom, Key

(* A merged atom has a key that was met, and what every atom of it had. *)
Same(A, k) == {a \in A : Key(a) = k}
MergedAtom(A, k) ==
  [topic |-> k[1], label |-> k[2],
   moves |-> UNION {a.moves : a \in Same(A, k)},
   forms |-> UNION {a.forms : a \in Same(A, k)},
   items |-> UNION {a.items : a \in Same(A, k)},
   batches |-> UNION {a.batches : a \in Same(A, k)},
   versions |-> UNION {a.versions : a \in Same(A, k)},
   hashes |-> UNION {a.hashes : a \in Same(A, k)}]

LEMMA AtomsMerge ==
  ASSUME NEW A
  PROVE  MergeAtoms(A) = {MergedAtom(A, k) : k \in {Key(a) : a \in A}}
BY DEF MergeAtoms, MergedAtom, Same

LEMMA MergedAtomFacts ==
  ASSUME NEW A, NEW a \in MergeAtoms(A)
  PROVE  /\ \E b \in A : Key(a) = Key(b)
         /\ a = MergedAtom(A, Key(a))
         /\ a.batches = UNION {b.batches : b \in Same(A, Key(a))}
         /\ a.versions = UNION {b.versions : b \in Same(A, Key(a))}
<1>1. PICK b \in A : a = MergedAtom(A, Key(b))
  BY AtomsMerge
<1>2. Key(a) = Key(b)
  BY <1>1 DEF MergedAtom, Key
<1> QED BY <1>1, <1>2 DEF MergedAtom

(* The atoms of what is distilled, before they are merged. *)
RetainedAtoms(t) ==
  UNION {AtomsOf(m.text, m.batches, m.versions, HashesOf(t, m.text)) :
           m \in Distilled(Loaded(t))}

RetainedAtom(t, m, step) ==
  StepAtom(m.text, step, m.batches, m.versions, HashesOf(t, m.text))

LEMMA RetainedAtomsAre ==
  ASSUME NEW t
  PROVE  /\ \A p \in RetainedAtoms(t) : \E m \in Distilled(Loaded(t)) :
              \E step \in Content[m.text].steps : p = RetainedAtom(t, m, step)
         /\ \A m \in Distilled(Loaded(t)) : \A step \in Content[m.text].steps :
              RetainedAtom(t, m, step) \in RetainedAtoms(t)
<1> DEFINE D == Distilled(Loaded(t))
           of(m) == AtomsOf(m.text, m.batches, m.versions, HashesOf(t, m.text))
<1>1. RetainedAtoms(t) = UNION {of(m) : m \in D}
  BY DEF RetainedAtoms
<1>2. ASSUME NEW m \in D
      PROVE  of(m) = {RetainedAtom(t, m, step) : step \in Content[m.text].steps}
  BY AtomsAreSteps DEF RetainedAtom
<1> HIDE DEF of, D
<1>3. ASSUME NEW p \in RetainedAtoms(t)
      PROVE  \E m \in D : \E step \in Content[m.text].steps : p = RetainedAtom(t, m, step)
  <2>1. PICK m \in D : p \in of(m)
    BY <1>1
  <2> QED BY <1>2, <2>1
<1>4. ASSUME NEW m \in D, NEW step \in Content[m.text].steps
      PROVE  RetainedAtom(t, m, step) \in RetainedAtoms(t)
  <2>1. RetainedAtom(t, m, step) \in of(m)
    BY <1>2
  <2> QED BY <1>1, <2>1
<1> QED BY <1>3, <1>4 DEF D

(* A retained text has the id and the version of each batch it occurs in, *)
(* and no id but of such batches.                                         *)
LEMMA RetainedBatches ==
  ASSUME NEW t \in [Slots -> Batches], ~LoadFails(t), NEW m \in Distilled(Loaded(t))
  PROVE  /\ \A s \in Found(t) : m.text \in Range(t[s].items) =>
              t[s].manifest.id \in m.batches /\ t[s].manifest.version \in m.versions
         /\ \A id \in m.batches : \E s \in Found(t) :
              m.text \in Range(t[s].items) /\ t[s].manifest.id = id
<1> DEFINE loaded == Loaded(t)
           group == GroupOf(loaded, m.item, m.text)
<1>1. loaded \in SUBSET Records /\ IsFiniteSet(loaded)
  BY LoadedTyped
<1>2. /\ m.item = Content[m.text].item
      /\ m = MergedText(loaded, m.item, m.text)
      /\ m.text \in TextsOf(loaded, m.item)
  <2> HIDE DEF loaded
  <2> QED BY <1>1, DistilledText DEF loaded
<1>3. m.batches = {r.batch : r \in group} /\ m.versions = {r.version : r \in group}
  <2> HIDE DEF loaded
  <2> QED BY <1>1, <1>2, MergedFacts
<1>4. \A r : r \in group <=> r \in loaded /\ r.item = m.item /\ r.text = m.text
  BY DEF GroupOf
<1>5. \A r \in loaded : r.item = Content[r.text].item
  BY <1>1, RecordFields
<1> HIDE DEF group
<1>6. ASSUME NEW s \in Found(t), m.text \in Range(t[s].items)
      PROVE  t[s].manifest.id \in m.batches /\ t[s].manifest.version \in m.versions
  <2>1. PICK r \in loaded : /\ r.text = m.text
                            /\ r.batch = t[s].manifest.id
                            /\ r.version = t[s].manifest.version
    BY <1>6, LoadedTexts
  <2>2. r \in group
    BY <1>2, <1>4, <1>5, <2>1
  <2> QED BY <1>3, <2>1, <2>2
<1>7. ASSUME NEW id \in m.batches
      PROVE  \E s \in Found(t) : m.text \in Range(t[s].items) /\ t[s].manifest.id = id
  <2>1. PICK r \in group : r.batch = id
    BY <1>3
  <2>2. r \in loaded /\ r.text = m.text
    BY <1>4
  <2>3. PICK s \in Found(t) : r.text \in Range(t[s].items) /\ r.batch = t[s].manifest.id
    BY <2>2, LoadedTexts
  <2> QED BY <2>1, <2>2, <2>3
<1> QED BY <1>6, <1>7

(* The atoms with a retained text in a batch (from, in RefsFindTheirAtoms). *)
AtomsFrom(t, s) ==
  {a \in DistilledAtoms(t) :
     \E x \in {m.text : m \in Distilled(Loaded(t))} \cap Range(t[s].items) :
       \E b \in AtomsOf(x, {}, {}, {}) : Key(a) = Key(b)}

LEMMA AtomsFromAre ==
  ASSUME NEW t, NEW s, NEW a \in DistilledAtoms(t)
  PROVE  a \in AtomsFrom(t, s) <=>
           \E m \in Distilled(Loaded(t)) :
             /\ m.text \in Range(t[s].items)
             /\ \E step \in Content[m.text].steps : Key(a) = <<Content[m.text].topic, step.label>>
<1> DEFINE D == Distilled(Loaded(t))
<1>1. ASSUME NEW x
      PROVE  (\E b \in AtomsOf(x, {}, {}, {}) : Key(a) = Key(b)) <=>
               \E step \in Content[x].steps : Key(a) = <<Content[x].topic, step.label>>
  <2>1. AtomsOf(x, {}, {}, {}) = {StepAtom(x, step, {}, {}, {}) : step \in Content[x].steps}
    BY AtomsAreSteps
  <2>2. \A step : Key(StepAtom(x, step, {}, {}, {})) = <<Content[x].topic, step.label>>
    BY StepAtomFields
  <2> QED BY <2>1, <2>2
<1>2. a \in AtomsFrom(t, s) <=>
        \E x \in {m.text : m \in D} \cap Range(t[s].items) :
          \E b \in AtomsOf(x, {}, {}, {}) : Key(a) = Key(b)
  BY DEF AtomsFrom
<1> HIDE DEF D
<1> QED BY <1>1, <1>2 DEF D

LEMMA RefsFind ==
  ASSUME NEW t \in [Slots -> Batches], ~LoadFails(t)
  PROVE  /\ \A s \in Found(t) : \A a \in AtomsFrom(t, s) :
              t[s].manifest.id \in a.batches /\ t[s].manifest.version \in a.versions
         /\ \A a \in DistilledAtoms(t) : \A id \in a.batches :
              \E s \in Found(t) : a \in AtomsFrom(t, s) /\ t[s].manifest.id = id
<1> DEFINE A == RetainedAtoms(t)
           D == Distilled(Loaded(t))
<1>1. DistilledAtoms(t) = MergeAtoms(A)
  BY DEF DistilledAtoms, RetainedAtoms
<1>2. ASSUME NEW m, NEW step
      PROVE  /\ Key(RetainedAtom(t, m, step)) = <<Content[m.text].topic, step.label>>
             /\ RetainedAtom(t, m, step).batches = m.batches
             /\ RetainedAtom(t, m, step).versions = m.versions
  BY StepAtomFields DEF RetainedAtom
<1>3. /\ \A p \in A : \E m \in D : \E step \in Content[m.text].steps : p = RetainedAtom(t, m, step)
      /\ \A m \in D : \A step \in Content[m.text].steps : RetainedAtom(t, m, step) \in A
  BY RetainedAtomsAre
<1> HIDE DEF A, D
<1>4. ASSUME NEW s \in Found(t), NEW a \in AtomsFrom(t, s)
      PROVE  t[s].manifest.id \in a.batches /\ t[s].manifest.version \in a.versions
  <2>1. a \in DistilledAtoms(t)
    BY DEF AtomsFrom
  <2>2. PICK m \in D : /\ m.text \in Range(t[s].items)
                       /\ \E step \in Content[m.text].steps :
                            Key(a) = <<Content[m.text].topic, step.label>>
    BY <2>1, AtomsFromAre DEF D
  <2>3. PICK step \in Content[m.text].steps : Key(a) = <<Content[m.text].topic, step.label>>
    BY <2>2
  <2> DEFINE p == RetainedAtom(t, m, step)
  <2>4. p \in A /\ Key(p) = Key(a) /\ p.batches = m.batches /\ p.versions = m.versions
    BY <1>2, <1>3, <2>3
  <2> HIDE DEF p
  <2>5. p \in Same(A, Key(a))
    BY <2>4 DEF Same
  <2>6. /\ a.batches = UNION {b.batches : b \in Same(A, Key(a))}
        /\ a.versions = UNION {b.versions : b \in Same(A, Key(a))}
    BY <1>1, <2>1, MergedAtomFacts
  <2>7. m.batches \subseteq a.batches /\ m.versions \subseteq a.versions
    BY <2>4, <2>5, <2>6
  <2>8. t[s].manifest.id \in m.batches /\ t[s].manifest.version \in m.versions
    BY <2>2, RetainedBatches DEF D
  <2> QED BY <2>7, <2>8
<1>5. ASSUME NEW a \in DistilledAtoms(t), NEW id \in a.batches
      PROVE  \E s \in Found(t) : a \in AtomsFrom(t, s) /\ t[s].manifest.id = id
  <2>1. a.batches = UNION {b.batches : b \in Same(A, Key(a))}
    BY <1>1, MergedAtomFacts
  <2>2. PICK p \in Same(A, Key(a)) : id \in p.batches
    BY <2>1
  <2>3. p \in A /\ Key(p) = Key(a)
    BY DEF Same
  <2>4. PICK m \in D : \E step \in Content[m.text].steps : p = RetainedAtom(t, m, step)
    BY <1>3, <2>3
  <2>5. PICK step \in Content[m.text].steps : p = RetainedAtom(t, m, step)
    BY <2>4
  <2>6. id \in m.batches /\ Key(a) = <<Content[m.text].topic, step.label>>
    BY <1>2, <2>2, <2>3, <2>5
  <2>7. PICK s \in Found(t) : m.text \in Range(t[s].items) /\ t[s].manifest.id = id
    BY <2>6, RetainedBatches DEF D
  <2>8. a \in AtomsFrom(t, s)
    BY <2>6, <2>7, AtomsFromAre DEF D
  <2> QED BY <2>7, <2>8
<1> QED BY <1>4, <1>5

(* An id, an id with its version, and a path find every atom of the batch,  *)
(* and an id finds no atom that is not of one of its batches, whatever was  *)
(* authored and however often an id is used (resolve_atoms).                *)
THEOREM RefsAlwaysFindTheirAtoms == Spec => []RefsFindTheirAtoms
<1>1. ASSUME TreeOK, ~LoadFails(tree), NEW s \in Found(tree)
      PROVE  LET atoms == DistilledAtoms(tree)
                 m == tree[s].manifest
             IN /\ AtomsFrom(tree, s) \subseteq AtomsOfBatchVersion(atoms, m.id, m.version)
                /\ AtomsFrom(tree, s) \subseteq AtomsOfPath(atoms, tree, {s})
                /\ AtomsOfBatchId(atoms, m.id) =
                     UNION {AtomsFrom(tree, r) : r \in {q \in Found(tree) : tree[q].manifest.id = m.id}}
  <2> DEFINE atoms == DistilledAtoms(tree)
             id == tree[s].manifest.id
             named == {q \in Found(tree) : tree[q].manifest.id = id}
  <2>1. tree \in [Slots -> Batches]
    BY <1>1 DEF TreeOK
  <2>2. \A r \in Found(tree) : AtomsFrom(tree, r) \subseteq atoms
    BY DEF AtomsFrom
  <2>3. /\ \A r \in Found(tree) : \A a \in AtomsFrom(tree, r) :
             tree[r].manifest.id \in a.batches /\ tree[r].manifest.version \in a.versions
        /\ \A a \in atoms : \A n \in a.batches :
             \E r \in Found(tree) : a \in AtomsFrom(tree, r) /\ tree[r].manifest.id = n
    BY <1>1, <2>1, RefsFind
  <2> HIDE DEF atoms
  <2>4. AtomsFrom(tree, s) \subseteq AtomsOfBatchVersion(atoms, id, tree[s].manifest.version)
    BY <2>2, <2>3 DEF AtomsOfBatchVersion
  <2>5. AtomsFrom(tree, s) \subseteq AtomsOfPath(atoms, tree, {s})
    BY <2>2, <2>3 DEF AtomsOfPath
  <2>6. AtomsOfBatchId(atoms, id) = UNION {AtomsFrom(tree, r) : r \in named}
    <3>1. ASSUME NEW a \in AtomsOfBatchId(atoms, id)
          PROVE  \E r \in named : a \in AtomsFrom(tree, r)
      BY <2>3 DEF AtomsOfBatchId
    <3>2. ASSUME NEW r \in named, NEW a \in AtomsFrom(tree, r)
          PROVE  a \in AtomsOfBatchId(atoms, id)
      BY <2>2, <2>3 DEF AtomsOfBatchId
    <3> HIDE DEF named
    <3> QED BY <3>1, <3>2
  <2> QED BY <2>4, <2>5, <2>6 DEF atoms
<1>2. TreeOK => RefsFindTheirAtoms
  <2> SUFFICES ASSUME TreeOK, ~LoadFails(tree)
               PROVE  RefsFindTheirAtoms
    BY DEF RefsFindTheirAtoms, Dedupes
  <2> QED BY <1>1 DEF RefsFindTheirAtoms, AtomsFrom
<1> QED BY <1>2, TreeAlwaysOK, PTL
-----------------------------------------------------------------------------
(* Of a valid tree, the coverage report is about the atoms that are         *)
(* distilled: every item has one text, so both readers keep it, and merging *)
(* looks at nothing that provenance adds.                                   *)

AllTexts(t) == UNION {Range(t[s].items) : s \in Found(t)}

LEMMA ValidTexts ==
  ASSUME NEW t \in [Slots -> Batches], WorkbenchValid(t), ~LoadFails(t)
  PROVE  /\ {m.text : m \in Distilled(Loaded(t))} = AllTexts(t)
         /\ {r.text : r \in Counted(SoundOccurrences(t))} = AllTexts(t)
<1> DEFINE loaded == Loaded(t)
           sound == SoundOccurrences(t)
<1>1. \A s \in Found(t) : ScanIsClean(t, s) /\ ~Malformed(t, s) /\ Readable(t, s)
  BY DEF WorkbenchValid, ScanIsClean
<1>2. \A s \in Found(t) : ScannedTexts(t, s) = Range(t[s].items)
  BY <1>1 DEF ScannedTexts, Malformed
<1>3. \A x, y \in AllTexts(t) : Content[x].item = Content[y].item => x = y
  BY <1>2 DEF WorkbenchValid, SourceItemConflict, AllTexts
<1>4. \A x \in AllTexts(t) : SoundText(x)
  BY <1>1 DEF ScanIsClean, AllTexts
<1>5. loaded \in SUBSET Records /\ IsFiniteSet(loaded)
  BY LoadedTyped
<1>6. {r.text : r \in loaded} = AllTexts(t)
  <2>1. \A r \in loaded : r.text \in AllTexts(t)
    BY LoadedTexts DEF AllTexts
  <2>2. ASSUME NEW x \in AllTexts(t)
        PROVE  \E r \in loaded : r.text = x
    <3>1. PICK s \in Found(t) : x \in Range(t[s].items)
      BY DEF AllTexts
    <3> QED BY <3>1, LoadedTexts
  <2> HIDE DEF loaded
  <2> QED BY <2>1, <2>2
<1>7. sound = loaded
  <2>1. sound \in SUBSET loaded /\ \A r \in loaded : SoundText(r.text) => r \in sound
    BY SoundAreLoaded
  <2> HIDE DEF sound, loaded
  <2> QED BY <1>4, <1>6, <2>1
<1> HIDE DEF loaded
<1>8. \A x \in AllTexts(t) : Content[x].item \in ItemsOf(loaded)
  <2>1. ASSUME NEW x \in AllTexts(t)
        PROVE  Content[x].item \in ItemsOf(loaded)
    <3>1. PICK r \in loaded : r.text = x
      BY <1>6
    <3>2. r.item = Content[x].item
      BY <1>5, <3>1, RecordFields
    <3> QED BY <3>2 DEF ItemsOf
  <2> QED BY <2>1
<1>9. {m.text : m \in Distilled(loaded)} = AllTexts(t)
  <2>1. \A m \in Distilled(loaded) : m.text \in AllTexts(t) /\ m.item = Content[m.text].item
    BY <1>5, <1>6, DistilledText
  <2>2. ASSUME NEW x \in AllTexts(t)
        PROVE  \E m \in Distilled(loaded) : m.text = x
    <3>1. PICK m \in Distilled(loaded) : m.item = Content[x].item
      BY <1>5, <1>8, DistilledFacts
    <3> QED BY <1>3, <2>1, <3>1
  <2> QED BY <2>1, <2>2
<1>10. {r.text : r \in Counted(loaded)} = AllTexts(t)
  <2>1. \A r \in Counted(loaded) : r \in loaded
    BY <1>5, CountedFacts
  <2>2. \A r \in Counted(loaded) : r.text \in AllTexts(t) /\ r.item = Content[r.text].item
    BY <1>5, <1>6, <2>1, RecordFields
  <2>3. ASSUME NEW x \in AllTexts(t)
        PROVE  \E r \in Counted(loaded) : r.text = x
    <3>1. PICK r \in Counted(loaded) : r.item = Content[x].item
      BY <1>5, <1>8, CountedFacts
    <3> QED BY <1>3, <2>2, <3>1
  <2> QED BY <2>2, <2>3
<1> QED BY <1>7, <1>9, <1>10 DEF loaded, sound

(* Two atoms that differ in their provenance only; and merging does not *)
(* look at it.                                                          *)
Alike(a, b) ==
  Key(a) = Key(b) /\ a.moves = b.moves /\ a.forms = b.forms /\ a.items = b.items
Unsourced(b) == b.batches = {} /\ b.versions = {} /\ b.hashes = {}

LEMMA BareRecord ==
  ASSUME NEW topic, NEW label, NEW moves, NEW forms, NEW items,
         NEW batches, NEW versions, NEW hashes
  PROVE  Bare([topic |-> topic, label |-> label, moves |-> moves, forms |-> forms,
               items |-> items, batches |-> batches, versions |-> versions, hashes |-> hashes])
         = [topic |-> topic, label |-> label, moves |-> moves, forms |-> forms,
            items |-> items, batches |-> {}, versions |-> {}, hashes |-> {}]
<1> DEFINE a == [topic |-> topic, label |-> label, moves |-> moves, forms |-> forms,
                 items |-> items, batches |-> batches, versions |-> versions, hashes |-> hashes]
           R == [topic : {topic}, label : {label}, moves : {moves}, forms : {forms},
                 items : {items}, batches : {batches, {}}, versions : {versions, {}},
                 hashes : {hashes, {}}]
<1>1. a \in R
  OBVIOUS
<1>2. Bare(a) \in R /\ Bare(a).batches = {} /\ Bare(a).versions = {} /\ Bare(a).hashes = {}
  BY <1>1 DEF Bare
<1>3. \A b \in R : b.batches = {} /\ b.versions = {} /\ b.hashes = {} =>
        b = [topic |-> topic, label |-> label, moves |-> moves, forms |-> forms,
             items |-> items, batches |-> {}, versions |-> {}, hashes |-> {}]
  OBVIOUS
<1> HIDE DEF R
<1> QED BY <1>2, <1>3

LEMMA MergedAtomBare ==
  ASSUME NEW A, NEW B, \A a \in A : \E b \in B : Alike(a, b),
         \A b \in B : Unsourced(b) /\ \E a \in A : Alike(a, b), NEW k
  PROVE  Bare(MergedAtom(A, k)) = MergedAtom(B, k)
<1>1. \A a \in Same(A, k) : \E b \in Same(B, k) : Alike(a, b)
  BY DEF Same, Alike
<1>2. \A b \in Same(B, k) : Unsourced(b) /\ \E a \in Same(A, k) : Alike(a, b)
  BY DEF Same, Alike
<1>3. /\ UNION {a.moves : a \in Same(A, k)} = UNION {b.moves : b \in Same(B, k)}
      /\ UNION {a.forms : a \in Same(A, k)} = UNION {b.forms : b \in Same(B, k)}
      /\ UNION {a.items : a \in Same(A, k)} = UNION {b.items : b \in Same(B, k)}
  <2>1. /\ {a.moves : a \in Same(A, k)} = {b.moves : b \in Same(B, k)}
        /\ {a.forms : a \in Same(A, k)} = {b.forms : b \in Same(B, k)}
        /\ {a.items : a \in Same(A, k)} = {b.items : b \in Same(B, k)}
    BY <1>1, <1>2 DEF Alike
  <2> QED BY <2>1
<1>4. /\ UNION {b.batches : b \in Same(B, k)} = {}
      /\ UNION {b.versions : b \in Same(B, k)} = {}
      /\ UNION {b.hashes : b \in Same(B, k)} = {}
  BY <1>2 DEF Unsourced
<1> DEFINE topic == k[1]
           label == k[2]
           moves == UNION {a.moves : a \in Same(A, k)}
           forms == UNION {a.forms : a \in Same(A, k)}
           items == UNION {a.items : a \in Same(A, k)}
           batches == UNION {a.batches : a \in Same(A, k)}
           versions == UNION {a.versions : a \in Same(A, k)}
           hashes == UNION {a.hashes : a \in Same(A, k)}
<1>5. /\ MergedAtom(A, k) =
           [topic |-> topic, label |-> label, moves |-> moves, forms |-> forms,
            items |-> items, batches |-> batches, versions |-> versions, hashes |-> hashes]
      /\ MergedAtom(B, k) =
           [topic |-> topic, label |-> label, moves |-> moves, forms |-> forms,
            items |-> items, batches |-> {}, versions |-> {}, hashes |-> {}]
  BY <1>3, <1>4 DEF MergedAtom
<1> HIDE DEF topic, label, moves, forms, items, batches, versions, hashes
<1> QED BY <1>5, BareRecord

LEMMA MergeIsBare ==
  ASSUME NEW A, NEW B, \A a \in A : \E b \in B : Alike(a, b),
         \A b \in B : Unsourced(b) /\ \E a \in A : Alike(a, b)
  PROVE  {Bare(a) : a \in MergeAtoms(A)} = MergeAtoms(B)
<1>1. {Key(a) : a \in A} = {Key(b) : b \in B}
  BY DEF Alike
<1> DEFINE K == {Key(a) : a \in A}
<1>2. MergeAtoms(A) = {MergedAtom(A, k) : k \in K} /\ MergeAtoms(B) = {MergedAtom(B, k) : k \in K}
  BY <1>1, AtomsMerge
<1>3. \A k : Bare(MergedAtom(A, k)) = MergedAtom(B, k)
  BY MergedAtomBare
<1> HIDE DEF K
<1> QED BY <1>2, <1>3

LEMMA ValidAtomsAgree ==
  ASSUME NEW t \in [Slots -> Batches], WorkbenchValid(t), ~LoadFails(t)
  PROVE  {Bare(a) : a \in DistilledAtoms(t)} = CoverageAtoms(t)
<1> DEFINE A == RetainedAtoms(t)
           D == Distilled(Loaded(t))
           C == Counted(SoundOccurrences(t))
           of(r) == AtomsOf(r.text, {}, {}, {})
           B == UNION {of(r) : r \in C}
<1>1. DistilledAtoms(t) = MergeAtoms(A) /\ CoverageAtoms(t) = MergeAtoms(B)
  BY DEF DistilledAtoms, RetainedAtoms, CoverageAtoms
<1>2. {m.text : m \in D} = {r.text : r \in C}
  BY ValidTexts
<1>3. /\ \A p \in A : \E m \in D : \E step \in Content[m.text].steps : p = RetainedAtom(t, m, step)
      /\ \A m \in D : \A step \in Content[m.text].steps : RetainedAtom(t, m, step) \in A
  BY RetainedAtomsAre
<1>4. \A r : of(r) = {StepAtom(r.text, step, {}, {}, {}) : step \in Content[r.text].steps}
  BY AtomsAreSteps
<1>5. ASSUME NEW m, NEW step
      PROVE  /\ Alike(RetainedAtom(t, m, step), StepAtom(m.text, step, {}, {}, {}))
             /\ Unsourced(StepAtom(m.text, step, {}, {}, {}))
  BY DEF RetainedAtom, StepAtom, Alike, Unsourced, Key
<1> HIDE DEF D, C, A, of
<1>6. ASSUME NEW a \in A
      PROVE  \E b \in B : Alike(a, b)
  <2>1. PICK m \in D : \E step \in Content[m.text].steps : a = RetainedAtom(t, m, step)
    BY <1>3
  <2>2. PICK step \in Content[m.text].steps : a = RetainedAtom(t, m, step)
    BY <2>1
  <2>3. PICK r \in C : r.text = m.text
    BY <1>2
  <2>4. StepAtom(m.text, step, {}, {}, {}) \in of(r)
    BY <1>4, <2>3
  <2> QED BY <1>5, <2>2, <2>4
<1>7. ASSUME NEW b \in B
      PROVE  Unsourced(b) /\ \E a \in A : Alike(a, b)
  <2>1. PICK r \in C : b \in of(r)
    OBVIOUS
  <2>2. PICK step \in Content[r.text].steps : b = StepAtom(r.text, step, {}, {}, {})
    BY <1>4, <2>1
  <2>3. PICK m \in D : m.text = r.text
    BY <1>2
  <2>4. RetainedAtom(t, m, step) \in A
    BY <1>3, <2>2, <2>3
  <2> QED BY <1>5, <2>2, <2>3, <2>4
<1> HIDE DEF B
<1> QED BY <1>1, <1>6, <1>7, MergeIsBare

-----------------------------------------------------------------------------
(* What the coverage report says of any atoms, for any finite registry. *)

(* The last of the three tests of classify_atom_support leaves the families *)
(* that select_for_atom looks at.                                           *)
AfterTopic(atom) == {f \in Families : atom.topic \in Registry[f].topics}
AfterAnswer(atom) == {f \in AfterTopic(atom) : atom.forms \cap Registry[f].forms # {}}

LEMMA MatchesPassAllTests ==
  ASSUME NEW atom
  PROVE  /\ {f \in AfterAnswer(atom) : MatchesAtom(f, atom)} = Matches(atom)
         /\ Matches(atom) \subseteq AfterAnswer(atom)
         /\ AfterAnswer(atom) \subseteq AfterTopic(atom)
BY DEF AfterTopic, AfterAnswer, Matches, MatchesAtom

LEMMA MatchesFinite ==
  ASSUME NEW atom
  PROVE  /\ IsFiniteSet(Matches(atom))
         /\ Cardinality(Matches(atom)) \in Nat
         /\ Cardinality(Matches(atom)) = 0 <=> Matches(atom) = {}
         /\ Cardinality(Matches(atom)) = 1 <=> \E f : Matches(atom) = {f}
<1>1. IsFiniteSet(Matches(atom))
  BY FamiliesAssumption, FS_Subset DEF Matches
<1> QED
  BY <1>1, FS_CardinalityType, FS_EmptySet, FS_Singleton

(* An atom is supported by one family if and only if that family is the one *)
(* generation selects (classify_atom_support, select_for_atom).             *)
LEMMA SupportedIffSelected ==
  ASSUME NEW atom
  PROVE  LET support == ClassifyAtomSupport(atom)
         IN /\ support.reason = "supported" <=> SelectForAtom(atom) # Refused
            /\ support.reason = "supported" =>
                 support.families = {SelectForAtom(atom)}
                   /\ Matches(atom) = {SelectForAtom(atom)}
<1>1. CASE Matches(atom) = {}
  <2>1. SelectForAtom(atom) = Refused
    BY <1>1, MatchesFinite DEF SelectForAtom
  <2>2. ClassifyAtomSupport(atom).reason # "supported"
    BY <1>1, MatchesPassAllTests
    DEF ClassifyAtomSupport, Support, AfterTopic, AfterAnswer
  <2> QED
    BY <2>1, <2>2
<1>2. CASE Matches(atom) # {}
  <2>1. AfterTopic(atom) # {} /\ AfterAnswer(atom) # {}
    BY <1>2, MatchesPassAllTests
  <2>2. ClassifyAtomSupport(atom) =
          IF Cardinality(Matches(atom)) > 1
          THEN Support(Matches(atom), "ambiguous_family_match")
          ELSE Support(Matches(atom), "supported")
    BY <1>2, <2>1, MatchesPassAllTests
    DEF ClassifyAtomSupport, AfterTopic, AfterAnswer
  <2>3. CASE Cardinality(Matches(atom)) > 1
    BY <2>2, <2>3, MatchesFinite DEF SelectForAtom, Support
  <2>4. CASE ~(Cardinality(Matches(atom)) > 1)
    <3>1. Cardinality(Matches(atom)) = 1
      BY <1>2, <2>4, MatchesFinite
    <3>2. PICK f : Matches(atom) = {f}
      BY <3>1, MatchesFinite
    <3>3. SelectForAtom(atom) = f /\ f \in Families
      BY <3>1, <3>2 DEF SelectForAtom, Matches
    <3> QED
      BY <2>2, <2>4, <3>2, <3>3, RefusedAssumption DEF Support
  <2> QED
    BY <2>3, <2>4
<1> QED
  BY <1>1, <1>2

(* A blueprint leads back to the family that built it: its tag names one    *)
(* family, and the slot is that family's own (resolve_for_blueprint).       *)
LEMMA BlueprintLeadsBack ==
  ASSUME NEW f \in Families
  PROVE  ResolveForBlueprint(BuildBlueprint(f)) = f
<1>1. Cardinality({f}) = 1
  BY FS_Singleton
<1> QED
  BY <1>1 DEF ResolveForBlueprint, BuildBlueprint

(* The coverage report tells the truth about generation: a mapped atom gets *)
(* the family it is mapped to, no other can be asked for, and its blueprint *)
(* leads back to it; every other atom is refused (coverage_report).         *)
THEOREM CoverageReportHolds ==
  \A atoms :
    LET report == CoverageReport(atoms)
    IN /\ \A p \in report.mappings :
            /\ SelectForAtom(p[1]) = p[2]
            /\ \A f \in Families \ {p[2]} : SelectRequested(p[1], f) = Refused
            /\ ResolveForBlueprint(BuildBlueprint(p[2])) = p[2]
       /\ \A a \in report.ambiguous \cup report.unmatched : SelectForAtom(a) = Refused
<1> SUFFICES ASSUME NEW atoms
             PROVE  LET report == CoverageReport(atoms)
                    IN /\ \A p \in report.mappings :
                            /\ SelectForAtom(p[1]) = p[2]
                            /\ \A f \in Families \ {p[2]} :
                                 SelectRequested(p[1], f) = Refused
                            /\ ResolveForBlueprint(BuildBlueprint(p[2])) = p[2]
                       /\ \A a \in report.ambiguous \cup report.unmatched :
                            SelectForAtom(a) = Refused
  OBVIOUS
<1> DEFINE mapped == {a \in atoms : ClassifyAtomSupport(a).reason = "supported"}
           report == CoverageReport(atoms)
<1>1. report.mappings =
        {<<a, CHOOSE f \in ClassifyAtomSupport(a).families : TRUE>> : a \in mapped}
  BY DEF CoverageReport
<1>2. report.ambiguous \cup report.unmatched \subseteq atoms \ mapped
  BY DEF CoverageReport
<1>3. ASSUME NEW a \in mapped
      PROVE  /\ (CHOOSE f \in ClassifyAtomSupport(a).families : TRUE) = SelectForAtom(a)
             /\ SelectForAtom(a) \in Families
             /\ \A f \in Families \ {SelectForAtom(a)} : SelectRequested(a, f) = Refused
             /\ ResolveForBlueprint(BuildBlueprint(SelectForAtom(a))) = SelectForAtom(a)
  <2>1. /\ ClassifyAtomSupport(a).families = {SelectForAtom(a)}
        /\ Matches(a) = {SelectForAtom(a)}
    BY <1>3, SupportedIffSelected
  <2>2. SelectForAtom(a) \in Families
    BY <2>1 DEF Matches
  <2>3. \A f \in Families \ {SelectForAtom(a)} : SelectRequested(a, f) = Refused
    BY <2>1 DEF Matches, SelectRequested
  <2>4. (CHOOSE f \in {SelectForAtom(a)} : TRUE) = SelectForAtom(a)
    OBVIOUS
  <2> QED
    BY <2>1, <2>2, <2>3, <2>4, BlueprintLeadsBack
<1>4. \A p \in report.mappings :
        /\ SelectForAtom(p[1]) = p[2]
        /\ \A f \in Families \ {p[2]} : SelectRequested(p[1], f) = Refused
        /\ ResolveForBlueprint(BuildBlueprint(p[2])) = p[2]
  <2> TAKE p \in report.mappings
  <2>1. PICK a \in mapped :
          p = <<a, CHOOSE f \in ClassifyAtomSupport(a).families : TRUE>>
    BY <1>1
  <2> HIDE DEF mapped, report
  <2>2. p[1] = a /\ p[2] = SelectForAtom(a)
    BY <1>3, <2>1
  <2> QED
    BY <1>3, <2>2
<1>5. \A a \in report.ambiguous \cup report.unmatched : SelectForAtom(a) = Refused
  BY <1>2, SupportedIffSelected
<1> QED
  BY <1>4, <1>5

(* The coverage report tells the truth about generation in every tree, and  *)
(* in a valid one it is about the atoms that are distilled                  *)
(* (coverage_report, select_for_atom, build_coverage_report).               *)
THEOREM ReportedSupportAlwaysHolds == Spec => []ReportedSupportHolds
<1>1. ASSUME TreeOK
      PROVE  ReportedSupportHolds
  <2>1. tree \in [Slots -> Batches]
    BY <1>1 DEF TreeOK
  <2>2. WorkbenchValid(tree) /\ ~RunRaises(tree) =>
          {Bare(a) : a \in DistilledAtoms(tree)} = CoverageAtoms(tree)
    BY <2>1, ValidAtomsAgree DEF RunRaises, Dedupes
  <2> DEFINE atoms == CoverageAtoms(tree)
  <2>3. LET report == CoverageReport(atoms)
        IN /\ \A p \in report.mappings :
                /\ SelectForAtom(p[1]) = p[2]
                /\ \A f \in Families \ {p[2]} : SelectRequested(p[1], f) = Refused
                /\ ResolveForBlueprint(BuildBlueprint(p[2])) = p[2]
           /\ \A a \in report.ambiguous \cup report.unmatched : SelectForAtom(a) = Refused
    <3> HIDE DEF atoms
    <3> QED BY CoverageReportHolds
  <2> QED BY <2>2, <2>3 DEF ReportedSupportHolds
<1> QED BY <1>1, TreeAlwaysOK, PTL
-----------------------------------------------------------------------------
(* The statistics.  A sum over a finite set is a recursive function of its  *)
(* subsets; it is told from what it should be by the smallest subset where  *)
(* the two differ.                                                          *)

Sums(f, g, K) ==
  g = [s \in SUBSET K |->
         IF s = {} THEN 0
         ELSE f[CHOOSE x \in s : TRUE] + g[s \ {CHOOSE x \in s : TRUE}]]

AddsUp(f, G, K) ==
  /\ G[{}] = 0
  /\ \A s \in SUBSET K : \A x \in s : G[s] = f[x] + G[s \ {x}]

LEMMA SumIs ==
  ASSUME NEW K, IsFiniteSet(K), NEW f, NEW G \in [SUBSET K -> Int], AddsUp(f, G, K)
  PROVE  \A g : Sums(f, g, K) <=> g = G
<1>0. /\ G[{}] = 0
      /\ \A s \in SUBSET K : \A x \in s : G[s] = f[x] + G[s \ {x}]
  BY DEF AddsUp
<1>1. Sums(f, G, K)
  <2>1. G = [s \in SUBSET K |-> G[s]]
    OBVIOUS
  <2>2. ASSUME NEW s \in SUBSET K
        PROVE  G[s] = IF s = {} THEN 0
                      ELSE f[CHOOSE x \in s : TRUE] + G[s \ {CHOOSE x \in s : TRUE}]
    <3>1. s # {} => (CHOOSE x \in s : TRUE) \in s
      OBVIOUS
    <3> QED BY <1>0, <3>1
  <2> QED BY <2>1, <2>2 DEF Sums
<1>2. ASSUME NEW g, Sums(f, g, K)
      PROVE  g = G
  <2>1. /\ g = [s \in SUBSET K |-> g[s]]
        /\ g[{}] = 0
        /\ \A s \in SUBSET K : s # {} =>
             g[s] = f[CHOOSE x \in s : TRUE] + g[s \ {CHOOSE x \in s : TRUE}]
    BY <1>2 DEF Sums
  <2> DEFINE Differ == {s \in SUBSET K : g[s] # G[s]}
  <2>2. Differ = {}
    <3>1. SUFFICES ASSUME Differ # {}
                   PROVE  FALSE
      OBVIOUS
    <3>2. Differ \in SUBSET SUBSET K
      OBVIOUS
    <3>3. PICK U \in Differ : \A V \in Differ : V \subseteq U => V = U
      <4> HIDE DEF Differ
      <4> QED BY <3>1, <3>2, SmallestExists
    <3>4. U \in SUBSET K /\ g[U] # G[U] /\ U # {}
      BY <1>0, <2>1
    <3> DEFINE x == CHOOSE x \in U : TRUE
    <3>5. x \in U
      BY <3>4
    <3>6. g[U] = f[x] + g[U \ {x}]
      BY <2>1, <3>4
    <3> HIDE DEF x
    <3>7. U \ {x} \in SUBSET K /\ U \ {x} \notin Differ
      BY <3>3, <3>4, <3>5
    <3>8. g[U \ {x}] = G[U \ {x}]
      BY <3>7
    <3> QED BY <1>0, <3>4, <3>5, <3>6, <3>8
  <2>3. \A s \in SUBSET K : g[s] = G[s]
    BY <2>2
  <2>4. G = [s \in SUBSET K |-> G[s]]
    OBVIOUS
  <2> QED BY <2>1, <2>3, <2>4
<1> QED BY <1>1, <1>2

(* What the classes of a finite set have too many: its size less their number. *)
Class(S, key, k) == {r \in S : key[r] = k}
Surplus(f, S, key, K) ==
  /\ \A k : k \in K <=> \E r \in S : key[r] = k
  /\ \A k \in K : f[k] = Cardinality(Class(S, key, k)) - 1

LEMMA ClassesCount ==
  ASSUME NEW S, IsFiniteSet(S), NEW key, NEW K, NEW f, Surplus(f, S, key, K)
  PROVE  /\ IsFiniteSet(K)
         /\ (CHOOSE g : Sums(f, g, K))[K] = Cardinality(S) - Cardinality(K)
<1> DEFINE within(s) == {r \in S : key[r] \in s}
           G == [s \in SUBSET K |-> Cardinality(within(s)) - Cardinality(s)]
           h == [r \in S |-> key[r]]
<1>0. /\ \A k : k \in K <=> \E r \in S : key[r] = k
      /\ \A k \in K : f[k] = Cardinality(Class(S, key, k)) - 1
  BY DEF Surplus
<1>1. IsFiniteSet(K)
  <2>1. DOMAIN h = S /\ \A y \in K : \E r \in S : y = h[r]
    BY <1>0
  <2> HIDE DEF h
  <2> QED BY <2>1, ImageFinite
<1>2. \A T : T \in SUBSET S => IsFiniteSet(T) /\ Cardinality(T) \in Nat
  BY FS_Subset, FS_CardinalityType
<1>3. \A s \in SUBSET K : IsFiniteSet(s) /\ Cardinality(s) \in Nat
  BY <1>1, FS_Subset, FS_CardinalityType
<1>4. \A s : within(s) \in SUBSET S
  OBVIOUS
<1>5. G \in [SUBSET K -> Int]
  <2>1. \A s \in SUBSET K : Cardinality(within(s)) - Cardinality(s) \in Int
    <3> HIDE DEF within
    <3> QED BY <1>2, <1>3, <1>4
  <2> HIDE DEF within
  <2> QED BY <2>1
<1>6. G[{}] = 0
  <2>1. within({}) = {}
    OBVIOUS
  <2>2. G[{}] = Cardinality(within({})) - Cardinality({})
    OBVIOUS
  <2> HIDE DEF within, G
  <2> QED BY <2>1, <2>2, FS_EmptySet
<1>7. ASSUME NEW s \in SUBSET K, NEW x \in s
      PROVE  G[s] = f[x] + G[s \ {x}]
  <2> DEFINE C == Class(S, key, x)
             W == within(s \ {x})
  <2>1. within(s) = C \cup W /\ C \cap W = {} /\ C \in SUBSET S /\ W \in SUBSET S
    BY DEF Class
  <2>2. /\ f[x] = Cardinality(C) - 1
        /\ G[s] = Cardinality(within(s)) - Cardinality(s)
        /\ G[s \ {x}] = Cardinality(W) - Cardinality(s \ {x})
    BY <1>0
  <2> HIDE DEF C, W, within, G
  <2>3. /\ IsFiniteSet(C) /\ Cardinality(C) \in Nat
        /\ IsFiniteSet(W) /\ Cardinality(W) \in Nat
    BY <1>2, <2>1
  <2>4. Cardinality(within(s)) = Cardinality(C) + Cardinality(W)
    <3>1. Cardinality(C \cup W) = Cardinality(C) + Cardinality(W) - Cardinality(C \cap W)
      BY <2>3, FS_Union
    <3>2. Cardinality(C \cap W) = 0
      BY <2>1, FS_EmptySet
    <3> QED BY <2>1, <2>3, <3>1, <3>2
  <2>5. Cardinality(s \ {x}) = Cardinality(s) - 1 /\ Cardinality(s) \in Nat
    BY <1>3, FS_RemoveElement
  <2> QED BY <2>2, <2>3, <2>4, <2>5
<1>8. AddsUp(f, G, K)
  <2> HIDE DEF G
  <2> QED BY <1>6, <1>7 DEF AddsUp
<1>9. G[K] = Cardinality(S) - Cardinality(K)
  <2>1. within(K) = S
    BY <1>0
  <2>2. G[K] = Cardinality(within(K)) - Cardinality(K)
    OBVIOUS
  <2> QED BY <2>1, <2>2
<1> HIDE DEF G
<1>10. \A g : Sums(f, g, K) <=> g = G
  BY <1>1, <1>5, <1>8, SumIs
<1>11. (CHOOSE g : Sums(f, g, K)) = G
  BY <1>10
<1> QED BY <1>1, <1>9, <1>11

LEMMA SameSize ==
  ASSUME NEW S, IsFiniteSet(S), NEW T, NEW h \in [S -> T],
         \A a, b \in S : h[a] = h[b] => a = b, \A y \in T : \E a \in S : h[a] = y
  PROVE  Cardinality(T) = Cardinality(S)
<1>1. h \in Bijection(S, T)
  BY DEF Bijection, Injection, Surjection, IsInjective
<1> QED BY <1>1, FS_Bijection DEF ExistsBijection
LEMMA DistilledOncePerItem ==
  ASSUME NEW loaded \in SUBSET Records, IsFiniteSet(loaded)
  PROVE  /\ IsFiniteSet(ItemsOf(loaded))
         /\ Cardinality(Distilled(loaded)) = Cardinality(ItemsOf(loaded))
<1> DEFINE top(item) == Highest(MergedVersions(loaded, item), MergedRank)
           I == ItemsOf(loaded)
           h == [item \in I |-> top(item)]
           items == [r \in loaded |-> r.item]
<1>1. Distilled(loaded) = {top(item) : item \in I}
  BY DEF Distilled
<1>2. ASSUME NEW item \in I
      PROVE  top(item).item = item
  <2>1. \E x \in TextsOf(loaded, item) : top(item) = MergedText(loaded, item, x)
    BY RetainedVersion
  <2>2. PICK x \in TextsOf(loaded, item) : top(item) = MergedText(loaded, item, x)
    BY <2>1
  <2> HIDE DEF top
  <2> QED BY <2>2, MergedFacts
<1>3. IsFiniteSet(I)
  <2>1. DOMAIN items = loaded /\ \A y \in I : \E r \in loaded : y = items[r]
    BY DEF ItemsOf
  <2> HIDE DEF items, I
  <2> QED BY <2>1, ImageFinite
<1> HIDE DEF top, I
<1>4. /\ h \in [I -> Distilled(loaded)]
      /\ \A a, b \in I : h[a] = h[b] => a = b
      /\ \A m \in Distilled(loaded) : \E a \in I : h[a] = m
  BY <1>1, <1>2
<1> HIDE DEF h
<1> QED BY <1>3, <1>4, SameSize DEF I

(* The versions of an item are as many as its texts. *)
LEMMA VersionsOfItem ==
  ASSUME NEW loaded \in SUBSET Records, IsFiniteSet(loaded), NEW item \in ItemsOf(loaded)
  PROVE  Cardinality(MergedVersions(loaded, item)) =
           Cardinality({p \in ItemTexts(loaded) : p[1] = item})
<1> DEFINE T == {p \in ItemTexts(loaded) : p[1] = item}
           V == MergedVersions(loaded, item)
           h == [p \in T |-> MergedText(loaded, item, p[2])]
<1>1. V = {MergedText(loaded, item, x) : x \in TextsOf(loaded, item)}
  BY DEF MergedVersions, MergedText
<1>2. \A p : p \in T <=> \E x \in TextsOf(loaded, item) : p = <<item, x>>
  BY DEF ItemTexts, TextsOf
<1>3. \A x \in TextsOf(loaded, item) : MergedText(loaded, item, x).text = x
  BY MergedFacts
<1>4. IsFiniteSet(T)
  <2> DEFINE f == [x \in TextsOf(loaded, item) |-> <<item, x>>]
  <2>1. DOMAIN f = TextsOf(loaded, item) /\ \A p \in T : \E x \in TextsOf(loaded, item) : p = f[x]
    BY <1>2
  <2> HIDE DEF f, T
  <2> QED BY <2>1, TextsFinite, ImageFinite
<1> HIDE DEF T, V
<1>5. \A p \in T : p[2] \in TextsOf(loaded, item) /\ p = <<item, p[2]>>
  BY <1>2
<1>6. h \in [T -> V]
  BY <1>1, <1>5
<1>7. ASSUME NEW p \in T, NEW q \in T, h[p] = h[q]
      PROVE  p = q
  <2>1. MergedText(loaded, item, p[2]) = MergedText(loaded, item, q[2])
    BY <1>7
  <2>2. p[2] = q[2]
    BY <1>3, <1>5, <2>1
  <2> QED BY <1>5, <2>2
<1>8. ASSUME NEW v \in V
      PROVE  \E p \in T : h[p] = v
  <2>1. PICK x \in TextsOf(loaded, item) : v = MergedText(loaded, item, x)
    BY <1>1
  <2>2. <<item, x>> \in T
    BY <1>2
  <2>3. h[<<item, x>>] = v
    BY <2>1, <2>2
  <2> QED BY <2>2, <2>3
<1> HIDE DEF h
<1> QED BY <1>4, <1>6, <1>7, <1>8, SameSize DEF T, V

LEMMA ExactDuplicatesCount ==
  ASSUME NEW loaded \in SUBSET Records, IsFiniteSet(loaded)
  PROVE  /\ IsFiniteSet(ItemTexts(loaded))
         /\ DedupStats(loaded).exact = Cardinality(loaded) - Cardinality(ItemTexts(loaded))
<1> DEFINE K == ItemTexts(loaded)
           f == [p \in K |-> ExactDuplicates(loaded, p)]
           key == [r \in loaded |-> <<r.item, r.text>>]
           Body(g) == [s \in SUBSET K |->
             IF s = {} THEN 0
             ELSE ExactDuplicates(loaded, CHOOSE x \in s : TRUE) + g[s \ {CHOOSE x \in s : TRUE}]]
<1>1. DedupStats(loaded).exact = (CHOOSE g : g = Body(g))[K]
  BY DEF DedupStats, MapThenSumSet, MapThenFoldSet
<1>2. ASSUME NEW s \in SUBSET K, s # {}
      PROVE  ExactDuplicates(loaded, CHOOSE x \in s : TRUE) = f[CHOOSE x \in s : TRUE]
  <2>1. (CHOOSE x \in s : TRUE) \in K
    BY <1>2
  <2> QED BY <2>1
<1>3. \A g : (g = Body(g)) <=> Sums(f, g, K)
  <2> HIDE DEF K, f
  <2> QED BY <1>2, ZenonT(30) DEF Sums
<1>4. DedupStats(loaded).exact = (CHOOSE g : Sums(f, g, K))[K]
  BY <1>1, <1>3
<1>5. \A p : p \in K <=> \E r \in loaded : key[r] = p
  BY DEF ItemTexts
<1>6. ASSUME NEW p \in K
      PROVE  f[p] = Cardinality(Class(loaded, key, p)) - 1
  <2>1. PICK r \in loaded : p = <<r.item, r.text>>
    BY DEF ItemTexts
  <2>2. Class(loaded, key, p) = GroupOf(loaded, p[1], p[2])
    BY <2>1 DEF Class, GroupOf
  <2>3. f[p] = Cardinality(GroupOf(loaded, p[1], p[2])) - 1
    BY DEF ExactDuplicates
  <2> QED BY <2>2, <2>3
<1> HIDE DEF K, f, key
<1>7. Surplus(f, loaded, key, K)
  BY <1>5, <1>6 DEF Surplus
<1>8. /\ IsFiniteSet(K)
      /\ (CHOOSE g : Sums(f, g, K))[K] = Cardinality(loaded) - Cardinality(K)
  BY <1>7, ClassesCount
<1> QED BY <1>4, <1>8 DEF K

LEMMA SupersededCount ==
  ASSUME NEW loaded \in SUBSET Records, IsFiniteSet(loaded)
  PROVE  DedupStats(loaded).superseded =
           Cardinality(ItemTexts(loaded)) - Cardinality(ItemsOf(loaded))
<1> DEFINE S == ItemTexts(loaded)
           K == ItemsOf(loaded)
           f == [item \in K |-> Superseded(loaded, item)]
           key == [p \in S |-> p[1]]
           Body(g) == [s \in SUBSET K |->
             IF s = {} THEN 0
             ELSE Superseded(loaded, CHOOSE x \in s : TRUE) + g[s \ {CHOOSE x \in s : TRUE}]]
<1>1. DedupStats(loaded).superseded = (CHOOSE g : g = Body(g))[K]
  BY DEF DedupStats, MapThenSumSet, MapThenFoldSet
<1>2. ASSUME NEW s \in SUBSET K, s # {}
      PROVE  Superseded(loaded, CHOOSE x \in s : TRUE) = f[CHOOSE x \in s : TRUE]
  <2>1. (CHOOSE x \in s : TRUE) \in K
    BY <1>2
  <2> QED BY <2>1
<1>3. \A g : (g = Body(g)) <=> Sums(f, g, K)
  <2> HIDE DEF K, f
  <2> QED BY <1>2, ZenonT(30) DEF Sums
<1>4. DedupStats(loaded).superseded = (CHOOSE g : Sums(f, g, K))[K]
  BY <1>1, <1>3
<1>5. \A item : item \in K <=> \E p \in S : key[p] = item
  <2>1. ASSUME NEW item \in K
        PROVE  \E p \in S : key[p] = item
    <3>1. PICK r \in loaded : r.item = item
      BY DEF ItemsOf
    <3>2. <<r.item, r.text>> \in S
      BY DEF ItemTexts
    <3>3. key[<<r.item, r.text>>] = item
      BY <3>1, <3>2
    <3> QED BY <3>2, <3>3
  <2>2. ASSUME NEW p \in S
        PROVE  key[p] \in K
    <3>1. PICK r \in loaded : p = <<r.item, r.text>>
      BY DEF ItemTexts
    <3> QED BY <3>1 DEF ItemsOf
  <2> HIDE DEF S, K, key
  <2> QED BY <2>1, <2>2
<1>6. ASSUME NEW item \in K
      PROVE  f[item] = Cardinality(Class(S, key, item)) - 1
  <2>1. Class(S, key, item) = {p \in S : p[1] = item}
    BY DEF Class
  <2>2. f[item] = Cardinality(MergedVersions(loaded, item)) - 1
    BY DEF Superseded
  <2> QED BY <2>1, <2>2, VersionsOfItem
<1>7. IsFiniteSet(S)
  BY ExactDuplicatesCount
<1> HIDE DEF S, K, f, key
<1>8. Surplus(f, S, key, K)
  BY <1>5, <1>6 DEF Surplus
<1>9. (CHOOSE g : Sums(f, g, K))[K] = Cardinality(S) - Cardinality(K)
  BY <1>7, <1>8, ClassesCount
<1> QED BY <1>4, <1>9 DEF S, K

(* No record is lost from the statistics, and none is counted twice: each   *)
(* group keeps one record of its content, each item one of its versions     *)
(* (_dedupe_source_records).                                                *)
THEOREM EveryRecordIsAlwaysCounted == Spec => []EveryRecordIsCounted
<1>1. ASSUME TreeOK, ~LoadFails(tree)
      PROVE  LET stats == DedupStats(Loaded(tree))
             IN stats.input = stats.output + stats.exact + stats.superseded
  <2> DEFINE loaded == Loaded(tree)
             stats == DedupStats(loaded)
  <2>1. loaded \in SUBSET Records /\ IsFiniteSet(loaded)
    BY <1>1, LoadedTyped DEF TreeOK
  <2> HIDE DEF loaded
  <2>2. stats.input = Cardinality(loaded) /\ stats.output = Cardinality(Distilled(loaded))
    BY DEF DedupStats
  <2> HIDE DEF stats
  <2>3. stats.output = Cardinality(ItemsOf(loaded)) /\ IsFiniteSet(ItemsOf(loaded))
    BY <2>1, <2>2, DistilledOncePerItem
  <2>4. /\ IsFiniteSet(ItemTexts(loaded))
        /\ stats.exact = Cardinality(loaded) - Cardinality(ItemTexts(loaded))
        /\ stats.superseded = Cardinality(ItemTexts(loaded)) - Cardinality(ItemsOf(loaded))
    BY <2>1, ExactDuplicatesCount, SupersededCount DEF stats
  <2>5. /\ Cardinality(loaded) \in Nat /\ Cardinality(ItemsOf(loaded)) \in Nat
        /\ Cardinality(ItemTexts(loaded)) \in Nat
    BY <2>1, <2>3, <2>4, FS_CardinalityType
  <2>6. stats.input = stats.output + stats.exact + stats.superseded
    BY <2>2, <2>3, <2>4, <2>5
  <2> QED BY <2>6 DEF stats, loaded
<1>2. TreeOK => EveryRecordIsCounted
  BY <1>1 DEF EveryRecordIsCounted, Dedupes
<1> QED BY <1>2, TreeAlwaysOK, PTL
=============================================================================
